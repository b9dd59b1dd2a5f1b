--------------------------- MODULE WrkLoopProofs ---------------------------
(***************************************************************************)
(* Proofs about the connections of one thread of the load generator on its *)
(* event loop, for any descriptors and connections.                        *)
(***************************************************************************)
EXTENDS WrkLoop, FiniteSetTheorems, WellFoundedInduction, TLAPS

ReadProcs  == {"socket_connected", "socket_readable"}
WriteProcs == {"socket_connected", "socket_writeable"}
Bytes == {"b", "k", "c", "z", "x"}

EventType == [mask : SUBSET {R, W}, rproc : ReadProcs \cup {None},
              wproc : WriteProcs \cup {None}, data : Conns \cup {None}]
SockType  == [st : {"closed", "connecting", "up", "failed"}, rx : Seq(Bytes), fin : BOOLEAN,
              got : Int, owe : Int, todo : Seq(Bytes), ends : BOOLEAN]
ConnType  == [fd : Int, written : Int, pending : Int, delayed : BOOLEAN,
              ps : {"none", "start", "mid", "eof", "dead"}]
TimerType == [proc : {"record_rate", "delay_request", "deleted"}, data : Conns \cup {None}]
StateType == [events : [Fds -> EventType], polled : [Fds -> SUBSET {R, W}], maxfd : Int,
              timers : Seq(TimerType), sock : [Fds -> SockType], lost : SUBSET Conns,
              conn : [Conns -> ConnType]]

Shape(s) == s = [events |-> s.events, polled |-> s.polled, maxfd |-> s.maxfd,
                 timers |-> s.timers, sock |-> s.sock, lost |-> s.lost, conn |-> s.conn]

(* What the loop watches is what epoll watches, of open sockets.           *)
Watched(s) ==
  \A fd \in Fds : /\ s.polled[fd] = s.events[fd].mask
                  /\ s.events[fd].mask # {} => s.sock[fd].st # "closed"

(* The highest of some descriptors.                                        *)
IsTop(x, S) == x \in {-1} \cup S /\ \A y \in S : y <= x
Watching(s) == {fd \in Fds : s.events[fd].mask # {}}
Topped(s) == IsTop(s.maxfd, Watching(s))

(* Open sockets and the connections C that have one know each other.       *)
Owned(C, s) ==
  /\ \A fd \in Fds : s.sock[fd].st # "closed" =>
       /\ s.events[fd].data \in C /\ s.conn[s.events[fd].data].fd = fd
       /\ R \in s.events[fd].mask
  /\ \A c \in C : /\ s.conn[c].fd \in Fds /\ s.sock[s.conn[c].fd].st # "closed"
                  /\ s.events[s.conn[c].fd].data = c

(* Nothing is read from a socket that is not connected.                    *)
Silent(s) ==
  \A fd \in Fds : s.sock[fd].st \in {"closed", "connecting"} => s.sock[fd].rx = <<>>

Callable(s) ==
  \A fd \in Fds : /\ R \in s.events[fd].mask => s.events[fd].rproc # None
                  /\ W \in s.events[fd].mask => s.events[fd].wproc # None

(* Delays are those that were asked for, of connections in use.            *)
Delays(m, s) ==
  /\ \A c \in Conns : s.conn[c].delayed => m.delay
  /\ \A i \in DOMAIN s.timers : s.timers[i].proc = "delay_request" =>
       m.delay /\ s.timers[i].data \in m.conns

(* A state between two steps of a callback, with sockets for C.            *)
Sane(m, C, s) ==
  /\ s \in StateType /\ Watched(s) /\ Topped(s) /\ Owned(C, s)
  /\ Silent(s) /\ Callable(s) /\ Delays(m, s)
Fine(m, s) == Sane(m, m.conns \ s.lost, s) /\ s.lost \subseteq m.conns
-----------------------------------------------------------------------------
(* Induction on the naturals, for sets.                                    *)
Below == {e \in Nat \X Nat : e[1] < e[2]}

LEMMA BelowWellFounded == IsWellFoundedOn(Below, Nat)
BY Zenon, NatLessThanWellFounded DEF OpToRel, Below

LEMMA Least ==
  ASSUME NEW T, T \subseteq Nat, T # {}
  PROVE  \E x \in T : \A y \in T : x <= y
<1>1. PICK x \in T : \A y \in T : ~(<<y, x>> \in Below)
  BY BelowWellFounded, WFMin
<1>2. \A y \in T : ~(y < x)
  BY <1>1 DEF Below
<1> QED BY <1>2

LEMMA Inductive ==
  ASSUME NEW S, 0 \in S, \A n \in Nat : n \in S => n + 1 \in S
  PROVE  Nat \subseteq S
<1> DEFINE T == Nat \ S
<1> SUFFICES ASSUME T # {} PROVE FALSE
  OBVIOUS
<1>1. PICK x \in T : \A y \in T : x <= y
  <2>1. T \subseteq Nat
    OBVIOUS
  <2> HIDE DEF T
  <2> QED BY <2>1, Least
<1>2. x # 0 /\ x - 1 \in Nat
  BY <1>1
<1>3. x - 1 \notin T
  BY <1>1, <1>2
<1> QED BY <1>2, <1>3

(* Descriptors have a highest one.                                         *)
LEMMA FdsAre == Fds \subseteq Nat /\ IsFiniteSet(Fds)
BY LoopAssumption

LEMMA Higher ==
  ASSUME NEW e, NEW n \in Nat, \A i \in 1 .. n + 1 : e[i] \in Nat,
         NEW b \in Nat, \A i \in 1 .. n : e[i] <= b
  PROVE  \E a \in Nat : \A i \in 1 .. n + 1 : e[i] <= a
<1>1. e[n + 1] \in Nat
  OBVIOUS
<1>2. CASE e[n + 1] <= b
  <2>1. \A i \in 1 .. n + 1 : e[i] <= b
    BY <1>2
  <2> QED BY <2>1
<1>3. CASE e[n + 1] > b
  <2>1. \A i \in 1 .. n + 1 : e[i] <= e[n + 1]
    BY <1>1, <1>3
  <2> QED BY <1>1, <2>1
<1> QED BY <1>1, <1>2, <1>3

LEMMA Bounded == \E b \in Nat : \A fd \in Fds : fd <= b
<1>1. PICK e \in Seq(Fds) : \A fd \in Fds : \E n \in 1 .. Len(e) : e[n] = fd
  BY FdsAre DEF IsFiniteSet
<1>2. Len(e) \in Nat /\ \A i \in 1 .. Len(e) : e[i] \in Nat
  <2>1. Len(e) \in Nat /\ \A i \in 1 .. Len(e) : e[i] \in Fds
    OBVIOUS
  <2> QED BY <2>1, FdsAre
<1> DEFINE B == {n \in Nat : n <= Len(e) => \E b \in Nat : \A i \in 1 .. n : e[i] <= b}
<1>3. 0 \in B
  OBVIOUS
<1>4. ASSUME NEW n \in Nat, n \in B
      PROVE  n + 1 \in B
  <2> SUFFICES ASSUME n + 1 <= Len(e)
               PROVE  \E b \in Nat : \A i \in 1 .. n + 1 : e[i] <= b
    OBVIOUS
  <2>1. PICK b \in Nat : \A i \in 1 .. n : e[i] <= b
    BY <1>2, <1>4
  <2>2. \A i \in 1 .. n + 1 : e[i] \in Nat
    BY <1>2
  <2> QED BY <2>1, <2>2, Higher
<1>5. Len(e) \in B
  <2> HIDE DEF B
  <2>1. Nat \subseteq B
    BY <1>3, <1>4, Inductive
  <2> QED BY <1>2, <2>1
<1>6. PICK b \in Nat : \A i \in 1 .. Len(e) : e[i] <= b
  BY <1>2, <1>5
<1> QED BY <1>1, <1>6

LEMMA TopExists ==
  ASSUME NEW S, S \subseteq Fds
  PROVE  \E x : IsTop(x, S)
<1> DEFINE B == {n \in Nat : \A y \in S : y <= n}
<1>1. B # {}
  BY Bounded
<1>2. PICK x \in B : \A y \in B : x <= y
  <2>1. B \subseteq Nat
    OBVIOUS
  <2> HIDE DEF B
  <2> QED BY <1>1, <2>1, Least
<1>3. S \subseteq Nat
  BY FdsAre
<1>4. CASE x \in S
  BY <1>2, <1>4 DEF IsTop
<1>5. CASE x \notin S /\ S # {}
  <2>0. PICK y \in S : TRUE
    BY <1>5
  <2>1. y \in Nat /\ y <= x /\ y # x
    BY <1>2, <1>3, <1>5
  <2>2. x \in Nat /\ x # 0 /\ \A z \in S : z <= x - 1
    BY <1>2, <1>3, <1>5, <2>1
  <2>3. x - 1 \in B
    BY <2>2
  <2> QED BY <1>2, <2>2, <2>3
<1>6. CASE S = {}
  BY <1>6 DEF IsTop
<1> QED BY <1>4, <1>5, <1>6

LEMMA TopIs ==
  ASSUME NEW S, S \subseteq Fds, NEW x, IsTop(x, S)
  PROVE  Max({-1} \cup S) = x
<1>1. S \subseteq Nat
  BY FdsAre
<1>2. x \in {-1} \cup S /\ \A y \in {-1} \cup S : x >= y
  BY <1>1 DEF IsTop
<1>3. \A z \in {-1} \cup S : (\A y \in {-1} \cup S : z >= y) => z = x
  BY <1>1, <1>2
<1> QED BY <1>2, <1>3 DEF Max

LEMMA MaxIsTop ==
  ASSUME NEW S, S \subseteq Fds
  PROVE  IsTop(Max({-1} \cup S), S)
BY TopExists, TopIs
-----------------------------------------------------------------------------
(* The operations of the event loop on the socket of a connection.         *)
Replaced(f, S, x, v, h) == h[x] = v /\ \A y \in S : y # x => h[y] = f[y]

LEMMA ReplacedIs ==
  ASSUME NEW S, NEW T, NEW f \in [S -> T], NEW x \in S, NEW v \in T,
         NEW h, h = [f EXCEPT ![x] = v]
  PROVE  Replaced(f, S, x, v, h)
BY DEF Replaced

LEMMA ReplacedIn ==
  ASSUME NEW S, NEW T, NEW f \in [S -> T], NEW x \in S, NEW v \in T,
         NEW h, h = [f EXCEPT ![x] = v]
  PROVE  h \in [S -> T]
OBVIOUS

LEMMA ShapeTyped ==
  ASSUME NEW q, Shape(q), q.events \in [Fds -> EventType],
         q.polled \in [Fds -> SUBSET {R, W}], q.maxfd \in Int,
         q.timers \in Seq(TimerType), q.sock \in [Fds -> SockType],
         q.lost \in SUBSET Conns, q.conn \in [Conns -> ConnType]
  PROVE  q \in StateType
BY DEF Shape, StateType

Attached(C, s, q) ==
  /\ \A k \in Fds : q.sock[k].st = "closed" <=> s.sock[k].st = "closed"
  /\ \A d \in C : q.conn[d].fd = s.conn[d].fd
  /\ \A k \in Fds : q.events[k].data = s.events[k].data
  /\ \A k \in Fds : R \in s.events[k].mask => R \in q.events[k].mask

LEMMA OwnedKept ==
  ASSUME NEW C, NEW s, Owned(C, s), NEW q, Attached(C, s, q)
  PROVE  Owned(C, q)
<1>1. ASSUME NEW d \in C
      PROVE  /\ q.conn[d].fd \in Fds /\ q.sock[q.conn[d].fd].st # "closed"
             /\ q.events[q.conn[d].fd].data = d
  <2>1. /\ s.conn[d].fd \in Fds /\ s.sock[s.conn[d].fd].st # "closed"
        /\ s.events[s.conn[d].fd].data = d
    BY DEF Owned
  <2> QED BY <2>1 DEF Attached
<1>2. ASSUME NEW k \in Fds, q.sock[k].st # "closed"
      PROVE  /\ q.events[k].data \in C /\ q.conn[q.events[k].data].fd = k
             /\ R \in q.events[k].mask
  <2>1. /\ s.events[k].data \in C /\ s.conn[s.events[k].data].fd = k
        /\ R \in s.events[k].mask
    BY <1>2 DEF Owned, Attached
  <2> QED BY <2>1 DEF Attached
<1> QED BY <1>1, <1>2 DEF Owned

(* Of a state nothing but what the loop watches has changed.               *)
Rewired(s, q) ==
  q.timers = s.timers /\ q.sock = s.sock /\ q.lost = s.lost /\ q.conn = s.conn

Created(s, fd, mask, proc, c, q) ==
  /\ q.events = [s.events EXCEPT ![fd] =
                    [mask  |-> s.events[fd].mask \cup mask,
                     rproc |-> IF R \in mask THEN proc ELSE s.events[fd].rproc,
                     wproc |-> IF W \in mask THEN proc ELSE s.events[fd].wproc,
                     data  |-> c]]
  /\ q.polled = [s.polled EXCEPT ![fd] = mask \cup s.events[fd].mask]
  /\ q.maxfd = (IF fd > s.maxfd THEN fd ELSE s.maxfd)
  /\ q.timers = s.timers /\ q.sock = s.sock /\ q.lost = s.lost /\ q.conn = s.conn
  /\ Shape(q)

LEMMA CreateIs ==
  ASSUME NEW s \in StateType, Watched(s), NEW fd \in Fds, s.sock[fd].st # "closed",
         NEW mask, NEW proc, NEW c,
         NEW q, q = aeCreateFileEvent(s, fd, mask, proc, c)
  PROVE  Created(s, fd, mask, proc, c, q)
<1>1. ~AddFails(s, fd)
  BY DEF AddFails, Watched
<1>2. q = [aeApiAddEvent(s, fd, mask) EXCEPT
              !.events[fd] = [mask  |-> s.events[fd].mask \cup mask,
                              rproc |-> IF R \in mask THEN proc ELSE s.events[fd].rproc,
                              wproc |-> IF W \in mask THEN proc ELSE s.events[fd].wproc,
                              data  |-> c],
              !.maxfd = IF fd > @ THEN fd ELSE @]
  BY <1>1 DEF aeCreateFileEvent
<1> QED BY <1>2 DEF aeApiAddEvent, StateType, Shape, Created

LEMMA CreateSane ==
  ASSUME NEW m, NEW C, C \subseteq Conns, NEW s, Sane(m, C, s),
         NEW c \in C, NEW mask \in SUBSET {R, W}, NEW proc,
         R \in mask => proc \in ReadProcs, W \in mask => proc \in WriteProcs,
         NEW q, q = aeCreateFileEvent(s, s.conn[c].fd, mask, proc, c)
  PROVE  Sane(m, C, q) /\ Rewired(s, q)
<1> DEFINE fd == s.conn[c].fd
           e == [mask  |-> s.events[fd].mask \cup mask,
                 rproc |-> IF R \in mask THEN proc ELSE s.events[fd].rproc,
                 wproc |-> IF W \in mask THEN proc ELSE s.events[fd].wproc,
                 data  |-> c]
<1>1. /\ s \in StateType /\ fd \in Fds /\ s.sock[fd].st # "closed" /\ c \in Conns
      /\ Watched(s)
  BY DEF Sane, Owned
<1>2. /\ q.events = [s.events EXCEPT ![fd] = e]
      /\ q.polled = [s.polled EXCEPT ![fd] = mask \cup s.events[fd].mask]
      /\ q.maxfd = (IF fd > s.maxfd THEN fd ELSE s.maxfd)
      /\ q.timers = s.timers /\ q.sock = s.sock /\ q.lost = s.lost /\ q.conn = s.conn
      /\ Shape(q)
  <2>1. Created(s, fd, mask, proc, c, q)
    <3>1. q = aeCreateFileEvent(s, fd, mask, proc, c)
      OBVIOUS
    <3> HIDE DEF fd
    <3> QED BY <1>1, <3>1, CreateIs
  <2> QED BY <2>1 DEF Created
<1>3. /\ s.events[fd] \in EventType /\ s.events[fd].mask \in SUBSET {R, W}
      /\ s.events[fd].rproc \in ReadProcs \cup {None}
      /\ s.events[fd].wproc \in WriteProcs \cup {None}
      /\ s.events \in [Fds -> EventType] /\ s.polled \in [Fds -> SUBSET {R, W}]
      /\ s.maxfd \in Int /\ fd \in Nat
  BY <1>1, FdsAre DEF StateType, EventType
<1>4. e \in EventType
  <2>1. /\ e.mask \in SUBSET {R, W} /\ e.rproc \in ReadProcs \cup {None}
        /\ e.wproc \in WriteProcs \cup {None} /\ e.data \in Conns \cup {None}
    BY <1>1, <1>3
  <2> QED BY <2>1 DEF EventType
<1>5. q \in StateType
  <2>1. q.events \in [Fds -> EventType]
    <3>1. fd \in Fds /\ s.events \in [Fds -> EventType] /\ q.events = [s.events EXCEPT ![fd] = e]
      BY <1>1, <1>2, <1>3
    <3> HIDE DEF e, fd
    <3> QED BY <1>4, <3>1, ReplacedIn
  <2>2. q.polled \in [Fds -> SUBSET {R, W}]
    <3> DEFINE v == mask \cup s.events[fd].mask
    <3>1. v \in SUBSET {R, W}
      BY <1>3
    <3>2. fd \in Fds /\ s.polled \in [Fds -> SUBSET {R, W}] /\ q.polled = [s.polled EXCEPT ![fd] = v]
      BY <1>1, <1>2, <1>3
    <3> HIDE DEF v, fd
    <3> QED BY <3>1, <3>2, ReplacedIn
  <2>3. q.maxfd \in Int
    <3>1. q.maxfd = fd \/ q.maxfd = s.maxfd
      BY <1>2
    <3> QED BY <1>3, <3>1
  <2>4. /\ q.timers \in Seq(TimerType) /\ q.sock \in [Fds -> SockType]
        /\ q.lost \in SUBSET Conns /\ q.conn \in [Conns -> ConnType]
    BY <1>1, <1>2 DEF StateType
  <2> QED BY <1>2, <2>1, <2>2, <2>3, <2>4, ShapeTyped
<1>6. /\ \A k \in Fds : k # fd => q.events[k] = s.events[k] /\ q.polled[k] = s.polled[k]
      /\ q.events[fd] = e /\ q.polled[fd] = s.events[fd].mask \cup mask
  <2> HIDE DEF e
  <2>1. q.events = [s.events EXCEPT ![fd] = e] /\ s.events \in [Fds -> EventType]
    BY <1>2, <1>3 DEF e
  <2>2. q.polled = [s.polled EXCEPT ![fd] = s.events[fd].mask \cup mask]
    BY <1>2
  <2>3. s.polled \in [Fds -> SUBSET {R, W}] /\ fd \in Fds
    BY <1>1, <1>3
  <2> QED BY <2>1, <2>2, <2>3
<1>6a. e.mask = s.events[fd].mask \cup mask /\ e.data = c
      /\ e.rproc = (IF R \in mask THEN proc ELSE s.events[fd].rproc)
      /\ e.wproc = (IF W \in mask THEN proc ELSE s.events[fd].wproc)
  OBVIOUS
<1> HIDE DEF e
<1>7. Watched(q)
  <2>1. Watched(s)
    BY <1>1
  <2> SUFFICES ASSUME NEW k \in Fds
               PROVE  q.polled[k] = q.events[k].mask
                      /\ (q.events[k].mask # {} => q.sock[k].st # "closed")
    BY DEF Watched
  <2> HIDE DEF fd
  <2>2. CASE k = fd
    <3>1. q.polled[fd] = q.events[fd].mask
      BY <1>6, <1>6a
    <3>2. q.sock[fd].st # "closed"
      BY <1>1, <1>2
    <3> QED BY <2>2, <3>1, <3>2
  <2>3. CASE k # fd
    <3>1. q.events[k] = s.events[k] /\ q.polled[k] = s.polled[k]
      BY <1>6, <2>3
    <3>2. q.sock = s.sock
      BY <1>2
    <3> QED BY <2>1, <3>1, <3>2 DEF Watched
  <2> QED BY <2>2, <2>3
<1>8. Topped(q)
  <2>0. IsTop(s.maxfd, Watching(s)) /\ Watching(s) \subseteq Fds
    BY DEF Sane, Topped, Watching
  <2>1. Watching(q) = Watching(s) \cup (IF s.events[fd].mask \cup mask = {} THEN {} ELSE {fd})
    BY <1>1, <1>6, <1>6a DEF Watching
  <2>2. s.events[fd].mask # {}
    BY <1>1 DEF Sane, Owned
  <2>3. Watching(q) = Watching(s) /\ fd \in Watching(s)
    BY <2>1, <2>2, <1>1 DEF Watching
  <2>4. fd <= s.maxfd
    BY <2>0, <2>3 DEF IsTop
  <2>5. q.maxfd = s.maxfd
    <3>1. /\ q.maxfd = (IF fd > s.maxfd THEN fd ELSE s.maxfd)
          /\ s.maxfd \in Int /\ fd \in Nat
      BY <1>2, <1>3
    <3> HIDE DEF fd
    <3> QED BY <2>4, <3>1
  <2> QED BY <2>0, <2>3, <2>5 DEF Topped
<1>9. Owned(C, q)
  <2>1. Owned(C, s)
    BY DEF Sane
  <2>2. s.events[fd].data = c /\ R \in s.events[fd].mask
    BY <1>1, <2>1 DEF Owned
  <2>3. \A k \in Fds : q.events[k].data = s.events[k].data
    BY <1>6, <1>6a, <2>2
  <2>4. \A k \in Fds : R \in s.events[k].mask => R \in q.events[k].mask
    BY <1>6, <1>6a
  <2>5. q.sock = s.sock /\ q.conn = s.conn
    BY <1>2
  <2>6. Attached(C, s, q)
    BY <2>3, <2>4, <2>5 DEF Attached
  <2> QED BY <2>1, <2>6, OwnedKept
<1>10. Silent(q)
  BY <1>2 DEF Sane, Silent
<1>11. Callable(q)
  <2>1. proc # None \/ mask = {}
    BY LoopAssumption DEF Sane, ReadProcs, WriteProcs
  <2>2. Callable(s)
    BY DEF Sane
  <2> QED BY <1>6, <1>6a, <2>1, <2>2 DEF Callable
<1>12. Delays(m, q)
  BY <1>2 DEF Sane, Delays
<1> QED BY <1>2, <1>5, <1>7, <1>8, <1>9, <1>10, <1>11, <1>12 DEF Sane, Rewired

LEMMA TopWithout ==
  ASSUME NEW s, Topped(s), NEW fd \in Fds
  PROVE  IsTop(MaxfdWithout(s, fd), Watching(s) \ {fd})
<1>1. IsTop(s.maxfd, Watching(s)) /\ Watching(s) \subseteq Fds
  BY DEF Topped, Watching
<1>2. CASE fd # s.maxfd
  BY <1>1, <1>2 DEF IsTop, MaxfdWithout
<1>3. CASE fd = s.maxfd
  <2> DEFINE S == {f \in Fds \ {fd} : f < fd /\ s.events[f].mask # {}}
  <2>1. Fds \subseteq Nat
    BY FdsAre
  <2>2. \A y \in Watching(s) : y <= fd
    BY <1>1, <1>3 DEF IsTop
  <2>3. S = Watching(s) \ {fd}
    <3>1. \A y \in Watching(s) \ {fd} : y < fd
      <4> SUFFICES ASSUME NEW y \in Watching(s), y # fd PROVE y < fd
        OBVIOUS
      <4>1. y \in Nat /\ fd \in Nat /\ y <= fd
        BY <1>1, <2>1, <2>2
      <4> QED BY <4>1
    <3>2. \A y : y \in Watching(s) <=> y \in Fds /\ s.events[y].mask # {}
      BY DEF Watching
    <3>3. \A y : y \in S <=> y \in Fds \ {fd} /\ y < fd /\ s.events[y].mask # {}
      OBVIOUS
    <3> HIDE DEF S
    <3> QED BY <3>1, <3>2, <3>3
  <2>4. MaxfdWithout(s, fd) = Max({-1} \cup S)
    BY <1>3 DEF MaxfdWithout
  <2>5. S \subseteq Fds
    OBVIOUS
  <2> HIDE DEF S
  <2>6. IsTop(Max({-1} \cup S), S)
    BY <2>5, MaxIsTop
  <2> QED BY <2>3, <2>4, <2>6
<1> QED BY <1>2, <1>3

Erased(s, fd, mask, q) ==
  /\ q.events = [s.events EXCEPT ![fd].mask = s.events[fd].mask \ mask]
  /\ q.polled = [s.polled EXCEPT ![fd] = s.events[fd].mask \ mask]
  /\ q.maxfd = (IF s.events[fd].mask \ mask = {} THEN MaxfdWithout(s, fd) ELSE s.maxfd)
  /\ q.timers = s.timers /\ q.sock = s.sock /\ q.lost = s.lost /\ q.conn = s.conn
  /\ Shape(q)

LEMMA DeleteIs ==
  ASSUME NEW s \in StateType, NEW fd \in Fds, s.events[fd].mask # {}, NEW mask,
         NEW q, q = aeDeleteFileEvent(s, fd, mask)
  PROVE  Erased(s, fd, mask, q)
<1> DEFINE a == [s EXCEPT !.polled[fd] = s.events[fd].mask \ mask]
           left == s.events[fd].mask \ mask
           top == MaxfdWithout(a, fd)
<1>1. q = [a EXCEPT !.events[fd].mask = left,
                    !.maxfd = IF left = {} THEN MaxfdWithout(s, fd) ELSE @]
  BY DEF aeDeleteFileEvent, aeApiDelEvent
<1> QED BY <1>1 DEF StateType, Shape, Erased

(* Deleting an event leaves a state with its conditions on the loop alone. *)
Looped(s) == s \in StateType /\ Watched(s) /\ Topped(s) /\ Silent(s) /\ Callable(s)

Deleted(s, fd, mask, q) ==
  /\ Looped(q)
  /\ \A k \in Fds : /\ k # fd => q.events[k] = s.events[k]
                    /\ q.events[k].data = s.events[k].data
  /\ q.events[fd].mask = s.events[fd].mask \ mask
  /\ q.timers = s.timers /\ q.sock = s.sock /\ q.lost = s.lost /\ q.conn = s.conn

LEMMA DeleteLooped ==
  ASSUME NEW s, Looped(s), NEW fd \in Fds, NEW mask \in SUBSET {R, W},
         NEW q, q = aeDeleteFileEvent(s, fd, mask)
  PROVE  Deleted(s, fd, mask, q)
<1>1. CASE s.events[fd].mask = {}
  <2>1. q = s
    BY <1>1 DEF aeDeleteFileEvent
  <2> QED BY <1>1, <2>1 DEF Deleted
<1>2. CASE s.events[fd].mask # {}
  <2> DEFINE left == s.events[fd].mask \ mask
  <2>1. s \in StateType /\ Watched(s) /\ Topped(s) /\ Silent(s) /\ Callable(s)
    BY DEF Looped
  <2>2. /\ q.events = [s.events EXCEPT ![fd].mask = left]
        /\ q.polled = [s.polled EXCEPT ![fd] = left]
        /\ q.maxfd = (IF left = {} THEN MaxfdWithout(s, fd) ELSE s.maxfd)
        /\ q.timers = s.timers /\ q.sock = s.sock /\ q.lost = s.lost /\ q.conn = s.conn
        /\ Shape(q)
    <3>1. Erased(s, fd, mask, q)
      BY <1>2, <2>1, DeleteIs
    <3> QED BY <3>1 DEF Erased
  <2>3. /\ s.events \in [Fds -> EventType] /\ s.polled \in [Fds -> SUBSET {R, W}]
        /\ s.events[fd] \in EventType /\ s.events[fd].mask \in SUBSET {R, W}
        /\ s.maxfd \in Int /\ left \in SUBSET {R, W}
    BY <2>1 DEF StateType, EventType
  <2>4. /\ \A k \in Fds : k # fd => q.events[k] = s.events[k] /\ q.polled[k] = s.polled[k]
        /\ q.events[fd] = [s.events[fd] EXCEPT !.mask = left] /\ q.polled[fd] = left
    BY <2>2, <2>3
  <2>5. /\ q.events[fd].mask = left /\ q.events[fd].data = s.events[fd].data
        /\ q.events[fd].rproc = s.events[fd].rproc /\ q.events[fd].wproc = s.events[fd].wproc
        /\ q.events[fd] \in EventType
    BY <2>3, <2>4 DEF EventType
  <2> HIDE DEF left
  <2>6. Topped(q)
    <3>1. CASE left = {}
      <4>1. Watching(q) = Watching(s) \ {fd}
        BY <2>4, <2>5, <3>1 DEF Watching
      <4>2. q.maxfd = MaxfdWithout(s, fd)
        BY <2>2, <3>1
      <4>3. IsTop(MaxfdWithout(s, fd), Watching(s) \ {fd})
        BY <2>1, TopWithout
      <4> QED BY <4>1, <4>2, <4>3 DEF Topped
    <3>2. CASE left # {}
      <4>1. Watching(q) = Watching(s)
        BY <1>2, <2>4, <2>5, <3>2 DEF Watching
      <4> QED BY <2>1, <2>2, <3>2, <4>1 DEF Topped
    <3> QED BY <3>1, <3>2
  <2>7. q.maxfd \in Int
    <3>1. Watching(q) \subseteq Nat
      BY FdsAre DEF Watching
    <3> QED BY <2>6, <3>1 DEF Topped, IsTop
  <2>8. q \in StateType
    <3>1. q.events \in [Fds -> EventType]
      BY <2>2, <2>3, <2>5
    <3>2. q.polled \in [Fds -> SUBSET {R, W}]
      BY <2>2, <2>3
    <3>3. /\ q.timers \in Seq(TimerType) /\ q.sock \in [Fds -> SockType]
          /\ q.lost \in SUBSET Conns /\ q.conn \in [Conns -> ConnType]
      BY <2>1, <2>2 DEF StateType
    <3> QED BY <2>2, <2>7, <3>1, <3>2, <3>3, ShapeTyped
  <2>9. Watched(q)
    <3> SUFFICES ASSUME NEW k \in Fds
                 PROVE  q.polled[k] = q.events[k].mask
                        /\ (q.events[k].mask # {} => q.sock[k].st # "closed")
      BY DEF Watched
    <3>1. CASE k = fd
      BY <1>2, <2>1, <2>2, <2>4, <2>5, <3>1 DEF Watched
    <3>2. CASE k # fd
      BY <2>1, <2>2, <2>4, <3>2 DEF Watched
    <3> QED BY <3>1, <3>2
  <2>10. Silent(q)
    BY <2>1, <2>2 DEF Silent
  <2>11. Callable(q)
    <3> SUFFICES ASSUME NEW k \in Fds
                 PROVE  /\ R \in q.events[k].mask => q.events[k].rproc # None
                        /\ W \in q.events[k].mask => q.events[k].wproc # None
      BY DEF Callable
    <3>1. CASE k = fd
      <4>1. R \in left => R \in s.events[fd].mask
        BY DEF left
      <4>2. W \in left => W \in s.events[fd].mask
        BY DEF left
      <4> QED BY <2>1, <2>5, <3>1, <4>1, <4>2 DEF Callable
    <3>2. CASE k # fd
      BY <2>1, <2>4, <3>2 DEF Callable
    <3> QED BY <3>1, <3>2
  <2>12. Looped(q)
    BY <2>1, <2>6, <2>8, <2>9, <2>10, <2>11 DEF Looped
  <2>13. q.events[fd].mask = s.events[fd].mask \ mask
    BY <2>5 DEF left
  <2> QED BY <2>2, <2>4, <2>5, <2>12, <2>13 DEF Deleted
<1> QED BY <1>1, <1>2

LEMMA WriteDeleted ==
  ASSUME NEW m, NEW C, C \subseteq Conns, NEW s, Sane(m, C, s), NEW c \in C,
         NEW q, q = aeDeleteFileEvent(s, s.conn[c].fd, {W})
  PROVE  Sane(m, C, q) /\ Rewired(s, q)
<1> DEFINE fd == s.conn[c].fd
<1>1. fd \in Fds /\ Looped(s) /\ Owned(C, s) /\ Delays(m, s)
  BY DEF Sane, Owned, Looped
<1>2. /\ Looped(q)
      /\ \A k \in Fds : /\ k # fd => q.events[k] = s.events[k]
                        /\ q.events[k].data = s.events[k].data
      /\ q.events[fd].mask = s.events[fd].mask \ {W}
      /\ q.timers = s.timers /\ q.sock = s.sock /\ q.lost = s.lost /\ q.conn = s.conn
  <2>1. {W} \in SUBSET {R, W} /\ q = aeDeleteFileEvent(s, fd, {W})
    OBVIOUS
  <2> HIDE DEF fd
  <2>2. Deleted(s, fd, {W}, q)
    BY <1>1, <2>1, DeleteLooped
  <2> QED BY <2>2 DEF Deleted
<1> HIDE DEF fd
<1>3. \A k \in Fds : R \in s.events[k].mask => R \in q.events[k].mask
  BY <1>2 DEF R, W
<1>4. Owned(C, q)
  <2>1. \A k \in Fds : q.events[k].data = s.events[k].data
    BY <1>2
  <2>2. \A d \in C : q.conn[d].fd = s.conn[d].fd
    BY <1>2
  <2>3. \A k \in Fds : q.sock[k].st = "closed" <=> s.sock[k].st = "closed"
    BY <1>2
  <2>4. Attached(C, s, q)
    BY <1>3, <2>1, <2>2, <2>3 DEF Attached
  <2> QED BY <1>1, <2>4, OwnedKept
<1>5. Delays(m, q)
  <2>1. q.timers = s.timers /\ q.conn = s.conn
    BY <1>2
  <2> QED BY <1>1, <2>1 DEF Delays
<1> QED BY <1>2, <1>4, <1>5 DEF Sane, Looped, Rewired
-----------------------------------------------------------------------------
(* The socket of a connection is closed, if it is not closed already.      *)
Shut(s, c) == Close(aeDeleteFileEvent(s, s.conn[c].fd, {R, W}), s.conn[c].fd)
Emptied(s, c, q) ==
  /\ q.sock = [s.sock EXCEPT ![s.conn[c].fd] = Closed]
  /\ q.events[s.conn[c].fd].mask = {}
  /\ \A k \in Fds : k # s.conn[c].fd => q.events[k] = s.events[k]
  /\ q.timers = s.timers /\ q.lost = s.lost /\ q.conn = s.conn

LEMMA CloseSane ==
  ASSUME NEW m, NEW C, C \subseteq Conns, NEW s, Sane(m, C, s), NEW c \in Conns,
         s.conn[c].fd \in Fds, c \in C \/ s.sock[s.conn[c].fd].st = "closed",
         NEW q, q = Shut(s, c)
  PROVE  Sane(m, C \ {c}, q) /\ Emptied(s, c, q)
<1> DEFINE fd == s.conn[c].fd
           d == aeDeleteFileEvent(s, fd, {R, W})
<1>1. /\ fd \in Fds /\ Looped(s) /\ Owned(C, s) /\ Delays(m, s)
      /\ c \in C \/ s.sock[fd].st = "closed"
  BY DEF Sane, Looped
<1>2. /\ Looped(d)
      /\ \A k \in Fds : /\ k # fd => d.events[k] = s.events[k]
                        /\ d.events[k].data = s.events[k].data
      /\ d.events[fd].mask = s.events[fd].mask \ {R, W}
      /\ d.timers = s.timers /\ d.sock = s.sock /\ d.lost = s.lost /\ d.conn = s.conn
  <2>1. {R, W} \in SUBSET {R, W} /\ d = aeDeleteFileEvent(s, fd, {R, W})
    OBVIOUS
  <2> HIDE DEF fd, d
  <2>2. Deleted(s, fd, {R, W}, d)
    BY <1>1, <2>1, DeleteLooped
  <2> QED BY <2>2 DEF Deleted
<1>3. /\ d \in StateType /\ Watched(d) /\ Topped(d) /\ Silent(d) /\ Callable(d)
      /\ d.sock \in [Fds -> SockType] /\ d.polled \in [Fds -> SUBSET {R, W}]
      /\ s \in StateType /\ s.events[fd].mask \in SUBSET {R, W}
  <2>1. d \in StateType /\ s \in StateType
    BY <1>1, <1>2 DEF Looped
  <2>2. s.events[fd].mask \in SUBSET {R, W}
    BY <1>1, <2>1 DEF StateType, EventType
  <2> QED BY <1>2, <2>1, <2>2 DEF Looped, StateType
<1>4. q = [d EXCEPT !.sock[fd] = Closed, !.polled[fd] = {}]
  BY DEF Close, Shut
<1>4a. /\ q.sock = [d.sock EXCEPT ![fd] = Closed] /\ q.polled = [d.polled EXCEPT ![fd] = {}]
      /\ q.events = d.events /\ q.maxfd = d.maxfd /\ q.timers = d.timers
      /\ q.lost = d.lost /\ q.conn = d.conn /\ Shape(q)
  <2> HIDE DEF d, fd
  <2> QED BY <1>3, <1>4 DEF StateType, Shape
<1>5. /\ q.events = d.events /\ q.maxfd = d.maxfd /\ q.timers = s.timers
      /\ q.lost = s.lost /\ q.conn = s.conn
  BY <1>2, <1>4a
<1>6. d.events[fd].mask = {}
  BY <1>2, <1>3
<1>7. Closed \in SockType /\ Closed.st = "closed" /\ Closed.rx = <<>>
  BY DEF Closed, SockType
<1> HIDE DEF d
<1> HIDE DEF fd
<1>8. /\ q.sock[fd] = Closed /\ \A k \in Fds : k # fd => q.sock[k] = d.sock[k]
      /\ q.sock \in [Fds -> SockType]
  <2>1. d.sock \in [Fds -> SockType] /\ q.sock = [d.sock EXCEPT ![fd] = Closed]
    BY <1>3, <1>4a
  <2> QED BY <1>1, <1>7, <2>1
<1>8a. /\ q.polled[fd] = {} /\ \A k \in Fds : k # fd => q.polled[k] = d.polled[k]
       /\ q.polled \in [Fds -> SUBSET {R, W}]
  <2>1. d.polled \in [Fds -> SUBSET {R, W}] /\ q.polled = [d.polled EXCEPT ![fd] = {}]
    BY <1>3, <1>4a
  <2>2. {} \in SUBSET {R, W}
    OBVIOUS
  <2> QED BY <1>1, <2>1, <2>2
<1>8b. Watched(d) /\ Topped(d) /\ Silent(d) /\ Callable(d) /\ d.sock = s.sock
  BY <1>2, <1>3
<1>9. q \in StateType
  <2>3. /\ q.events \in [Fds -> EventType] /\ q.maxfd \in Int /\ q.timers \in Seq(TimerType)
        /\ q.lost \in SUBSET Conns /\ q.conn \in [Conns -> ConnType]
    BY <1>3, <1>4a DEF StateType
  <2> QED BY <1>4a, <1>8, <1>8a, <2>3, ShapeTyped
<1>10. Watched(q)
  <2> SUFFICES ASSUME NEW k \in Fds
               PROVE  q.polled[k] = q.events[k].mask
                      /\ (q.events[k].mask # {} => q.sock[k].st # "closed")
    BY DEF Watched
  <2>1. CASE k = fd
    BY <1>5, <1>6, <1>8a, <2>1
  <2>2. CASE k # fd
    <3>1. d.polled[k] = d.events[k].mask /\ (d.events[k].mask # {} => d.sock[k].st # "closed")
      BY <1>8b DEF Watched
    <3> QED BY <1>5, <1>8, <1>8a, <2>2, <3>1
  <2> QED BY <2>1, <2>2
<1>11. Topped(q)
  <2>1. Watching(q) = Watching(d)
    BY <1>5 DEF Watching
  <2> QED BY <1>5, <1>8b, <2>1 DEF Topped
<1>12. Silent(q)
  <2> SUFFICES ASSUME NEW k \in Fds, q.sock[k].st \in {"closed", "connecting"}
               PROVE  q.sock[k].rx = <<>>
    BY DEF Silent
  <2>1. CASE k = fd
    BY <1>7, <1>8, <2>1
  <2>2. CASE k # fd
    BY <1>8, <1>8b, <2>2 DEF Silent
  <2> QED BY <2>1, <2>2
<1>13. Callable(q)
  BY <1>5, <1>8b DEF Callable
<1>14. Owned(C \ {c}, q)
  <2>1. \A k \in Fds : q.sock[k].st # "closed" => k # fd /\ s.sock[k].st # "closed"
    BY <1>7, <1>8, <1>8b
  <2>2. ASSUME NEW k \in Fds, q.sock[k].st # "closed"
        PROVE  /\ q.events[k].data \in C \ {c} /\ q.conn[q.events[k].data].fd = k
               /\ R \in q.events[k].mask
    <3>1. k # fd /\ s.sock[k].st # "closed"
      BY <2>1, <2>2
    <3>2. s.events[k].data \in C /\ s.conn[s.events[k].data].fd = k /\ R \in s.events[k].mask
      BY <1>1, <3>1 DEF Owned
    <3>3. q.events[k] = s.events[k] /\ q.conn = s.conn
      BY <1>2, <1>5, <3>1
    <3>4. s.events[k].data # c
      BY <3>1, <3>2 DEF fd
    <3> QED BY <3>2, <3>3, <3>4
  <2>3. ASSUME NEW x \in C \ {c}
        PROVE  /\ q.conn[x].fd \in Fds /\ q.sock[q.conn[x].fd].st # "closed"
               /\ q.events[q.conn[x].fd].data = x
    <3>1. /\ s.conn[x].fd \in Fds /\ s.sock[s.conn[x].fd].st # "closed"
          /\ s.events[s.conn[x].fd].data = x
      BY <1>1 DEF Owned
    <3>2. c \in C => s.events[fd].data = c
      BY <1>1 DEF Owned, fd
    <3>3. s.conn[x].fd # fd
      BY <1>1, <3>1, <3>2
    <3>4. q.conn = s.conn
      BY <1>2, <1>5
    <3>5. /\ q.sock[s.conn[x].fd] = s.sock[s.conn[x].fd]
          /\ q.events[s.conn[x].fd].data = s.events[s.conn[x].fd].data
      BY <1>2, <1>5, <1>8, <1>8b, <3>1, <3>3
    <3> QED BY <3>1, <3>4, <3>5
  <2> QED BY <2>2, <2>3 DEF Owned
<1>15. Delays(m, q)
  BY <1>1, <1>5 DEF Delays
<1>16. Sane(m, C \ {c}, q)
  BY <1>9, <1>10, <1>11, <1>12, <1>13, <1>14, <1>15 DEF Sane
<1>17. q.sock = [s.sock EXCEPT ![fd] = Closed]
  BY <1>4a, <1>8b
<1>18. q.events[fd].mask = {}
  BY <1>5, <1>6
<1>19. \A k \in Fds : k # fd => q.events[k] = s.events[k]
  BY <1>2, <1>5
<1> QED BY <1>5, <1>16, <1>17, <1>18, <1>19 DEF fd, Emptied

(* A connection without a socket gets one, or connect fails at once.       *)
Fresh(s, c, fd, q) ==
  /\ fd \in Fds /\ s.sock[fd].st = "closed"
  /\ q.sock[fd] = [s.sock[fd] EXCEPT !.st = "connecting"] /\ q.sock[fd].st = "connecting"
  /\ \A k \in Fds : k # fd => q.sock[k] = s.sock[k]
  /\ q.conn[c].fd = fd /\ q.conn[c].ps = s.conn[c].ps
  /\ q.conn[c] = [s.conn[c] EXCEPT !.fd = fd]
  /\ \A d \in Conns : d # c => q.conn[d] = s.conn[d]
  /\ q.lost = s.lost \ {c} /\ q.timers = s.timers
  /\ q.events[fd].mask = {R, W}
  /\ q.events[fd].rproc = "socket_connected" /\ q.events[fd].wproc = "socket_connected"
  /\ \A k \in Fds : k # fd => q.events[k] = s.events[k]

LEMMA FreshSane ==
  ASSUME NEW m, NEW C, C \subseteq Conns, NEW s, Sane(m, C, s), NEW c \in Conns, c \notin C,
         NEW fd \in Fds, s.sock[fd].st = "closed",
         NEW q, q = [aeCreateFileEvent([s EXCEPT !.sock[fd].st = "connecting"],
                                       fd, {R, W}, "socket_connected", c)
                       EXCEPT !.conn[c].fd = fd, !.lost = @ \ {c}]
  PROVE  Sane(m, C \cup {c}, q) /\ Fresh(s, c, fd, q)
<1> DEFINE a == [s EXCEPT !.sock[fd].st = "connecting"]
           b == aeCreateFileEvent(a, fd, {R, W}, "socket_connected", c)
           e == [mask |-> {R, W}, rproc |-> "socket_connected", wproc |-> "socket_connected",
                 data |-> c]
<1>1. /\ s \in StateType /\ Watched(s) /\ Topped(s) /\ Owned(C, s)
      /\ Silent(s) /\ Callable(s) /\ Delays(m, s)
  BY DEF Sane
<1>2. /\ s.sock \in [Fds -> SockType] /\ s.conn \in [Conns -> ConnType]
      /\ s.sock[fd] \in SockType /\ s.conn[c] \in ConnType
      /\ s.events \in [Fds -> EventType] /\ s.polled \in [Fds -> SUBSET {R, W}]
      /\ s.maxfd \in Int /\ s.timers \in Seq(TimerType) /\ s.lost \in SUBSET Conns
      /\ fd \in Nat
  BY <1>1, FdsAre DEF StateType
<1>3. /\ a.sock = [s.sock EXCEPT ![fd].st = "connecting"]
      /\ a.events = s.events /\ a.polled = s.polled /\ a.maxfd = s.maxfd
      /\ a.timers = s.timers /\ a.lost = s.lost /\ a.conn = s.conn /\ Shape(a)
  BY <1>1 DEF StateType, Shape
<1>4. [s.sock[fd] EXCEPT !.st = "connecting"] \in SockType
  BY <1>2 DEF SockType
<1>5. a.sock \in [Fds -> SockType] /\ a.sock[fd].st = "connecting"
      /\ a.sock[fd].rx = s.sock[fd].rx
      /\ a.sock[fd] = [s.sock[fd] EXCEPT !.st = "connecting"]
      /\ \A k \in Fds : k # fd => a.sock[k] = s.sock[k]
  <2> DEFINE v == [s.sock[fd] EXCEPT !.st = "connecting"]
             f == s.sock
             h == a.sock
  <2>1. f \in [Fds -> SockType] /\ h = [f EXCEPT ![fd] = v] /\ v \in SockType
    BY <1>2, <1>3, <1>4
  <2>2. v.st = "connecting" /\ v.rx = f[fd].rx
    BY <1>2 DEF SockType
  <2> HIDE DEF v, f, h
  <2>3. Replaced(f, Fds, fd, v, h)
    BY <2>1, ReplacedIs
  <2>4. h \in [Fds -> SockType]
    BY <2>1, ReplacedIn
  <2>5. h[fd] = v
    BY <2>3 DEF Replaced
  <2> QED BY <2>2, <2>3, <2>4, <2>5 DEF Replaced, f, h, v
<1> HIDE DEF a
<1>6. a \in StateType
  BY <1>2, <1>3, <1>5, ShapeTyped
<1>7. Watched(a) /\ s.events[fd].mask = {} /\ Silent(a)
  BY <1>1, <1>3, <1>5 DEF Watched, Silent
<1>8. /\ b.events = [s.events EXCEPT ![fd] = e]
      /\ b.polled = [s.polled EXCEPT ![fd] = {R, W}]
      /\ b.maxfd = (IF fd > s.maxfd THEN fd ELSE s.maxfd)
      /\ b.timers = s.timers /\ b.sock = a.sock /\ b.lost = s.lost /\ b.conn = s.conn
      /\ Shape(b)
  <2>1. /\ b.events = [a.events EXCEPT ![fd] =
                         [mask  |-> a.events[fd].mask \cup {R, W},
                          rproc |-> IF R \in {R, W} THEN "socket_connected" ELSE a.events[fd].rproc,
                          wproc |-> IF W \in {R, W} THEN "socket_connected" ELSE a.events[fd].wproc,
                          data  |-> c]]
        /\ b.polled = [a.polled EXCEPT ![fd] = {R, W} \cup a.events[fd].mask]
        /\ b.maxfd = (IF fd > a.maxfd THEN fd ELSE a.maxfd)
        /\ b.timers = a.timers /\ b.sock = a.sock /\ b.lost = a.lost /\ b.conn = a.conn
        /\ Shape(b)
    <3>1. a.sock[fd].st # "closed"
      BY <1>5
    <3>2. Created(a, fd, {R, W}, "socket_connected", c, b)
      BY <1>6, <1>7, <3>1, CreateIs
    <3> QED BY <3>2 DEF Created
  <2>2. a.events[fd].mask \cup {R, W} = {R, W} /\ {R, W} \cup a.events[fd].mask = {R, W}
    BY <1>3, <1>7
  <2> QED BY <1>3, <2>1, <2>2
<1>9. q = [b EXCEPT !.conn[c].fd = fd, !.lost = @ \ {c}]
  BY DEF a
<1> HIDE DEF b
<1>10. /\ q.events = [s.events EXCEPT ![fd] = e]
       /\ q.polled = [s.polled EXCEPT ![fd] = {R, W}]
       /\ q.maxfd = (IF fd > s.maxfd THEN fd ELSE s.maxfd)
       /\ q.timers = s.timers /\ q.sock = a.sock /\ q.lost = s.lost \ {c}
       /\ q.conn = [s.conn EXCEPT ![c].fd = fd] /\ Shape(q)
  BY <1>8, <1>9 DEF Shape
<1>10a. /\ q.timers = s.timers /\ q.sock = a.sock /\ q.lost = s.lost \ {c}
        /\ a.sock \in [Fds -> SockType]
  BY <1>5, <1>10
<1>11. e \in EventType /\ e.mask = {R, W} /\ e.data = c
       /\ e.rproc = "socket_connected" /\ e.wproc = "socket_connected"
  BY DEF EventType, ReadProcs, WriteProcs
<1> HIDE DEF e
<1>12. /\ q.events[fd] = e /\ \A k \in Fds : k # fd => q.events[k] = s.events[k]
       /\ q.events \in [Fds -> EventType]
  <2>1. s.events \in [Fds -> EventType] /\ q.events = [s.events EXCEPT ![fd] = e]
    BY <1>2, <1>10
  <2> QED BY <1>11, <2>1
<1>12a. /\ q.polled[fd] = {R, W} /\ \A k \in Fds : k # fd => q.polled[k] = s.polled[k]
        /\ q.polled \in [Fds -> SUBSET {R, W}]
  <2>1. s.polled \in [Fds -> SUBSET {R, W}] /\ q.polled = [s.polled EXCEPT ![fd] = {R, W}]
    BY <1>2, <1>10
  <2>2. {R, W} \in SUBSET {R, W}
    OBVIOUS
  <2> QED BY <2>1, <2>2
<1>13. [s.conn[c] EXCEPT !.fd = fd] \in ConnType /\ [s.conn[c] EXCEPT !.fd = fd].fd = fd
       /\ [s.conn[c] EXCEPT !.fd = fd].delayed = s.conn[c].delayed
       /\ [s.conn[c] EXCEPT !.fd = fd].ps = s.conn[c].ps
  <2>1. s.conn[c] \in ConnType /\ fd \in Int
    BY <1>2
  <2> QED BY <2>1 DEF ConnType
<1>14. /\ q.conn[c].fd = fd /\ q.conn[c].ps = s.conn[c].ps /\ q.conn[c].delayed = s.conn[c].delayed
       /\ q.conn[c] = [s.conn[c] EXCEPT !.fd = fd]
       /\ \A d \in Conns : d # c => q.conn[d] = s.conn[d]
       /\ q.conn \in [Conns -> ConnType]
  <2>1. s.conn \in [Conns -> ConnType] /\ q.conn = [s.conn EXCEPT ![c] = [s.conn[c] EXCEPT !.fd = fd]]
    BY <1>2, <1>10
  <2>2. /\ q.conn[c] = [s.conn[c] EXCEPT !.fd = fd]
        /\ \A d \in Conns : d # c => q.conn[d] = s.conn[d]
        /\ q.conn \in [Conns -> ConnType]
    <3> DEFINE r == [s.conn[c] EXCEPT !.fd = fd]
    <3>1. q.conn = [s.conn EXCEPT ![c] = r] /\ r \in ConnType
      BY <1>13, <2>1
    <3> HIDE DEF r
    <3>2. q.conn[c] = r /\ (\A d \in Conns : d # c => q.conn[d] = s.conn[d])
          /\ q.conn \in [Conns -> ConnType]
      <4> DEFINE f == s.conn
                 h == q.conn
      <4>1. f \in [Conns -> ConnType] /\ h = [f EXCEPT ![c] = r]
        BY <2>1, <3>1
      <4> HIDE DEF f, h
      <4>2. Replaced(f, Conns, c, r, h)
        BY <3>1, <4>1, ReplacedIs
      <4>3. h \in [Conns -> ConnType]
        BY <3>1, <4>1, ReplacedIn
      <4> QED BY <4>2, <4>3 DEF Replaced, f, h
    <3> QED BY <3>2 DEF r
  <2>3. q.conn[c].fd = fd /\ q.conn[c].ps = s.conn[c].ps /\ q.conn[c].delayed = s.conn[c].delayed
    <3>1. s.conn[c] \in ConnType
      BY <2>1
    <3>2. q.conn[c] = [s.conn[c] EXCEPT !.fd = fd]
      BY <2>2
    <3> QED BY <3>1, <3>2 DEF ConnType
  <2> QED BY <2>2, <2>3
<1>15. q \in StateType
  <2>3. q.maxfd \in Int
    <3>1. q.maxfd = fd \/ q.maxfd = s.maxfd
      BY <1>10
    <3> QED BY <1>2, <3>1
  <2>4. q.lost \in SUBSET Conns
    BY <1>2, <1>10a
  <2>5. Shape(q) /\ q.timers \in Seq(TimerType) /\ q.sock \in [Fds -> SockType]
    BY <1>2, <1>10, <1>10a
  <2> QED BY <1>12, <1>12a, <1>14, <2>3, <2>4, <2>5, ShapeTyped
<1>16. Watched(q)
  <2> SUFFICES ASSUME NEW k \in Fds
               PROVE  q.polled[k] = q.events[k].mask
                      /\ (q.events[k].mask # {} => q.sock[k].st # "closed")
    BY DEF Watched
  <2>1. CASE k = fd
    <3>1. q.sock[fd].st = "connecting"
      BY <1>5, <1>10a
    <3> QED BY <1>11, <1>12, <1>12a, <2>1, <3>1
  <2>2. CASE k # fd
    <3>1. s.polled[k] = s.events[k].mask /\ (s.events[k].mask # {} => s.sock[k].st # "closed")
      BY <1>1 DEF Watched
    <3>2. q.sock[k] = s.sock[k]
      BY <1>5, <1>10a, <2>2
    <3> QED BY <1>12, <1>12a, <2>2, <3>1, <3>2
  <2> QED BY <2>1, <2>2
<1>17. Topped(q)
  <2>1. IsTop(s.maxfd, Watching(s)) /\ Watching(s) \subseteq Nat
    BY <1>1, FdsAre DEF Topped, Watching
  <2>2. Watching(q) = Watching(s) \cup {fd}
    BY <1>11, <1>12 DEF Watching
  <2>3. CASE fd > s.maxfd
    <3>1. q.maxfd = fd
      BY <1>10, <2>3
    <3>2. \A y \in Watching(s) : y <= fd
      <4> SUFFICES ASSUME NEW y \in Watching(s) PROVE y <= fd
        OBVIOUS
      <4>1. y \in Nat /\ y <= s.maxfd /\ s.maxfd \in Int /\ fd \in Nat
        BY <1>2, <2>1 DEF IsTop
      <4> QED BY <2>3, <4>1
    <3>3. fd <= fd
      BY <1>2
    <3>4. \A y \in Watching(q) : y <= fd
      BY <2>2, <3>2, <3>3
    <3> QED BY <2>2, <3>1, <3>4 DEF Topped, IsTop
  <2>4. CASE ~(fd > s.maxfd)
    <3>1. q.maxfd = s.maxfd /\ fd <= s.maxfd
      BY <1>2, <1>10, <2>4
    <3> QED BY <2>1, <2>2, <3>1 DEF Topped, IsTop
  <2> QED BY <2>3, <2>4
<1>18. Silent(q)
  BY <1>7, <1>10a DEF Silent
<1>19. Callable(q)
  <2> SUFFICES ASSUME NEW k \in Fds
               PROVE  /\ R \in q.events[k].mask => q.events[k].rproc # None
                      /\ W \in q.events[k].mask => q.events[k].wproc # None
    BY DEF Callable
  <2>1. CASE k = fd
    BY <1>11, <1>12, <2>1, LoopAssumption
  <2>2. CASE k # fd
    BY <1>1, <1>12, <2>2 DEF Callable
  <2> QED BY <2>1, <2>2
<1>20. Owned(C \cup {c}, q)
  <2>1. ASSUME NEW k \in Fds, q.sock[k].st # "closed"
        PROVE  /\ q.events[k].data \in C \cup {c} /\ q.conn[q.events[k].data].fd = k
               /\ R \in q.events[k].mask
    <3>1. CASE k = fd
      BY <1>11, <1>12, <1>14, <3>1
    <3>2. CASE k # fd
      <4>1. s.sock[k].st # "closed"
        BY <1>5, <1>10a, <2>1, <3>2
      <4>2. s.events[k].data \in C /\ s.conn[s.events[k].data].fd = k /\ R \in s.events[k].mask
        BY <1>1, <4>1 DEF Owned
      <4>3. q.events[k] = s.events[k] /\ q.conn[s.events[k].data] = s.conn[s.events[k].data]
        BY <1>12, <1>14, <3>2, <4>2
      <4> QED BY <4>2, <4>3
    <3> QED BY <3>1, <3>2
  <2>2. ASSUME NEW d \in C \cup {c}
        PROVE  /\ q.conn[d].fd \in Fds /\ q.sock[q.conn[d].fd].st # "closed"
               /\ q.events[q.conn[d].fd].data = d
    <3>1. CASE d = c
      <4>1. q.sock[fd].st = "connecting"
        BY <1>5, <1>10a
      <4>2. q.conn[c].fd = fd /\ q.events[fd] = e
        BY <1>12, <1>14
      <4> QED BY <1>11, <3>1, <4>1, <4>2
    <3>2. CASE d # c
      <4>1. /\ s.conn[d].fd \in Fds /\ s.sock[s.conn[d].fd].st # "closed"
            /\ s.events[s.conn[d].fd].data = d
        BY <1>1, <3>2 DEF Owned
      <4>2. s.conn[d].fd # fd /\ q.conn[d] = s.conn[d]
        BY <1>14, <3>2, <4>1
      <4>3. q.sock[s.conn[d].fd] = s.sock[s.conn[d].fd]
        BY <1>5, <1>10a, <4>1, <4>2
      <4>4. q.events[s.conn[d].fd] = s.events[s.conn[d].fd]
        BY <1>12, <4>1, <4>2
      <4> QED BY <4>1, <4>2, <4>3, <4>4
    <3> QED BY <3>1, <3>2
  <2> QED BY <2>1, <2>2 DEF Owned
<1>21. Delays(m, q)
  <2>1. \A d \in Conns : q.conn[d].delayed = s.conn[d].delayed
    BY <1>14
  <2>2. q.timers = s.timers /\ Delays(m, s)
    BY <1>1, <1>10a
  <2> QED BY <2>1, <2>2 DEF Delays
<1>22. Sane(m, C \cup {c}, q)
  BY <1>15, <1>16, <1>17, <1>18, <1>19, <1>20, <1>21 DEF Sane
<1>23. Fresh(s, c, fd, q)
  <2>1. /\ q.sock[fd] = [s.sock[fd] EXCEPT !.st = "connecting"] /\ q.sock[fd].st = "connecting"
        /\ \A k \in Fds : k # fd => q.sock[k] = s.sock[k]
        /\ q.lost = s.lost \ {c} /\ q.timers = s.timers
    BY <1>5, <1>10a
  <2>2. /\ q.events[fd].mask = {R, W}
        /\ q.events[fd].rproc = "socket_connected" /\ q.events[fd].wproc = "socket_connected"
        /\ \A k \in Fds : k # fd => q.events[k] = s.events[k]
    BY <1>11, <1>12
  <2> QED BY <1>14, <2>1, <2>2 DEF Fresh
<1> QED BY <1>22, <1>23

Missed(s, c, q) ==
  /\ mode.fails /\ q.sock = s.sock /\ q.events = s.events /\ q.conn = s.conn
  /\ q.lost = s.lost \cup {c} /\ q.timers = s.timers

LEMMA ConnectFine ==
  ASSUME mode \in ModeType, NEW c \in mode.conns, NEW s, s.lost \subseteq mode.conns,
         Sane(mode, mode.conns \ (s.lost \cup {c}), s),
         NEW q \in connect_socket(s, c)
  PROVE  Fine(mode, q) /\ ((\E fd \in Fds : Fresh(s, c, fd, q)) \/ Missed(s, c, q))
<1> DEFINE C == mode.conns \ (s.lost \cup {c})
<1>1. mode.conns \subseteq Conns /\ c \in Conns /\ C \subseteq Conns /\ c \notin C
  BY DEF ModeType
<1>2. \/ \E fd \in Fds : /\ s.sock[fd].st = "closed"
                         /\ q = [aeCreateFileEvent([s EXCEPT !.sock[fd].st = "connecting"],
                                                   fd, {R, W}, "socket_connected", c)
                                   EXCEPT !.conn[c].fd = fd, !.lost = @ \ {c}]
      \/ mode.fails /\ q = [s EXCEPT !.lost = @ \cup {c}]
  BY DEF connect_socket
<1>3. CASE \E fd \in Fds :
             /\ s.sock[fd].st = "closed"
             /\ q = [aeCreateFileEvent([s EXCEPT !.sock[fd].st = "connecting"],
                                       fd, {R, W}, "socket_connected", c)
                       EXCEPT !.conn[c].fd = fd, !.lost = @ \ {c}]
  <2>1. PICK fd \in Fds :
          /\ s.sock[fd].st = "closed"
          /\ q = [aeCreateFileEvent([s EXCEPT !.sock[fd].st = "connecting"],
                                    fd, {R, W}, "socket_connected", c)
                    EXCEPT !.conn[c].fd = fd, !.lost = @ \ {c}]
    BY <1>3
  <2>2. Sane(mode, C \cup {c}, q) /\ Fresh(s, c, fd, q)
    <3> HIDE DEF C
    <3>1. Sane(mode, C, s)
      BY DEF C
    <3> QED BY <1>1, <2>1, <3>1, FreshSane
  <2>3. q.lost = s.lost \ {c}
    BY <2>2 DEF Fresh
  <2>4. C \cup {c} = mode.conns \ q.lost
    BY <2>3
  <2>5. Fine(mode, q)
    BY <2>2, <2>3, <2>4 DEF Fine
  <2> QED BY <2>2, <2>5
<1>4. CASE mode.fails /\ q = [s EXCEPT !.lost = @ \cup {c}]
  <2>0. s \in StateType
    BY DEF Sane
  <2>1. /\ q.lost = s.lost \cup {c} /\ q.sock = s.sock /\ q.events = s.events
        /\ q.conn = s.conn /\ q.polled = s.polled /\ q.maxfd = s.maxfd /\ q.timers = s.timers
    BY <1>4, <2>0 DEF StateType
  <2>2. q \in StateType
    BY <1>1, <1>4, <2>0 DEF StateType
  <2>3. Sane(mode, C, q)
    BY <2>1, <2>2 DEF Sane, Watched, Topped, Watching, Owned, Silent, Callable, Delays
  <2>4. C = mode.conns \ q.lost
    BY <2>1
  <2>5. Fine(mode, q)
    BY <2>1, <2>3, <2>4 DEF Fine
  <2>6. Missed(s, c, q)
    BY <1>4, <2>1 DEF Missed
  <2> QED BY <2>5, <2>6
<1> QED BY <1>2, <1>3, <1>4
-----------------------------------------------------------------------------
(* In a callback of the connection c, which began in s: c still has its    *)
(* socket, or another one or none; sockets of others are left alone.       *)
Kept(s, c, q) ==
  /\ c \notin q.lost /\ q.conn[c].fd = s.conn[c].fd
  /\ q.sock[s.conn[c].fd].st = s.sock[s.conn[c].fd].st
Gone(s, c, q) ==
  /\ \/ q.events[s.conn[c].fd].mask = {}
     \/ q.events[s.conn[c].fd].rproc = q.events[s.conn[c].fd].wproc
  /\ q.conn[c].fd \in Fds
  /\ q.conn[c].fd = s.conn[c].fd \/ s.sock[q.conn[c].fd].st = "closed"
  /\ IF c \in q.lost THEN q.sock[q.conn[c].fd].st = "closed"
     ELSE q.sock[q.conn[c].fd].rx = <<>>
Apart(s, c, q) ==
  /\ \A fd \in Fds : fd # s.conn[c].fd /\ s.sock[fd].st # "closed" => q.sock[fd] = s.sock[fd]
  /\ mode.fails \/ q.lost \subseteq s.lost
During(s, c, q) == Fine(mode, q) /\ Apart(s, c, q) /\ (Kept(s, c, q) \/ Gone(s, c, q))

(* reconnect_socket, as the close and the connect that it is.              *)
LEMMA ReconnectIs ==
  ASSUME mode \in ModeType, NEW c \in mode.conns, NEW q, Fine(mode, q),
         q.conn[c].fd \in Fds, c \notin q.lost \/ q.sock[q.conn[c].fd].st = "closed",
         NEW r \in reconnect_socket(q, c)
  PROVE  /\ Fine(mode, r)
         /\ \E x : Emptied(q, c, x) /\ ((\E fd \in Fds : Fresh(x, c, fd, r)) \/ Missed(x, c, r))
<1> DEFINE k == q.conn[c].fd
           x == Close(aeDeleteFileEvent(q, k, {R, W}), k)
           C == mode.conns \ q.lost
<1>1. /\ Sane(mode, C, q) /\ q.lost \subseteq mode.conns /\ C \subseteq Conns /\ c \in Conns
      /\ c \in C \/ q.sock[q.conn[c].fd].st = "closed"
  BY DEF Fine, ModeType
<1>2. r \in connect_socket(x, c)
  BY DEF reconnect_socket
<1>3. Sane(mode, C \ {c}, x) /\ Emptied(q, c, x)
  <2>1. x = Shut(q, c)
    BY DEF Shut
  <2> HIDE DEF x, C, k
  <2> QED BY <1>1, <2>1, CloseSane
<1>4. C \ {c} = mode.conns \ (x.lost \cup {c}) /\ x.lost = q.lost
  BY <1>3 DEF Emptied
<1> HIDE DEF x, C
<1>5. Fine(mode, r) /\ ((\E fd \in Fds : Fresh(x, c, fd, r)) \/ Missed(x, c, r))
  BY <1>1, <1>2, <1>3, <1>4, ConnectFine
<1> QED BY <1>3, <1>5

LEMMA ReconnectDuring ==
  ASSUME mode \in ModeType, NEW c \in mode.conns, NEW s, s.conn[c].fd \in Fds,
         NEW q, During(s, c, q), NEW r \in reconnect_socket(q, c)
  PROVE  /\ Fine(mode, r) /\ Apart(s, c, r) /\ Gone(s, c, r)
         /\ r.conn[c].ps = q.conn[c].ps
<1> DEFINE k == q.conn[c].fd
           fd0 == s.conn[c].fd
<1>1. /\ Sane(mode, mode.conns \ q.lost, q) /\ Fine(mode, q)
      /\ Owned(mode.conns \ q.lost, q)
  BY DEF During, Fine, Sane
<1>2. k \in Fds /\ (c \notin q.lost \/ q.sock[k].st = "closed") /\ (k = fd0 \/ s.sock[k].st = "closed")
  <2>1. CASE Kept(s, c, q)
    BY <2>1 DEF Kept
  <2>2. CASE Gone(s, c, q)
    BY <2>2 DEF Gone
  <2> QED BY <2>1, <2>2 DEF During
<1>3. Fine(mode, r)
      /\ \E x : Emptied(q, c, x) /\ ((\E fd \in Fds : Fresh(x, c, fd, r)) \/ Missed(x, c, r))
  BY <1>1, <1>2, ReconnectIs
<1>4. PICK x : Emptied(q, c, x) /\ ((\E fd \in Fds : Fresh(x, c, fd, r)) \/ Missed(x, c, r))
  BY <1>3
<1>5. /\ x.sock = [q.sock EXCEPT ![k] = Closed]
      /\ x.events[k].mask = {} /\ \A j \in Fds : j # k => x.events[j] = q.events[j]
      /\ x.lost = q.lost /\ x.conn = q.conn
  BY <1>4 DEF Emptied
<1>6. /\ x.sock[k].st = "closed" /\ \A j \in Fds : j # k => x.sock[j] = q.sock[j]
  <2>1. q.sock \in [Fds -> SockType]
    BY <1>1 DEF Sane, StateType
  <2>2. x.sock = [q.sock EXCEPT ![k] = Closed]
    BY <1>5
  <2> HIDE DEF k
  <2> QED BY <1>2, <2>1, <2>2 DEF Closed
<1>7. \A j \in Fds : j # fd0 /\ s.sock[j].st # "closed" => x.sock[j] = s.sock[j]
  <2>1. \A j \in Fds : j # fd0 /\ s.sock[j].st # "closed" => q.sock[j] = s.sock[j]
    BY DEF During, Apart
  <2> QED BY <1>2, <1>6, <2>1
<1>8. x.events[fd0].mask = {} \/ x.events[fd0].rproc = x.events[fd0].wproc
  <2>1. CASE k = fd0
    BY <1>5, <2>1
  <2>2. CASE k # fd0
    <3>1. Gone(s, c, q)
      BY <2>2 DEF During, Kept
    <3>2. x.events[fd0] = q.events[fd0]
      BY <1>5, <2>2
    <3> QED BY <3>1, <3>2 DEF Gone
  <2> QED BY <2>1, <2>2
<1>9. mode.fails \/ x.lost \subseteq s.lost
  BY <1>5 DEF During, Apart
<1>10. ASSUME NEW fd \in Fds, Fresh(x, c, fd, r)
       PROVE  Apart(s, c, r) /\ Gone(s, c, r) /\ r.conn[c].ps = q.conn[c].ps
  <2>1. /\ x.sock[fd].st = "closed"
        /\ r.sock[fd].st = "connecting" /\ \A j \in Fds : j # fd => r.sock[j] = x.sock[j]
        /\ r.conn[c].fd = fd /\ r.conn[c].ps = x.conn[c].ps /\ r.lost = x.lost \ {c}
        /\ r.events[fd].rproc = r.events[fd].wproc
        /\ \A j \in Fds : j # fd => r.events[j] = x.events[j]
    BY <1>10 DEF Fresh
  <2>2. fd = fd0 \/ s.sock[fd].st = "closed"
    BY <1>7, <2>1
  <2>3. \A j \in Fds : j # fd0 /\ s.sock[j].st # "closed" => r.sock[j] = s.sock[j]
    BY <1>7, <2>1, <2>2
  <2>4. mode.fails \/ r.lost \subseteq s.lost
    BY <1>9, <2>1
  <2>5. r.sock[fd].rx = <<>>
    BY <1>3, <2>1 DEF Fine, Sane, Silent
  <2>6. r.events[fd0].mask = {} \/ r.events[fd0].rproc = r.events[fd0].wproc
    BY <1>8, <2>1
  <2>7. c \notin r.lost
    BY <2>1
  <2>8. Gone(s, c, r)
    BY <2>1, <2>2, <2>5, <2>6, <2>7 DEF Gone
  <2>9. Apart(s, c, r)
    BY <2>3, <2>4 DEF Apart
  <2> QED BY <1>5, <2>1, <2>8, <2>9
<1>11. ASSUME Missed(x, c, r)
       PROVE  Apart(s, c, r) /\ Gone(s, c, r) /\ r.conn[c].ps = q.conn[c].ps
  <2>1. /\ mode.fails /\ r.sock = x.sock /\ r.events = x.events /\ r.conn = q.conn
        /\ c \in r.lost
    BY <1>5, <1>11 DEF Missed
  <2>2. Gone(s, c, r)
    BY <1>2, <1>6, <1>8, <2>1 DEF Gone
  <2>3. Apart(s, c, r)
    BY <1>7, <2>1 DEF Apart
  <2> QED BY <2>1, <2>2, <2>3
<1> QED BY <1>3, <1>4, <1>10, <1>11
-----------------------------------------------------------------------------
(* What a callback does while its connection keeps its socket.             *)
Steady(c, s, q) ==
  /\ Fine(mode, q) /\ q.lost = s.lost /\ q.conn[c].fd = s.conn[c].fd
  /\ \A fd \in Fds : fd # s.conn[c].fd => q.sock[fd] = s.sock[fd]
  /\ q.sock[s.conn[c].fd].st = s.sock[s.conn[c].fd].st

LEMMA Begin ==
  ASSUME NEW c, NEW s, Fine(mode, s), c \notin s.lost
  PROVE  During(s, c, s) /\ Kept(s, c, s)
BY DEF During, Kept, Apart

LEMMA SteadyKept ==
  ASSUME NEW c, NEW s, NEW q, During(s, c, q), Kept(s, c, q), NEW r, Steady(c, q, r)
  PROVE  During(s, c, r) /\ Kept(s, c, r)
<1>1. Kept(s, c, r)
  BY DEF Kept, Steady
<1>2. Apart(s, c, r)
  <2>1. \A fd \in Fds : fd # s.conn[c].fd => r.sock[fd] = q.sock[fd]
    BY DEF Kept, Steady
  <2>2. r.lost = q.lost
    BY DEF Steady
  <2> QED BY <2>1, <2>2 DEF During, Apart
<1> QED BY <1>1, <1>2 DEF During, Steady

LEMMA SteadySteady ==
  ASSUME NEW c, NEW s, NEW q, Steady(c, s, q), NEW r, Steady(c, q, r)
  PROVE  Steady(c, s, r)
<1>1. \A fd \in Fds : fd # s.conn[c].fd => r.sock[fd] = s.sock[fd]
  BY DEF Steady
<1> QED BY <1>1 DEF Steady

(* The events of the socket.                                               *)
LEMMA CreateSteady ==
  ASSUME mode \in ModeType, NEW s, Fine(mode, s), NEW c \in mode.conns \ s.lost,
         NEW mask \in SUBSET {R, W}, NEW proc,
         R \in mask => proc \in ReadProcs, W \in mask => proc \in WriteProcs,
         NEW q, q = aeCreateFileEvent(s, s.conn[c].fd, mask, proc, c)
  PROVE  Steady(c, s, q) /\ q.conn = s.conn
<1> DEFINE C == mode.conns \ s.lost
<1>1. C \subseteq Conns /\ Sane(mode, C, s) /\ s.lost \subseteq mode.conns
  BY DEF Fine, ModeType
<1>2. Sane(mode, C, q) /\ Rewired(s, q)
  <2>1. c \in C
    OBVIOUS
  <2> HIDE DEF C
  <2> QED BY <1>1, <2>1, CreateSane
<1>3. Fine(mode, q)
  BY <1>1, <1>2 DEF Fine, Rewired
<1> QED BY <1>2, <1>3 DEF Steady, Rewired

LEMMA DeleteSteady ==
  ASSUME mode \in ModeType, NEW s, Fine(mode, s), NEW c \in mode.conns \ s.lost,
         NEW q, q = aeDeleteFileEvent(s, s.conn[c].fd, {W})
  PROVE  Steady(c, s, q) /\ q.conn = s.conn
<1> DEFINE C == mode.conns \ s.lost
<1>1. C \subseteq Conns /\ Sane(mode, C, s) /\ s.lost \subseteq mode.conns
  BY DEF Fine, ModeType
<1>2. Sane(mode, C, q) /\ Rewired(s, q)
  <2>1. c \in C
    OBVIOUS
  <2> HIDE DEF C
  <2> QED BY <1>1, <2>1, WriteDeleted
<1>3. Fine(mode, q)
  BY <1>1, <1>2 DEF Fine, Rewired
<1> QED BY <1>2, <1>3 DEF Steady, Rewired

(* The fields of the connection but fd.                                    *)
LEMMA ConnSteady ==
  ASSUME mode \in ModeType, NEW s, Fine(mode, s), NEW c \in mode.conns,
         NEW v \in ConnType, v.fd = s.conn[c].fd, v.delayed => mode.delay,
         NEW q, q = [s EXCEPT !.conn[c] = v]
  PROVE  Steady(c, s, q) /\ q.conn[c] = v /\ q.sock = s.sock
<1> DEFINE C == mode.conns \ s.lost
<1>1. /\ C \subseteq Conns /\ Sane(mode, C, s) /\ s.lost \subseteq mode.conns
      /\ c \in Conns
  BY DEF Fine, ModeType
<1>2. /\ s \in StateType /\ Watched(s) /\ Topped(s) /\ Owned(C, s)
      /\ Silent(s) /\ Callable(s) /\ Delays(mode, s)
  BY <1>1 DEF Sane
<1>3. s.conn \in [Conns -> ConnType]
  BY <1>2 DEF StateType
<1>4. /\ q.events = s.events /\ q.polled = s.polled /\ q.maxfd = s.maxfd
      /\ q.timers = s.timers /\ q.sock = s.sock /\ q.lost = s.lost
  BY <1>2 DEF StateType
<1>5. q.conn = [s.conn EXCEPT ![c] = v] /\ Shape(q)
  BY <1>2 DEF StateType, Shape
<1>6. /\ q.conn[c] = v /\ \A d \in Conns : d # c => q.conn[d] = s.conn[d]
      /\ q.conn \in [Conns -> ConnType]
  BY <1>1, <1>3, <1>5
<1>7. q \in StateType
  <2>1. /\ q.events \in [Fds -> EventType] /\ q.polled \in [Fds -> SUBSET {R, W}]
        /\ q.maxfd \in Int /\ q.timers \in Seq(TimerType) /\ q.sock \in [Fds -> SockType]
        /\ q.lost \in SUBSET Conns
    BY <1>2, <1>4 DEF StateType
  <2> QED BY <1>5, <1>6, <2>1, ShapeTyped
<1>8. Watched(q) /\ Topped(q) /\ Silent(q) /\ Callable(q)
  <2>1. Watched(q)
    BY <1>2, <1>4 DEF Watched
  <2>2. Topped(q)
    BY <1>2, <1>4 DEF Topped, Watching
  <2>3. Silent(q)
    BY <1>2, <1>4 DEF Silent
  <2>4. Callable(q)
    BY <1>2, <1>4 DEF Callable
  <2> QED BY <2>1, <2>2, <2>3, <2>4
<1>9. Owned(C, q)
  <2>1. \A d \in C : q.conn[d].fd = s.conn[d].fd
    BY <1>1, <1>6
  <2>2. /\ \A k \in Fds : q.sock[k].st = "closed" <=> s.sock[k].st = "closed"
        /\ \A k \in Fds : q.events[k].data = s.events[k].data
        /\ \A k \in Fds : R \in s.events[k].mask => R \in q.events[k].mask
    BY <1>4
  <2>3. Owned(C, s)
    BY <1>2
  <2> HIDE DEF C
  <2>4. Attached(C, s, q)
    BY <2>1, <2>2 DEF Attached
  <2> QED BY <2>3, <2>4, OwnedKept
<1>10. Delays(mode, q)
  <2>1. \A d \in Conns : q.conn[d].delayed => mode.delay
    BY <1>2, <1>6 DEF Delays
  <2> QED BY <1>2, <1>4, <2>1 DEF Delays
<1>11. Fine(mode, q)
  <2>1. Sane(mode, C, q)
    BY <1>7, <1>8, <1>9, <1>10 DEF Sane
  <2> QED BY <1>1, <1>4, <2>1 DEF Fine
<1> QED BY <1>4, <1>6, <1>11 DEF Steady

(* The socket, as the kernel changes it.                                   *)
SockOnly(s, k, v, q) ==
  /\ q.lost = s.lost /\ q.conn = s.conn /\ q.events = s.events /\ q.timers = s.timers
  /\ q.sock[k] = v /\ \A fd \in Fds : fd # k => q.sock[fd] = s.sock[fd]

LEMMA SockSteady ==
  ASSUME mode \in ModeType, NEW s, Fine(mode, s), NEW k \in Fds, NEW v \in SockType,
         v.st = "closed" <=> s.sock[k].st = "closed",
         v.st \in {"closed", "connecting"} => v.rx = <<>>,
         NEW q, q = [s EXCEPT !.sock[k] = v]
  PROVE  Fine(mode, q) /\ SockOnly(s, k, v, q)
<1> DEFINE C == mode.conns \ s.lost
<1>1. C \subseteq Conns /\ Sane(mode, C, s) /\ s.lost \subseteq mode.conns
  BY DEF Fine, ModeType
<1>2. /\ s \in StateType /\ Watched(s) /\ Topped(s) /\ Owned(C, s)
      /\ Silent(s) /\ Callable(s) /\ Delays(mode, s)
  BY <1>1 DEF Sane
<1>3. s.sock \in [Fds -> SockType]
  BY <1>2 DEF StateType
<1>4. /\ q.events = s.events /\ q.polled = s.polled /\ q.maxfd = s.maxfd
      /\ q.timers = s.timers /\ q.conn = s.conn /\ q.lost = s.lost
  BY <1>2 DEF StateType
<1>5. q.sock = [s.sock EXCEPT ![k] = v] /\ Shape(q)
  BY <1>2 DEF StateType, Shape
<1>6. /\ q.sock[k] = v /\ \A fd \in Fds : fd # k => q.sock[fd] = s.sock[fd]
      /\ q.sock \in [Fds -> SockType]
  BY <1>3, <1>5
<1>7. q \in StateType
  <2>1. /\ q.events \in [Fds -> EventType] /\ q.polled \in [Fds -> SUBSET {R, W}]
        /\ q.maxfd \in Int /\ q.timers \in Seq(TimerType) /\ q.conn \in [Conns -> ConnType]
        /\ q.lost \in SUBSET Conns
    BY <1>2, <1>4 DEF StateType
  <2> QED BY <1>5, <1>6, <2>1, ShapeTyped
<1>8. \A fd \in Fds : q.sock[fd].st = "closed" <=> s.sock[fd].st = "closed"
  BY <1>6
<1>9. Watched(q) /\ Topped(q) /\ Silent(q) /\ Callable(q)
  <2>1. Watched(q)
    BY <1>2, <1>4, <1>8 DEF Watched
  <2>2. Topped(q)
    BY <1>2, <1>4 DEF Topped, Watching
  <2>3. Silent(q)
    BY <1>2, <1>6 DEF Silent
  <2>4. Callable(q)
    BY <1>2, <1>4 DEF Callable
  <2> QED BY <2>1, <2>2, <2>3, <2>4
<1>10. Owned(C, q)
  <2>1. \A d \in C : q.conn[d].fd = s.conn[d].fd
    BY <1>4
  <2>2. \A fd \in Fds : q.events[fd].data = s.events[fd].data
    BY <1>4
  <2>3. \A fd \in Fds : R \in s.events[fd].mask => R \in q.events[fd].mask
    BY <1>4
  <2>4. Owned(C, s)
    BY <1>2
  <2> HIDE DEF C
  <2>5. Attached(C, s, q)
    BY <1>8, <2>1, <2>2, <2>3 DEF Attached
  <2> QED BY <2>4, <2>5, OwnedKept
<1>11. Delays(mode, q)
  <2>1. q.timers = s.timers /\ q.conn = s.conn /\ Delays(mode, s)
    BY <1>2, <1>4
  <2> QED BY <2>1 DEF Delays
<1>12. Fine(mode, q)
  <2>1. Sane(mode, C, q)
    BY <1>7, <1>9, <1>10, <1>11 DEF Sane
  <2> QED BY <1>1, <1>4, <2>1 DEF Fine
<1> QED BY <1>4, <1>6, <1>12 DEF SockOnly

(* The timers.                                                             *)
LEMMA TimerFine ==
  ASSUME mode \in ModeType, NEW s, Fine(mode, s), NEW ts \in Seq(TimerType),
         \A i \in DOMAIN ts : ts[i].proc = "delay_request" =>
           mode.delay /\ ts[i].data \in mode.conns,
         NEW q, q = [s EXCEPT !.timers = ts]
  PROVE  /\ Fine(mode, q) /\ q.timers = ts
         /\ q.lost = s.lost /\ q.conn = s.conn /\ q.events = s.events /\ q.sock = s.sock
<1> DEFINE C == mode.conns \ s.lost
<1>1. C \subseteq Conns /\ Sane(mode, C, s) /\ s.lost \subseteq mode.conns
  BY DEF Fine, ModeType
<1>2. /\ s \in StateType /\ Watched(s) /\ Topped(s) /\ Owned(C, s)
      /\ Silent(s) /\ Callable(s) /\ Delays(mode, s)
  BY <1>1 DEF Sane
<1>3. /\ q.events = s.events /\ q.polled = s.polled /\ q.maxfd = s.maxfd
      /\ q.timers = ts /\ q.conn = s.conn /\ q.lost = s.lost /\ q.sock = s.sock
  BY <1>2 DEF StateType
<1>4. q \in StateType
  BY <1>2 DEF StateType
<1>5. Watched(q) /\ Topped(q) /\ Silent(q) /\ Callable(q) /\ Owned(C, q)
  <2>1. Watched(q) /\ Topped(q)
    BY <1>2, <1>3 DEF Watched, Topped, Watching
  <2>2. Silent(q) /\ Callable(q)
    BY <1>2, <1>3 DEF Silent, Callable
  <2> HIDE DEF C
  <2>3. Owned(C, q)
    BY <1>2, <1>3 DEF Owned
  <2> QED BY <2>1, <2>2, <2>3
<1>6. Delays(mode, q)
  BY <1>2, <1>3 DEF Delays
<1>7. Fine(mode, q)
  <2>1. Sane(mode, C, q)
    BY <1>4, <1>5, <1>6 DEF Sane
  <2> QED BY <1>1, <1>3, <2>1 DEF Fine
<1> QED BY <1>3, <1>7
-----------------------------------------------------------------------------
(* The callbacks.                                                          *)
LEMMA FineTypes ==
  ASSUME mode \in ModeType, NEW s, Fine(mode, s), NEW c \in mode.conns
  PROVE  /\ s \in StateType /\ c \in Conns /\ s.conn[c] \in ConnType
         /\ s.conn[c].delayed => mode.delay
         /\ c \notin s.lost => /\ s.conn[c].fd \in Fds /\ s.sock[s.conn[c].fd] \in SockType
                               /\ s.sock[s.conn[c].fd].st # "closed"
                               /\ s.events[s.conn[c].fd].data = c
<1>1. Sane(mode, mode.conns \ s.lost, s) /\ c \in Conns
  BY DEF Fine, ModeType
<1>2. s \in StateType
  BY <1>1 DEF Sane
<1>3. s.conn[c].delayed => mode.delay
  BY <1>1 DEF Sane, Delays
<1>4. c \notin s.lost => /\ s.conn[c].fd \in Fds /\ s.sock[s.conn[c].fd].st # "closed"
                         /\ s.events[s.conn[c].fd].data = c
  BY <1>1 DEF Sane, Owned
<1>5. /\ s.conn \in [Conns -> ConnType] /\ s.sock \in [Fds -> SockType]
  BY <1>2 DEF StateType
<1> QED BY <1>1, <1>2, <1>3, <1>4, <1>5

LEMMA SocketConnected ==
  ASSUME mode \in ModeType, NEW s, Fine(mode, s), NEW c \in mode.conns \ s.lost,
         NEW q \in socket_connected(s, s.conn[c].fd, c)
  PROVE  During(s, c, q)
<1> DEFINE fd == s.conn[c].fd
           v == [s.conn[c] EXCEPT !.ps = "start", !.written = 0]
           a == [s EXCEPT !.conn[c].ps = "start", !.conn[c].written = 0]
           b == aeCreateFileEvent(a, fd, {R}, "socket_readable", c)
<1>1. /\ s \in StateType /\ c \in Conns /\ s.conn[c] \in ConnType
      /\ s.conn[c].delayed => mode.delay
  BY FineTypes
<1>2. v \in ConnType /\ v.fd = fd /\ v.delayed = s.conn[c].delayed
  <2> DEFINE u == [s.conn[c] EXCEPT !.ps = "start"]
  <2>1. u \in ConnType /\ u.fd = fd /\ u.delayed = s.conn[c].delayed
    BY <1>1 DEF ConnType
  <2>2. v = [u EXCEPT !.written = 0]
    OBVIOUS
  <2> HIDE DEF u, v, fd
  <2> QED BY <2>1, <2>2 DEF ConnType
<1>3. a = [s EXCEPT !.conn[c] = v]
  BY <1>1 DEF StateType
<1>4. q = aeCreateFileEvent(b, fd, {W}, "socket_writeable", c)
  BY DEF socket_connected
<1> HIDE DEF v, a, b
<1>5. Steady(c, s, a)
  BY <1>1, <1>2, <1>3, ConnSteady
<1>6. Fine(mode, a) /\ c \in mode.conns \ a.lost /\ a.conn[c].fd = fd
  BY <1>5 DEF Steady
<1>7. Steady(c, a, b)
  <2>1. b = aeCreateFileEvent(a, a.conn[c].fd, {R}, "socket_readable", c)
    BY <1>6 DEF b
  <2>2. {R} \in SUBSET {R, W} /\ W \notin {R} /\ "socket_readable" \in ReadProcs
    BY DEF R, W, ReadProcs
  <2> QED BY <1>6, <2>1, <2>2, CreateSteady
<1>8. Fine(mode, b) /\ c \in mode.conns \ b.lost /\ b.conn[c].fd = fd
  BY <1>6, <1>7 DEF Steady
<1>9. Steady(c, b, q)
  <2>1. q = aeCreateFileEvent(b, b.conn[c].fd, {W}, "socket_writeable", c)
    BY <1>4, <1>8
  <2>2. {W} \in SUBSET {R, W} /\ R \notin {W} /\ "socket_writeable" \in WriteProcs
    BY DEF R, W, WriteProcs
  <2> QED BY <1>8, <2>1, <2>2, CreateSteady
<1>10. Steady(c, s, q)
  BY <1>5, <1>7, <1>9, SteadySteady
<1> QED BY <1>10, Begin, SteadyKept

LEMMA BegunSteady ==
  ASSUME mode \in ModeType, NEW s, Fine(mode, s), NEW c \in mode.conns \ s.lost
  PROVE  Steady(c, s, Begun(s, c)) /\ Begun(s, c).conn[c].written = s.conn[c].written
<1> DEFINE v == [s.conn[c] EXCEPT !.pending = mode.pipeline]
           a == [s EXCEPT !.conn[c].pending = mode.pipeline]
<1>1. /\ s \in StateType /\ c \in Conns /\ s.conn[c] \in ConnType
      /\ s.conn[c].delayed => mode.delay
  BY FineTypes
<1>2. Steady(c, s, s)
  BY DEF Steady
<1>3. Steady(c, s, a) /\ a.conn[c] = v
  <2>1. /\ v \in ConnType /\ v.fd = s.conn[c].fd /\ v.delayed = s.conn[c].delayed
    BY <1>1 DEF ConnType, ModeType
  <2>2. a = [s EXCEPT !.conn[c] = v]
    BY <1>1 DEF StateType
  <2> HIDE DEF v, a
  <2> QED BY <1>1, <2>1, <2>2, ConnSteady
<1>4. v.written = s.conn[c].written
  BY <1>1 DEF ConnType
<1>5. Begun(s, c) = IF s.conn[c].written = 0 THEN a ELSE s
  BY DEF Begun
<1> HIDE DEF a, v
<1> QED BY <1>2, <1>3, <1>4, <1>5

LEMMA TakenSteady ==
  ASSUME mode \in ModeType, NEW s, Fine(mode, s), NEW c \in mode.conns \ s.lost,
         NEW n \in Int, s.sock[s.conn[c].fd].st = "up"
  PROVE  Steady(c, s, Taken(s, s.conn[c].fd, n))
<1> DEFINE k == s.conn[c].fd
           o == s.sock[k]
           got == o.got + n
           owe == IF got >= ReqLen THEN o.owe + mode.pipeline ELSE o.owe
           v == [o EXCEPT !.got = got % ReqLen, !.owe = owe]
           q == Taken(s, k, n)
<1>1. s \in StateType /\ k \in Fds /\ o \in SockType
  BY FineTypes
<1>2. got \in Int /\ got % ReqLen \in Int /\ owe \in Int
  <2>1. o.got \in Int /\ o.owe \in Int /\ mode.pipeline \in Int
    BY <1>1 DEF SockType, ModeType
  <2>2. got \in Int /\ owe \in Int
    BY <2>1
  <2>3. ReqLen \in Nat \ {0}
    BY LoopAssumption
  <2> QED BY <2>2, <2>3
<1>3. q = [s EXCEPT !.sock[k] = v]
  BY <1>1 DEF Taken, StateType
<1> HIDE DEF got, owe
<1>4. v \in SockType /\ v.st = o.st /\ o.st = "up"
  BY <1>1, <1>2 DEF SockType
<1> HIDE DEF v, q, o
<1>5. Fine(mode, q) /\ SockOnly(s, k, v, q)
  <2>1. v.st = "closed" <=> s.sock[k].st = "closed"
    BY <1>4 DEF o
  <2>2. v.st \in {"closed", "connecting"} => v.rx = <<>>
    BY <1>4
  <2> HIDE DEF k
  <2> QED BY <1>1, <1>3, <1>4, <2>1, <2>2, SockSteady
<1> QED BY <1>4, <1>5 DEF Steady, SockOnly, q, o

LEMMA WroteSteady ==
  ASSUME mode \in ModeType, NEW s, Fine(mode, s), NEW c \in mode.conns \ s.lost,
         NEW n \in Int, s.sock[s.conn[c].fd].st = "up"
  PROVE  Steady(c, s, Wrote(s, s.conn[c].fd, c, n))
<1> DEFINE fd == s.conn[c].fd
           w == s.conn[c].written + n
           v == [s.conn[c] EXCEPT !.written = w % ReqLen]
           a == [s EXCEPT !.conn[c].written = w % ReqLen]
           q == Taken(a, s.conn[c].fd, n)
<1>1. /\ s \in StateType /\ c \in Conns /\ s.conn[c] \in ConnType
      /\ s.conn[c].delayed => mode.delay
  BY FineTypes
<1>2. Steady(c, s, a)
  <2>0. w % ReqLen \in Int
    <3>1. w \in Int /\ ReqLen \in Nat \ {0}
      BY <1>1, LoopAssumption DEF ConnType
    <3> QED BY <3>1
  <2>1. /\ v \in ConnType /\ v.fd = s.conn[c].fd /\ v.delayed = s.conn[c].delayed
    <3> HIDE DEF w
    <3> QED BY <1>1, <2>0 DEF ConnType
  <2>2. a = [s EXCEPT !.conn[c] = v]
    <3> HIDE DEF w
    <3> QED BY <1>1 DEF StateType
  <2> HIDE DEF v, a
  <2> QED BY <1>1, <2>1, <2>2, ConnSteady
<1> HIDE DEF a, w
<1>3. /\ Fine(mode, a) /\ c \in mode.conns \ a.lost /\ a.conn[c].fd = fd
      /\ a.sock[a.conn[c].fd].st = "up"
  BY <1>2 DEF Steady
<1>4. Steady(c, a, q)
  BY <1>3, TakenSteady
<1>5. Steady(c, s, q)
  BY <1>2, <1>4, SteadySteady
<1> HIDE DEF q
<1>6. Fine(mode, q) /\ c \in mode.conns \ q.lost /\ q.conn[c].fd = fd
  BY <1>5 DEF Steady
<1>7. Steady(c, q, aeDeleteFileEvent(q, fd, {W}))
  BY <1>6, DeleteSteady
<1>8. Steady(c, s, aeDeleteFileEvent(q, fd, {W}))
  BY <1>5, <1>7, SteadySteady
<1>9. Wrote(s, fd, c, n) = IF w = ReqLen THEN aeDeleteFileEvent(q, fd, {W}) ELSE q
  BY DEF Wrote, q, a, w
<1> QED BY <1>5, <1>8, <1>9

LEMMA DelaySteady ==
  ASSUME mode \in ModeType, NEW s, Fine(mode, s), NEW c \in mode.conns \ s.lost, mode.delay
  PROVE  Steady(c, s, Delay(s, s.conn[c].fd, c))
<1> DEFINE a == aeDeleteFileEvent(s, s.conn[c].fd, {W})
           t == [proc |-> "delay_request", data |-> c]
           ts == <<t>> \o a.timers
           q == Delay(s, s.conn[c].fd, c)
<1>1. Steady(c, s, a)
  BY DeleteSteady
<1> HIDE DEF a
<1>2. Fine(mode, a) /\ c \in mode.conns \ a.lost /\ a.conn[c].fd = s.conn[c].fd
  BY <1>1 DEF Steady
<1>3. /\ a.timers \in Seq(TimerType)
      /\ \A i \in DOMAIN a.timers : a.timers[i].proc = "delay_request" =>
           mode.delay /\ a.timers[i].data \in mode.conns
  BY <1>2 DEF Fine, Sane, StateType, Delays
<1>4. t \in TimerType /\ t.data = c
  BY FineTypes DEF TimerType
<1> HIDE DEF t
<1>5. ts \in Seq(TimerType)
  BY <1>3, <1>4
<1>6. \A i \in DOMAIN ts : ts[i].proc = "delay_request" => mode.delay /\ ts[i].data \in mode.conns
  <2> SUFFICES ASSUME NEW i \in DOMAIN ts, ts[i].proc = "delay_request"
               PROVE  ts[i].data \in mode.conns
    OBVIOUS
  <2>1. CASE i = 1
    BY <1>3, <1>4, <2>1
  <2>2. CASE i # 1
    <3>1. i - 1 \in DOMAIN a.timers /\ ts[i] = a.timers[i - 1]
      BY <1>3, <1>4, <2>2
    <3> QED BY <1>3, <3>1
  <2> QED BY <2>1, <2>2
<1>7. q = [a EXCEPT !.timers = ts]
  BY DEF Delay, aeCreateTimeEvent, a, t
<1> HIDE DEF ts, q
<1>8. Fine(mode, q) /\ q.lost = a.lost /\ q.conn = a.conn /\ q.sock = a.sock
  BY <1>2, <1>5, <1>6, <1>7, TimerFine
<1>9. Steady(c, a, q)
  BY <1>8 DEF Steady
<1> QED BY <1>1, <1>9, SteadySteady DEF q

LEMMA SocketWriteable ==
  ASSUME mode \in ModeType, NEW s, Fine(mode, s), NEW c \in mode.conns \ s.lost,
         NEW r \in socket_writeable(s, s.conn[c].fd, c)
  PROVE  During(s, c, r)
<1> DEFINE k == s.conn[c].fd
           q == Begun(s, c)
<1>1. During(s, c, s) /\ Kept(s, c, s) /\ k \in Fds /\ (s.conn[c].delayed => mode.delay)
  BY Begin, FineTypes
<1>2. CASE s.conn[c].delayed
  <2>1. r = Delay(s, s.conn[c].fd, c)
    BY <1>2 DEF socket_writeable
  <2>2. Steady(c, s, r)
    BY <1>1, <1>2, <2>1, DelaySteady
  <2> QED BY <1>1, <2>2, SteadyKept
<1>3. CASE ~s.conn[c].delayed
  <2>1. Steady(c, s, q)
    BY BegunSteady
  <2> HIDE DEF q
  <2>2. During(s, c, q) /\ Kept(s, c, q)
    BY <1>1, <2>1, SteadyKept
  <2>3. /\ Fine(mode, q) /\ c \in mode.conns \ q.lost /\ q.conn[c].fd = k
        /\ q.sock[k].st = s.sock[k].st
    BY <2>1 DEF Steady
  <2>4. \/ r = q
        \/ s.sock[k].st = "up" /\ \E n \in Int : r = Wrote(q, k, c, n)
        \/ r \in reconnect_socket(q, c)
    <3> DEFINE w == s.conn[c].written
    <3>1. CASE s.sock[k].st = "up"
      <4>1. r \in {q} \cup {Wrote(q, k, c, n) : n \in 1 .. ReqLen - w}
                  \cup (IF s.sock[k].fin THEN reconnect_socket(q, c) ELSE {})
        BY <1>1, <1>3, <3>1 DEF socket_writeable, q
      <4>2. 1 .. ReqLen - w \subseteq Int
        OBVIOUS
      <4> QED BY <3>1, <4>1, <4>2
    <3>2. CASE s.sock[k].st = "connecting"
      BY <1>1, <1>3, <3>2 DEF socket_writeable, q
    <3>3. CASE s.sock[k].st \notin {"up", "connecting"}
      BY <1>1, <1>3, <3>3 DEF socket_writeable, q
    <3> QED BY <3>1, <3>2, <3>3
  <2>5. CASE r = q
    BY <2>2, <2>5
  <2>6. CASE s.sock[k].st = "up" /\ \E n \in Int : r = Wrote(q, k, c, n)
    <3>1. PICK n \in Int : r = Wrote(q, k, c, n)
      BY <2>6
    <3>2. Steady(c, q, Wrote(q, q.conn[c].fd, c, n))
      BY <2>3, <2>6, WroteSteady
    <3>3. Steady(c, q, r)
      BY <2>3, <3>1, <3>2
    <3> QED BY <2>2, <3>3, SteadyKept
  <2>7. CASE r \in reconnect_socket(q, c)
    <3>1. Fine(mode, r) /\ Apart(s, c, r) /\ Gone(s, c, r)
      BY <1>1, <2>2, <2>7, ReconnectDuring
    <3> QED BY <3>1 DEF During
  <2> QED BY <2>4, <2>5, <2>6, <2>7
<1> QED BY <1>2, <1>3

(* In socket_readable the parser is dead when the socket is another one.   *)
Reading(s, c, q) == During(s, c, q) /\ (q.conn[c].ps = "dead" \/ Kept(s, c, q))

LEMMA ParserSet ==
  ASSUME mode \in ModeType, NEW s, Fine(mode, s), NEW c \in mode.conns,
         NEW ps \in {"start", "mid", "eof", "dead"},
         NEW q, q = [s EXCEPT !.conn[c].ps = ps]
  PROVE  Steady(c, s, q) /\ q.conn[c].ps = ps
<1> DEFINE v == [s.conn[c] EXCEPT !.ps = ps]
<1>1. /\ s \in StateType /\ c \in Conns /\ s.conn[c] \in ConnType
      /\ s.conn[c].delayed => mode.delay
  BY FineTypes
<1>2. v \in ConnType /\ v.fd = s.conn[c].fd /\ v.delayed = s.conn[c].delayed /\ v.ps = ps
  BY <1>1 DEF ConnType
<1>3. q = [s EXCEPT !.conn[c] = v]
  BY <1>1 DEF StateType
<1> HIDE DEF v
<1>4. Steady(c, s, q)
  BY <1>1, <1>2, <1>3, ConnSteady
<1>5. q.conn[c] = v
  <2>1. s.conn \in [Conns -> ConnType] /\ q.conn = [s.conn EXCEPT ![c] = v]
    BY <1>1, <1>3 DEF StateType
  <2> QED BY <1>1, <2>1
<1> QED BY <1>2, <1>4, <1>5

LEMMA DelayedSet ==
  ASSUME mode \in ModeType, NEW s, Fine(mode, s), NEW c \in mode.conns \ s.lost,
         NEW delayed \in BOOLEAN, delayed => mode.delay,
         NEW q, q = aeCreateFileEvent([s EXCEPT !.conn[c].delayed = delayed],
                                      s.conn[c].fd, {W}, "socket_writeable", c)
  PROVE  Steady(c, s, q)
<1> DEFINE v == [s.conn[c] EXCEPT !.delayed = delayed]
           a == [s EXCEPT !.conn[c].delayed = delayed]
<1>1. /\ s \in StateType /\ c \in Conns /\ s.conn[c] \in ConnType
  BY FineTypes
<1>2. v \in ConnType /\ v.fd = s.conn[c].fd /\ v.delayed = delayed
  BY <1>1 DEF ConnType
<1>3. a = [s EXCEPT !.conn[c] = v]
  BY <1>1 DEF StateType
<1> HIDE DEF v, a
<1>4. Steady(c, s, a)
  BY <1>1, <1>2, <1>3, ConnSteady
<1>5. Fine(mode, a) /\ c \in mode.conns \ a.lost /\ a.conn[c].fd = s.conn[c].fd
  BY <1>4 DEF Steady
<1>6. Steady(c, a, q)
  <2>1. q = aeCreateFileEvent(a, a.conn[c].fd, {W}, "socket_writeable", c)
    BY <1>5 DEF a
  <2>2. {W} \in SUBSET {R, W} /\ R \notin {W} /\ "socket_writeable" \in WriteProcs
    BY DEF R, W, WriteProcs
  <2> QED BY <1>5, <2>1, <2>2, CreateSteady
<1> QED BY <1>4, <1>6, SteadySteady

LEMMA PendingSet ==
  ASSUME mode \in ModeType, NEW s, Fine(mode, s), NEW c \in mode.conns,
         NEW n \in Int, NEW q, q = [s EXCEPT !.conn[c].pending = n]
  PROVE  Steady(c, s, q)
<1> DEFINE v == [s.conn[c] EXCEPT !.pending = n]
<1>1. /\ s \in StateType /\ c \in Conns /\ s.conn[c] \in ConnType
      /\ s.conn[c].delayed => mode.delay
  BY FineTypes
<1>2. v \in ConnType /\ v.fd = s.conn[c].fd /\ v.delayed = s.conn[c].delayed
  BY <1>1 DEF ConnType
<1>3. q = [s EXCEPT !.conn[c] = v]
  BY <1>1 DEF StateType
<1> HIDE DEF v
<1> QED BY <1>1, <1>2, <1>3, ConnSteady

LEMMA ResponseComplete ==
  ASSUME mode \in ModeType, NEW s, NEW c \in mode.conns, s.conn[c].fd \in Fds,
         NEW q, During(s, c, q), Kept(s, c, q), NEW kept \in BOOLEAN,
         NEW r \in response_complete(q, c, kept)
  PROVE  Reading(s, c, r)
<1> DEFINE n == Less(q.conn[c].pending)
           a == [q EXCEPT !.conn[c].pending = Less(@)]
           b == IF a.conn[c].pending = 0 THEN WriteNext(a, c) ELSE a
<1>1. Fine(mode, q) /\ c \in mode.conns \ q.lost
  BY DEF During, Kept
<1>2. q \in StateType /\ c \in Conns /\ q.conn[c] \in ConnType
  BY <1>1, FineTypes
<1>3. Steady(c, q, a)
  <2>1. n \in Int
    BY <1>2 DEF Less, Wrapped, ConnType
  <2>2. a = [q EXCEPT !.conn[c].pending = n]
    BY <1>2 DEF StateType
  <2> HIDE DEF n, a
  <2> QED BY <1>1, <2>1, <2>2, PendingSet
<1>4. r \in IF kept THEN {[b EXCEPT !.conn[c].ps = "start"]}
            ELSE reconnect_socket([b EXCEPT !.conn[c].ps = "dead"], c)
  BY DEF response_complete
<1> HIDE DEF a
<1>5. Fine(mode, a) /\ c \in mode.conns \ a.lost /\ a.conn[c].fd = q.conn[c].fd
  BY <1>1, <1>3 DEF Steady
<1>6. Steady(c, q, b)
  <2>1. Steady(c, a, WriteNext(a, c))
    <3>1. mode.delay \in BOOLEAN
      BY DEF ModeType
    <3> QED BY <1>5, <3>1, DelayedSet DEF WriteNext
  <2>2. Steady(c, q, WriteNext(a, c))
    BY <1>3, <2>1, SteadySteady
  <2> QED BY <1>3, <2>2
<1> HIDE DEF b
<1>7. Fine(mode, b)
  BY <1>6 DEF Steady
<1>8. CASE kept
  <2>1. r = [b EXCEPT !.conn[c].ps = "start"]
    BY <1>4, <1>8
  <2>2. Steady(c, b, r)
    BY <1>7, <2>1, ParserSet
  <2>3. Steady(c, q, r)
    BY <1>6, <2>2, SteadySteady
  <2> QED BY <2>3, SteadyKept DEF Reading
<1>9. CASE ~kept
  <2> DEFINE d == [b EXCEPT !.conn[c].ps = "dead"]
  <2>1. r \in reconnect_socket(d, c)
    BY <1>4, <1>9
  <2>2. Steady(c, b, d) /\ d.conn[c].ps = "dead"
    BY <1>7, ParserSet
  <2> HIDE DEF d
  <2>3. Steady(c, q, d)
    BY <1>6, <2>2, SteadySteady
  <2>4. During(s, c, d)
    BY <2>3, SteadyKept
  <2>5. Fine(mode, r) /\ Apart(s, c, r) /\ Gone(s, c, r) /\ r.conn[c].ps = d.conn[c].ps
    BY <2>1, <2>4, ReconnectDuring
  <2> QED BY <2>2, <2>5 DEF Reading, During
<1> QED BY <1>8, <1>9

LEMMA Parsing ==
  ASSUME mode \in ModeType, NEW s, NEW c \in mode.conns, s.conn[c].fd \in Fds,
         NEW x, Reading(s, c, x.s), DOMAIN x = {"s", "bad"}, NEW u,
         x = [s |-> x.s, bad |-> x.bad],
         NEW y \in Parse(x, c, u)
  PROVE  Reading(s, c, y.s) /\ y = [s |-> y.s, bad |-> y.bad]
<1> DEFINE q == x.s
           Good(S) == {[s |-> z, bad |-> FALSE] : z \in S}
<1>0. During(s, c, q) /\ Fine(mode, q)
  BY DEF Reading, During
<1>1. q.conn[c].ps # "dead" => Kept(s, c, q)
  BY DEF Reading
<1> HIDE DEF q
<1>2. CASE x.bad \/ q.conn[c].ps = "eof"
  <2>1. y = x
    BY <1>2 DEF Parse, q
  <2> QED BY <2>1
<1>3. CASE ~(x.bad \/ q.conn[c].ps = "eof")
  <2>1. \/ q.conn[c].ps = "start" /\ y \in Good({[q EXCEPT !.conn[c].ps = "mid"]})
        \/ q.conn[c].ps = "mid" /\ y \in Good(response_complete(q, c, TRUE))
        \/ q.conn[c].ps = "mid" /\ y \in Good(response_complete(q, c, FALSE))
        \/ q.conn[c].ps = "mid" /\ y \in Good({[q EXCEPT !.conn[c].ps = "eof"]})
        \/ y = [x EXCEPT !.bad = TRUE]
    BY <1>3 DEF Parse, q
  <2>2. ASSUME q.conn[c].ps = "start" \/ q.conn[c].ps = "mid", NEW ps \in {"mid", "eof"},
               y \in Good({[q EXCEPT !.conn[c].ps = ps]})
        PROVE  Reading(s, c, y.s) /\ y = [s |-> y.s, bad |-> y.bad]
    <3>1. y.s = [q EXCEPT !.conn[c].ps = ps] /\ y = [s |-> y.s, bad |-> y.bad]
      BY <2>2
    <3>2. Kept(s, c, q)
      BY <1>1, <2>2
    <3>3. Steady(c, q, y.s)
      BY <1>0, <3>1, ParserSet
    <3> QED BY <1>0, <3>1, <3>2, <3>3, SteadyKept DEF Reading
  <2>3. ASSUME q.conn[c].ps = "mid", NEW kept \in BOOLEAN,
               y \in Good(response_complete(q, c, kept))
        PROVE  Reading(s, c, y.s) /\ y = [s |-> y.s, bad |-> y.bad]
    <3>1. y.s \in response_complete(q, c, kept) /\ y = [s |-> y.s, bad |-> y.bad]
      BY <2>3
    <3>2. Kept(s, c, q)
      BY <1>1, <2>3
    <3>3. Reading(s, c, y.s)
      BY <1>0, <3>1, <3>2, ResponseComplete
    <3> QED BY <3>1, <3>3
  <2>4. CASE y = [x EXCEPT !.bad = TRUE]
    <3>1. y = [s |-> x.s, bad |-> TRUE]
      BY <2>4
    <3> QED BY <3>1
  <2> HIDE DEF Good
  <2> QED BY <2>1, <2>2, <2>3, <2>4
<1> QED BY <1>2, <1>3

(* The states of the parser after each of n units.                         *)
ParseAll(c, u, S) == UNION {Parse(x, c, u) : x \in S}
ParsedAs(Z, c, us, n, h) ==
  h = [i \in 0 .. n |-> IF i = 0 THEN Z ELSE UNION {Parse(x, c, us[i]) : x \in h[i - 1]}]

LEMMA ParsedExists ==
  ASSUME NEW Z, NEW c, NEW us, NEW n \in Nat
  PROVE  \E h : ParsedAs(Z, c, us, n, h)
<1> DEFINE Is(k, h) == h = [i \in 0 .. k |-> IF i = 0 THEN Z ELSE ParseAll(c, us[i], h[i - 1])]
           E == {k \in Nat : \E h : Is(k, h)}
<1>1. 0 \in E
  <2> DEFINE h == [i \in 0 .. 0 |-> Z]
  <2>1. Is(0, h)
    BY DEF Is
  <2> QED BY <2>1
<1>2. ASSUME NEW k \in Nat, k \in E
      PROVE  k + 1 \in E
  <2>1. PICK h : Is(k, h)
    BY <1>2
  <2> DEFINE f == [i \in 0 .. k + 1 |-> IF i = k + 1 THEN ParseAll(c, us[i], h[k]) ELSE h[i]]
  <2>2. \A i \in 0 .. k : f[i] = h[i]
    OBVIOUS
  <2>3. \A i \in 0 .. k + 1 : f[i] = IF i = 0 THEN Z ELSE ParseAll(c, us[i], f[i - 1])
    <3> SUFFICES ASSUME NEW i \in 0 .. k + 1
                 PROVE  f[i] = IF i = 0 THEN Z ELSE ParseAll(c, us[i], f[i - 1])
      OBVIOUS
    <3>1. CASE i = k + 1
      <4>1. f[i] = ParseAll(c, us[i], h[k]) /\ i # 0
        BY <3>1
      <4>2. f[i - 1] = h[k]
        BY <2>2, <3>1
      <4> QED BY <4>1, <4>2
    <3>2. CASE i # k + 1
      <4>1. i \in 0 .. k /\ f[i] = h[i]
        BY <3>2
      <4>2. h[i] = IF i = 0 THEN Z ELSE ParseAll(c, us[i], h[i - 1])
        BY <2>1, <4>1
      <4>3. i # 0 => f[i - 1] = h[i - 1]
        BY <2>2, <4>1
      <4> QED BY <4>1, <4>2, <4>3
    <3> QED BY <3>1, <3>2
  <2>4. f = [i \in 0 .. k + 1 |-> f[i]]
    OBVIOUS
  <2> HIDE DEF f
  <2>5. f = [i \in 0 .. k + 1 |-> IF i = 0 THEN Z ELSE ParseAll(c, us[i], f[i - 1])]
    BY <2>3, <2>4
  <2> QED BY <2>5
<1>3. \E h : Is(n, h)
  <2> HIDE DEF E
  <2>1. Nat \subseteq E
    BY <1>1, <1>2, Inductive
  <2> QED BY <2>1 DEF E
<1>4. \A h : Is(n, h) => ParsedAs(Z, c, us, n, h)
  BY DEF ParsedAs, ParseAll
<1> HIDE DEF Is
<1> QED BY <1>3, <1>4

Parses(Z, c, us, n, P) ==
  P[0] = Z /\ \A i \in 1 .. n : P[i] = ParseAll(c, us[i], P[i - 1])

LEMMA ParsedIs ==
  ASSUME NEW Z, NEW c, NEW us, NEW n \in Nat, NEW P, ParsedAs(Z, c, us, n, P)
  PROVE  Parses(Z, c, us, n, P)
<1>1. P = [i \in 0 .. n |-> IF i = 0 THEN Z ELSE ParseAll(c, us[i], P[i - 1])]
  BY DEF ParsedAs, ParseAll
<1>2. \A i \in 0 .. n : P[i] = IF i = 0 THEN Z ELSE ParseAll(c, us[i], P[i - 1])
  BY <1>1
<1>3. P[0] = Z
  BY <1>2
<1>4. \A i \in 1 .. n : P[i] = ParseAll(c, us[i], P[i - 1])
  BY <1>2
<1> QED BY <1>3, <1>4 DEF Parses

LEMMA MinIs ==
  ASSUME NEW a \in Nat, NEW b \in Nat
  PROVE  Min({a, b}) = IF a <= b THEN a ELSE b
<1> DEFINE m == IF a <= b THEN a ELSE b
<1>1. m \in {a, b} /\ \A y \in {a, b} : m <= y
  OBVIOUS
<1>2. \A z \in {a, b} : (\A y \in {a, b} : z <= y) => z = m
  OBVIOUS
<1> HIDE DEF m
<1>3. Min({a, b}) = m
  BY <1>1, <1>2 DEF Min
<1> QED BY <1>3 DEF m

LEMMA FilledReading ==
  ASSUME mode \in ModeType, NEW s, Fine(mode, s), NEW c \in mode.conns \ s.lost,
         s.sock[s.conn[c].fd].rx # <<>>, NEW y \in Filled(s, c)
  PROVE  Reading(s, c, y.s)
<1> DEFINE k == s.conn[c].fd
           rx == s.sock[k].rx
           n == Min({RecvBuf, Len(rx)})
           q == [s EXCEPT !.sock[k].rx = SubSeq(@, n + 1, Len(@))]
           Z == {[s |-> q, bad |-> FALSE]}
           Right(x) == Reading(s, c, x.s) /\ x = [s |-> x.s, bad |-> x.bad]
<1>1. s \in StateType /\ k \in Fds /\ s.sock[k] \in SockType /\ s.sock[k].st # "closed"
  BY FineTypes
<1>2. rx \in Seq(Bytes) /\ n \in Nat /\ n <= Len(rx)
  <2>1. rx \in Seq(Bytes)
    BY <1>1 DEF SockType
  <2>2. Len(rx) \in Nat /\ RecvBuf \in Nat
    <3>1. RecvBuf \in Nat
      BY LoopAssumption
    <3> HIDE DEF rx
    <3> QED BY <2>1, <3>1
  <2>3. n = IF RecvBuf <= Len(rx) THEN RecvBuf ELSE Len(rx)
    BY <2>2, MinIs
  <2> QED BY <2>1, <2>2, <2>3
<1>3. PICK Parsed : ParsedAs(Z, c, rx, n, Parsed) /\ y \in Parsed[n]
  <2> DEFINE H == CHOOSE h : ParsedAs(Z, c, rx, n, h)
  <2>1. y \in H[n]
    BY DEF Filled, ParsedAs
  <2>2. ParsedAs(Z, c, rx, n, H)
    BY <1>2, ParsedExists
  <2> QED BY <2>1, <2>2
<1> DEFINE A == {i \in Nat : i <= n => \A x \in Parsed[i] : Right(x)}
<1> HIDE DEF n
<1>4. Steady(c, s, q)
  <2> DEFINE left == SubSeq(rx, n + 1, Len(rx))
             v == [s.sock[k] EXCEPT !.rx = left]
  <2>1. left \in Seq(Bytes)
    BY <1>2
  <2>2. q = [s EXCEPT !.sock[k] = v]
    BY <1>1 DEF StateType
  <2> HIDE DEF left
  <2>3. v \in SockType /\ v.st = s.sock[k].st
    BY <1>1, <2>1 DEF SockType
  <2>4. v.st \notin {"closed", "connecting"}
    <3>1. Silent(s)
      BY DEF Fine, Sane
    <3> QED BY <1>1, <2>3, <3>1 DEF Silent
  <2> HIDE DEF v, q
  <2>5. Fine(mode, q) /\ SockOnly(s, k, v, q)
    BY <1>1, <2>2, <2>3, <2>4, SockSteady
  <2> QED BY <2>3, <2>5 DEF Steady, SockOnly
<1>5. During(s, c, q) /\ Kept(s, c, q)
  BY <1>4, Begin, SteadyKept
<1> HIDE DEF q
<1>6. Parsed[0] = Z /\ \A i \in 1 .. n : Parsed[i] = ParseAll(c, rx[i], Parsed[i - 1])
  <2>1. rx \in Seq(Bytes) /\ n \in Nat /\ n <= Len(rx) /\ ParsedAs(Z, c, rx, n, Parsed)
    BY <1>2, <1>3
  <2>2. Parses(Z, c, rx, n, Parsed)
    <3> HIDE DEF rx, Z
    <3> QED BY <2>1, ParsedIs
  <2> QED BY <2>2 DEF Parses
<1>7. 0 \in A
  <2>1. \A x \in Z : x = [s |-> q, bad |-> FALSE]
    OBVIOUS
  <2>2. \A x \in Parsed[0] : x = [s |-> q, bad |-> FALSE]
    <3> HIDE DEF Z
    <3>1. Parsed[0] = Z
      BY <1>6
    <3> QED BY <2>1, <3>1
  <2> HIDE DEF Z
  <2>3. ASSUME NEW x, x = [s |-> q, bad |-> FALSE]
        PROVE  Right(x)
    <3>1. x.s = q /\ x.bad = FALSE
      BY <2>3
    <3> QED BY <1>5, <2>3, <3>1 DEF Reading
  <2> QED BY <2>2, <2>3
<1> HIDE DEF Z
<1>8. ASSUME NEW i \in Nat, i \in A
      PROVE  i + 1 \in A
  <2> SUFFICES ASSUME i + 1 <= n, NEW z \in Parsed[i + 1]
               PROVE  Right(z)
    OBVIOUS
  <2>1. \A x \in Parsed[i] : Right(x)
    BY <1>2, <1>8
  <2>2. Parsed[i + 1] = ParseAll(c, rx[i + 1], Parsed[i])
    <3>1. i + 1 \in 1 .. n /\ (i + 1) - 1 = i
      BY <1>2
    <3> QED BY <1>6, <3>1
  <2>3. PICK x \in Parsed[i] : z \in Parse(x, c, rx[i + 1])
    BY <2>2 DEF ParseAll
  <2>4. Right(x)
    BY <2>1
  <2>5. DOMAIN x = {"s", "bad"}
    BY <2>4
  <2> QED BY <1>1, <2>3, <2>4, <2>5, Parsing
<1>9. n \in A
  <2> HIDE DEF A
  <2>1. Nat \subseteq A
    BY <1>7, <1>8, Inductive
  <2> QED BY <1>2, <2>1
<1>10. Right(y)
  BY <1>2, <1>3, <1>9
<1> QED BY <1>10

LEMMA SocketReadable ==
  ASSUME mode \in ModeType, NEW s, Fine(mode, s), NEW c \in mode.conns \ s.lost,
         NEW r \in socket_readable(s, c)
  PROVE  During(s, c, r)
<1> DEFINE k == s.conn[c].fd
<1>1. During(s, c, s) /\ Kept(s, c, s) /\ k \in Fds
  BY Begin, FineTypes
<1>2. ASSUME NEW q, During(s, c, q), r \in reconnect_socket(q, c)
      PROVE  During(s, c, r)
  <2>1. Fine(mode, r) /\ Apart(s, c, r) /\ Gone(s, c, r)
    BY <1>1, <1>2, ReconnectDuring
  <2> QED BY <2>1 DEF During
<1>3. CASE s.sock[k].rx # <<>>
  <2>1. r \in UNION {IF x.bad THEN reconnect_socket(x.s, c) ELSE {x.s} : x \in Filled(s, c)}
    BY <1>3 DEF socket_readable
  <2>2. PICK x \in Filled(s, c) : r \in IF x.bad THEN reconnect_socket(x.s, c) ELSE {x.s}
    BY <2>1
  <2>3. During(s, c, x.s)
    BY <1>3, FilledReading DEF Reading
  <2> QED BY <1>2, <2>2, <2>3
<1>4. CASE s.sock[k].rx = <<>> /\ s.sock[k].fin
  <2>1. r \in UNION {reconnect_socket(q, c) : q \in AtEnd(s, c)}
    BY <1>4 DEF socket_readable
  <2>2. PICK q \in AtEnd(s, c) : r \in reconnect_socket(q, c)
    BY <2>1
  <2>3. During(s, c, q)
    <3>1. CASE s.conn[c].ps = "eof"
      <4>1. q \in response_complete(s, c, FALSE)
        BY <2>2, <3>1 DEF AtEnd
      <4>2. Reading(s, c, q)
        BY <1>1, <4>1, ResponseComplete
      <4> QED BY <4>2 DEF Reading
    <3>2. CASE s.conn[c].ps # "eof"
      <4>1. q = s
        BY <2>2, <3>2 DEF AtEnd
      <4> QED BY <1>1, <4>1
    <3> QED BY <3>1, <3>2
  <2> QED BY <1>2, <2>2, <2>3
<1>5. CASE s.sock[k].rx = <<>> /\ ~s.sock[k].fin
  <2>1. r \in reconnect_socket(s, c)
    BY <1>5 DEF socket_readable
  <2> QED BY <1>1, <1>2, <2>1
<1> QED BY <1>3, <1>4, <1>5
-----------------------------------------------------------------------------
(* The timers.                                                             *)
Cleared(s) == [s EXCEPT !.timers = <<>>]
Advance(s, D, i, q) == Walk(q, s.timers[i], i \in D)
WalkedAs(s, D, n, h) ==
  h = [i \in 0 .. n |-> IF i = 0 THEN [s EXCEPT !.timers = <<>>]
                        ELSE Walk(h[i - 1], s.timers[i], i \in D)]

LEMMA WalkedExists ==
  ASSUME NEW s, NEW D, NEW n \in Nat
  PROVE  \E h : WalkedAs(s, D, n, h)
<1> DEFINE Is(k, h) == h = [i \in 0 .. k |-> IF i = 0 THEN Cleared(s) ELSE Advance(s, D, i, h[i - 1])]
           E == {k \in Nat : \E h : Is(k, h)}
<1>1. 0 \in E
  <2> DEFINE h == [i \in 0 .. 0 |-> Cleared(s)]
  <2>1. Is(0, h)
    BY DEF Is
  <2> QED BY <2>1
<1>2. ASSUME NEW k \in Nat, k \in E
      PROVE  k + 1 \in E
  <2>1. PICK h : Is(k, h)
    BY <1>2
  <2> DEFINE f == [i \in 0 .. k + 1 |-> IF i = k + 1 THEN Advance(s, D, i, h[k]) ELSE h[i]]
  <2>2. \A i \in 0 .. k : f[i] = h[i]
    OBVIOUS
  <2>3. \A i \in 0 .. k + 1 : f[i] = IF i = 0 THEN Cleared(s) ELSE Advance(s, D, i, f[i - 1])
    <3> SUFFICES ASSUME NEW i \in 0 .. k + 1
                 PROVE  f[i] = IF i = 0 THEN Cleared(s) ELSE Advance(s, D, i, f[i - 1])
      OBVIOUS
    <3>1. CASE i = k + 1
      <4>1. f[i] = Advance(s, D, i, h[k]) /\ i # 0
        BY <3>1
      <4>2. f[i - 1] = h[k]
        BY <2>2, <3>1
      <4> QED BY <4>1, <4>2
    <3>2. CASE i # k + 1
      <4>1. i \in 0 .. k /\ f[i] = h[i]
        BY <3>2
      <4>2. h[i] = IF i = 0 THEN Cleared(s) ELSE Advance(s, D, i, h[i - 1])
        BY <2>1, <4>1
      <4>3. i # 0 => f[i - 1] = h[i - 1]
        BY <2>2, <4>1
      <4> QED BY <4>1, <4>2, <4>3
    <3> QED BY <3>1, <3>2
  <2>4. f = [i \in 0 .. k + 1 |-> f[i]]
    OBVIOUS
  <2> HIDE DEF f
  <2>5. f = [i \in 0 .. k + 1 |-> IF i = 0 THEN Cleared(s) ELSE Advance(s, D, i, f[i - 1])]
    BY <2>3, <2>4
  <2> QED BY <2>5
<1>3. \E h : Is(n, h)
  <2> HIDE DEF E
  <2>1. Nat \subseteq E
    BY <1>1, <1>2, Inductive
  <2> QED BY <2>1 DEF E
<1>4. \A h : Is(n, h) => WalkedAs(s, D, n, h)
  BY DEF WalkedAs, Advance, Cleared
<1> HIDE DEF Is
<1> QED BY <1>3, <1>4

LEMMA WalkedIs ==
  ASSUME NEW s, NEW D, NEW n \in Nat, NEW P, WalkedAs(s, D, n, P)
  PROVE  P[0] = Cleared(s) /\ \A i \in 1 .. n : P[i] = Advance(s, D, i, P[i - 1])
<1>1. P = [i \in 0 .. n |-> IF i = 0 THEN Cleared(s) ELSE Advance(s, D, i, P[i - 1])]
  BY DEF WalkedAs, Advance, Cleared
<1>2. \A i \in 0 .. n : P[i] = IF i = 0 THEN Cleared(s) ELSE Advance(s, D, i, P[i - 1])
  BY <1>1
<1>3. P[0] = Cleared(s)
  BY <1>2
<1>4. \A i \in 1 .. n : P[i] = Advance(s, D, i, P[i - 1])
  BY <1>2
<1> QED BY <1>3, <1>4

LEMMA PutFine ==
  ASSUME mode \in ModeType, NEW s, Fine(mode, s), NEW t \in TimerType,
         t.proc = "delay_request" => mode.delay /\ t.data \in mode.conns
  PROVE  Fine(mode, Put(s, t)) /\ Put(s, t).lost = s.lost
<1> DEFINE ts == Append(s.timers, t)
           q == Put(s, t)
<1>1. /\ s \in StateType /\ s.timers \in Seq(TimerType)
      /\ \A i \in DOMAIN s.timers : s.timers[i].proc = "delay_request" =>
           mode.delay /\ s.timers[i].data \in mode.conns
  BY DEF Fine, Sane, StateType, Delays
<1>2. ts \in Seq(TimerType)
  BY <1>1
<1>3. ASSUME NEW i \in DOMAIN ts, ts[i].proc = "delay_request"
      PROVE  mode.delay /\ ts[i].data \in mode.conns
  <2>1. CASE i = Len(s.timers) + 1
    <3>1. ts[i] = t
      BY <1>1, <2>1
    <3> QED BY <1>3, <3>1
  <2>2. CASE i # Len(s.timers) + 1
    <3>1. i \in DOMAIN s.timers /\ ts[i] = s.timers[i]
      BY <1>1, <2>2
    <3> QED BY <1>1, <1>3, <3>1
  <2> QED BY <2>1, <2>2
<1>4. q = [s EXCEPT !.timers = ts]
  BY DEF Put
<1> HIDE DEF ts, q
<1>5. Fine(mode, q)
  BY <1>2, <1>3, <1>4, TimerFine
<1>6. q.lost = s.lost
  BY <1>1, <1>4 DEF StateType
<1> QED BY <1>5, <1>6 DEF q

LEMMA WalkFine ==
  ASSUME mode \in ModeType, NEW s, Fine(mode, s), mode.delay => s.lost = {},
         NEW t \in TimerType, NEW due \in BOOLEAN,
         t.proc = "delay_request" => mode.delay /\ t.data \in mode.conns
  PROVE  Fine(mode, Walk(s, t, due)) /\ Walk(s, t, due).lost = s.lost
<1>1. CASE t.proc = "deleted"
  BY <1>1 DEF Walk
<1>2. CASE t.proc = "delay_request" /\ due
  <2> DEFINE c == t.data
             q == delay_request(s, c)
             u == [t EXCEPT !.proc = "deleted"]
  <2>1. c \in mode.conns \ s.lost
    BY <1>2
  <2>2. q = aeCreateFileEvent([s EXCEPT !.conn[c].delayed = FALSE],
                              s.conn[c].fd, {W}, "socket_writeable", c)
    BY DEF delay_request
  <2>3. u \in TimerType /\ u.proc = "deleted"
    BY DEF TimerType
  <2>4. Walk(s, t, due) = Put(q, u)
    BY <1>2 DEF Walk
  <2> HIDE DEF c, q, u
  <2>5. Steady(c, s, q)
    BY <2>1, <2>2, DelayedSet
  <2>6. Fine(mode, q) /\ q.lost = s.lost
    BY <2>5 DEF Steady
  <2>7. Fine(mode, Put(q, u)) /\ Put(q, u).lost = q.lost
    BY <2>3, <2>6, PutFine
  <2> QED BY <2>4, <2>6, <2>7
<1>3. CASE t.proc # "deleted" /\ ~(t.proc = "delay_request" /\ due)
  <2>1. Walk(s, t, due) = Put(s, t)
    BY <1>3 DEF Walk
  <2> QED BY <2>1, PutFine
<1> QED BY <1>1, <1>2, <1>3

LEMMA TimersFine ==
  ASSUME mode \in ModeType, NEW s, Fine(mode, s), mode.delay => s.lost = {}, NEW D
  PROVE  Fine(mode, processTimeEvents(s, D)) /\ processTimeEvents(s, D).lost = s.lost
<1> DEFINE n == Len(s.timers)
           Right(q) == Fine(mode, q) /\ q.lost = s.lost
           y == processTimeEvents(s, D)
<1>1. /\ s \in StateType /\ s.timers \in Seq(TimerType) /\ n \in Nat
      /\ \A i \in DOMAIN s.timers : s.timers[i].proc = "delay_request" =>
           mode.delay /\ s.timers[i].data \in mode.conns
  BY DEF Fine, Sane, StateType, Delays
<1>2. PICK P : WalkedAs(s, D, n, P) /\ y = P[n]
  <2> DEFINE H == CHOOSE h : WalkedAs(s, D, n, h)
  <2>1. y = H[n]
    BY DEF processTimeEvents, WalkedAs
  <2>2. WalkedAs(s, D, n, H)
    BY <1>1, WalkedExists
  <2> QED BY <2>1, <2>2
<1> HIDE DEF y
<1>3. P[0] = Cleared(s) /\ \A i \in 1 .. n : P[i] = Advance(s, D, i, P[i - 1])
  <2>1. n \in Nat /\ WalkedAs(s, D, n, P)
    BY <1>1, <1>2
  <2> HIDE DEF n
  <2> QED BY <2>1, WalkedIs
<1> DEFINE A == {i \in Nat : i <= n => Right(P[i])}
<1>4. 0 \in A
  <2>1. /\ <<>> \in Seq(TimerType)
        /\ \A i \in DOMAIN <<>> : <<>>[i].proc = "delay_request" =>
             mode.delay /\ <<>>[i].data \in mode.conns
    OBVIOUS
  <2> DEFINE q == P[0]
  <2>2. q = [s EXCEPT !.timers = <<>>]
    BY <1>3 DEF Cleared
  <2> HIDE DEF q
  <2>3. Fine(mode, q)
    BY <2>1, <2>2, TimerFine
  <2>4. q.lost = s.lost
    BY <1>1, <2>2 DEF StateType
  <2> QED BY <2>3, <2>4 DEF q
<1>5. ASSUME NEW i \in Nat, i \in A
      PROVE  i + 1 \in A
  <2> SUFFICES ASSUME i + 1 <= n
               PROVE  Right(P[i + 1])
    OBVIOUS
  <2>1. Right(P[i])
    BY <1>1, <1>5
  <2> DEFINE t == s.timers[i + 1]
             q == P[i]
  <2>2. t \in TimerType /\ (t.proc = "delay_request" => mode.delay /\ t.data \in mode.conns)
    BY <1>1
  <2>3. P[i + 1] = Walk(q, t, i + 1 \in D)
    <3>1. i + 1 \in 1 .. n /\ (i + 1) - 1 = i
      BY <1>1
    <3> QED BY <1>3, <3>1 DEF Advance
  <2>4. (i + 1 \in D) \in BOOLEAN
    OBVIOUS
  <2> HIDE DEF t, q
  <2>5. Fine(mode, q) /\ q.lost = s.lost
    BY <2>1 DEF q
  <2>6. Fine(mode, Walk(q, t, i + 1 \in D)) /\ Walk(q, t, i + 1 \in D).lost = q.lost
    BY <2>2, <2>4, <2>5, WalkFine
  <2> QED BY <2>3, <2>5, <2>6
<1>6. n \in A
  <2> HIDE DEF A
  <2>1. Nat \subseteq A
    BY <1>4, <1>5, Inductive
  <2> QED BY <1>1, <2>1
<1>7. Right(y)
  BY <1>1, <1>2, <1>6
<1> QED BY <1>7 DEF y
-----------------------------------------------------------------------------
(* The events that were polled and wait to be dispatched are of sockets    *)
(* that are connected or failed, and the readable ones have something to   *)
(* read; after the readable half the socket may also be another one, but   *)
(* then there is no writable half.                                         *)
FiredType == [fd : Fds, mask : SUBSET {R, W}]
HasData(o) == o.rx # <<>> \/ o.fin \/ o.st = "failed"
Usable(s, e) ==
  /\ s.sock[e.fd].st \in {"up", "failed"}
  /\ R \in e.mask => HasData(s.sock[e.fd])
Phases ==
  /\ mode \in Modes /\ at \in {"start", "poll", "files"}
  /\ part \in {R, W, "more"} /\ rfired \in BOOLEAN
  /\ making \subseteq g.lost /\ (mode.fails \/ g.lost = making)
  /\ at # "start" => making = {}
  /\ at # "files" => fired = <<>>
  /\ part # R => fired # <<>>
Queue ==
  /\ fired \in Seq(FiredType)
  /\ \A i, k \in DOMAIN fired : fired[i].fd = fired[k].fd => i = k
  /\ \A i \in DOMAIN fired : i > 1 => Usable(g, fired[i])
Half(e) ==
  /\ part = R => Usable(g, e)
  /\ part = W => \/ g.sock[e.fd].st \in {"up", "failed"}
                 \/ /\ rfired
                    /\ \/ g.events[e.fd].mask = {}
                       \/ g.events[e.fd].rproc = g.events[e.fd].wproc
  /\ part = "more" => /\ rfired /\ ran.conn \in mode.conns \ g.lost
                      /\ g.conn[ran.conn].fd = e.fd
                      /\ g.sock[e.fd].st \in {"up", "failed"} /\ HasData(g.sock[e.fd])
LoopInv ==
  /\ Fine(mode, g) /\ Phases /\ Queue
  /\ fired # <<>> => Half(fired[1])
  /\ ConnectedTrue /\ ReadsHaveData

(* A delay and a connect that fails at once are not both possible: the     *)
(* delay of a connection that was lost runs for another one, then.         *)
NoTimerLost == \A m \in Modes : ~(m.delay /\ m.fails)

LEMMA ModesAre == mode \in Modes => mode \in ModeType
BY LoopAssumption

LEMMA StartFine ==
  ASSUME NEW m \in ModeType
  PROVE  Fine(m, Start(m)) /\ Start(m).lost = m.conns
<1> DEFINE s == Start(m)
<1>1. /\ s.events = [fd \in Fds |-> NoEvent] /\ s.polled = [fd \in Fds |-> {}]
      /\ s.maxfd = -1 /\ s.timers = <<>> /\ s.sock = [fd \in Fds |-> Closed]
      /\ s.lost = m.conns
      /\ s.conn = [c \in Conns |-> [NewConn EXCEPT !.delayed = m.delay]]
      /\ Shape(s)
  BY DEF Start, Events, Polled, Shape
<1> HIDE DEF s
<1>2. /\ NoEvent \in EventType /\ NoEvent.mask = {}
      /\ Closed \in SockType /\ Closed.st = "closed" /\ Closed.rx = <<>>
  BY DEF NoEvent, EventType, Closed, SockType
<1>3. /\ [NewConn EXCEPT !.delayed = m.delay] \in ConnType
      /\ [NewConn EXCEPT !.delayed = m.delay].delayed = m.delay
  BY DEF NewConn, Stdin, ConnType, ModeType
<1>4. m.conns \subseteq Conns
  BY DEF ModeType
<1>5. s \in StateType
  <2>1. s.events \in [Fds -> EventType] /\ s.polled \in [Fds -> SUBSET {R, W}]
    BY <1>1, <1>2
  <2>2. s.maxfd \in Int /\ s.timers \in Seq(TimerType) /\ s.lost \in SUBSET Conns
    BY <1>1, <1>4
  <2>3. s.sock \in [Fds -> SockType]
    BY <1>1, <1>2
  <2>4. s.conn \in [Conns -> ConnType]
    BY <1>1, <1>3
  <2>5. Shape(s)
    BY <1>1
  <2> QED BY <2>1, <2>2, <2>3, <2>4, <2>5, ShapeTyped
<1>6. \A fd \in Fds : s.events[fd].mask = {} /\ s.polled[fd] = {} /\ s.sock[fd] = Closed
  BY <1>1, <1>2
<1>7. Watched(s) /\ Silent(s) /\ Callable(s)
  BY <1>2, <1>6 DEF Watched, Silent, Callable
<1>8. Topped(s)
  <2>1. Watching(s) = {}
    BY <1>6 DEF Watching
  <2> QED BY <1>1, <2>1 DEF Topped, IsTop
<1>9. Owned({}, s)
  BY <1>2, <1>6 DEF Owned
<1>10. Delays(m, s)
  <2>1. \A c \in Conns : s.conn[c].delayed = m.delay
    BY <1>1, <1>3
  <2>2. DOMAIN s.timers = {}
    BY <1>1
  <2> QED BY <2>1, <2>2 DEF Delays
<1>11. m.conns \ s.lost = {} /\ s.lost \subseteq m.conns
  BY <1>1
<1> QED BY <1>1, <1>5, <1>7, <1>8, <1>9, <1>10, <1>11 DEF Fine, Sane, s

LEMMA LoopInit ==
  ASSUME Init
  PROVE  LoopInv
<1>1. /\ mode \in Modes /\ mode \in ModeType /\ g = Start(mode) /\ making = mode.conns
      /\ at = "start" /\ fired = <<>> /\ part = R /\ rfired = FALSE /\ ran = Nothing
  BY ModesAre DEF Init
<1>2. Fine(mode, g) /\ g.lost = mode.conns
  BY <1>1, StartFine
<1>3. Phases
  BY <1>1, <1>2 DEF Phases
<1>4. Queue
  BY <1>1 DEF Queue
<1>5. ConnectedTrue /\ ReadsHaveData
  BY <1>1, LoopAssumption DEF ConnectedTrue, ReadsHaveData, Nothing
<1> QED BY <1>1, <1>2, <1>3, <1>4, <1>5 DEF LoopInv

(* Before and between the events nothing is in hand.                       *)
LEMMA Idle ==
  ASSUME LoopInv, fired = <<>>
  PROVE  part = R
BY DEF LoopInv, Phases

LEMMA MakeStep ==
  ASSUME LoopInv, Make
  PROVE  LoopInv'
<1>1. /\ at = "start" /\ mode \in ModeType /\ Fine(mode, g) /\ making \subseteq g.lost
      /\ mode.fails \/ g.lost = making
  BY ModesAre DEF LoopInv, Phases, Make
<1>2. PICK c \in making : g' \in connect_socket(g, c) /\ making' = making \ {c}
  BY DEF Make
<1>3. UNCHANGED <<mode, at, fired, part, rfired, ran>>
  BY DEF Make
<1>4. c \in mode.conns /\ g.lost \subseteq mode.conns
  BY <1>1, <1>2 DEF Fine
<1>5. Sane(mode, mode.conns \ (g.lost \cup {c}), g)
  <2>1. g.lost \cup {c} = g.lost
    BY <1>1, <1>2
  <2> QED BY <1>1, <2>1 DEF Fine
<1>6. Fine(mode, g') /\ ((\E fd \in Fds : Fresh(g, c, fd, g')) \/ Missed(g, c, g'))
  BY <1>1, <1>2, <1>4, <1>5, ConnectFine
<1>7. g'.lost = g.lost \ {c} \/ (mode.fails /\ g'.lost = g.lost \cup {c})
  BY <1>6 DEF Fresh, Missed
<1>8. fired = <<>>
  BY <1>1 DEF LoopInv, Phases
<1>9. Phases'
  <2>1. making' \subseteq g'.lost /\ (mode.fails \/ g'.lost = making')
    BY <1>1, <1>2, <1>7
  <2> QED BY <1>1, <1>3, <2>1 DEF LoopInv, Phases
<1>10. Queue'
  BY <1>3, <1>8 DEF Queue
<1>11. (ConnectedTrue /\ ReadsHaveData)'
  BY <1>3 DEF LoopInv, ConnectedTrue, ReadsHaveData
<1>12. Fine(mode', g')
  BY <1>3, <1>6
<1> QED BY <1>3, <1>8, <1>9, <1>10, <1>11, <1>12 DEF LoopInv

LEMMA EnterStep ==
  ASSUME LoopInv, Enter
  PROVE  LoopInv'
<1> DEFINE t == [proc |-> "record_rate", data |-> None]
           ts == <<t>> \o g.timers
<1>1. /\ mode \in ModeType /\ Fine(mode, g) /\ at = "start" /\ making = {} /\ at' = "poll"
      /\ g' = [g EXCEPT !.timers = ts]
      /\ UNCHANGED <<mode, making, fired, part, rfired, ran>>
  BY ModesAre DEF LoopInv, Phases, Enter, aeCreateTimeEvent
<1>2. /\ g.timers \in Seq(TimerType)
      /\ \A i \in DOMAIN g.timers : g.timers[i].proc = "delay_request" =>
           mode.delay /\ g.timers[i].data \in mode.conns
  BY <1>1 DEF Fine, Sane, StateType, Delays
<1>3. t \in TimerType /\ t.proc # "delay_request"
  BY DEF TimerType
<1> HIDE DEF t
<1>4. ts \in Seq(TimerType)
  BY <1>2, <1>3
<1>5. \A i \in DOMAIN ts : ts[i].proc = "delay_request" => mode.delay /\ ts[i].data \in mode.conns
  <2> SUFFICES ASSUME NEW i \in DOMAIN ts, ts[i].proc = "delay_request"
               PROVE  mode.delay /\ ts[i].data \in mode.conns
    OBVIOUS
  <2>1. CASE i = 1
    BY <1>2, <1>3, <2>1
  <2>2. CASE i # 1
    <3>1. i - 1 \in DOMAIN g.timers /\ ts[i] = g.timers[i - 1]
      BY <1>2, <1>3, <2>2
    <3> QED BY <1>2, <3>1
  <2> QED BY <2>1, <2>2
<1> HIDE DEF ts
<1>6. Fine(mode, g')
  BY <1>1, <1>4, <1>5, TimerFine
<1>7. g'.lost = g.lost
  BY <1>1 DEF Fine, Sane, StateType
<1>8. Phases'
  BY <1>1, <1>7 DEF LoopInv, Phases
<1>9. fired = <<>>
  BY <1>1 DEF LoopInv, Phases
<1>10. Queue'
  BY <1>1, <1>9 DEF Queue
<1>11. (ConnectedTrue /\ ReadsHaveData)'
  BY <1>1 DEF LoopInv, ConnectedTrue, ReadsHaveData
<1>12. Fine(mode', g')
  BY <1>1, <1>6
<1> QED BY <1>1, <1>8, <1>9, <1>10, <1>11, <1>12 DEF LoopInv

LEMMA TimeStep ==
  ASSUME NoTimerLost, LoopInv, TimeEvents
  PROVE  LoopInv'
<1>1. /\ mode \in Modes /\ mode \in ModeType /\ Fine(mode, g) /\ at = "files" /\ fired = <<>>
      /\ at' = "poll" /\ ran' = Nothing
      /\ UNCHANGED <<mode, making, fired, part, rfired>>
  BY ModesAre DEF LoopInv, Phases, TimeEvents
<1>2. PICK D : g' = processTimeEvents(g, D)
  BY DEF TimeEvents
<1>3. mode.delay => g.lost = {}
  BY <1>1 DEF NoTimerLost, LoopInv, Phases
<1>4. Fine(mode, g') /\ g'.lost = g.lost
  BY <1>1, <1>2, <1>3, TimersFine
<1>5. Phases'
  BY <1>1, <1>4 DEF LoopInv, Phases
<1>6. Queue'
  BY <1>1 DEF Queue
<1>7. (ConnectedTrue /\ ReadsHaveData)'
  BY <1>1, LoopAssumption DEF ConnectedTrue, ReadsHaveData, Nothing
<1>8. Fine(mode', g')
  BY <1>1, <1>4
<1> QED BY <1>1, <1>5, <1>6, <1>7, <1>8 DEF LoopInv

(* The other events wait for sockets that a callback leaves alone.         *)
LEMMA OthersUsable ==
  ASSUME LoopInv, fired # <<>>, NEW c, g.conn[c].fd = fired[1].fd, Apart(g, c, g')
  PROVE  \A i \in DOMAIN fired : i > 1 => Usable(g', fired[i])
<1> SUFFICES ASSUME NEW i \in DOMAIN fired, i > 1
             PROVE  Usable(g', fired[i])
  OBVIOUS
<1>1. /\ fired \in Seq(FiredType) /\ Usable(g, fired[i])
      /\ \A j, k \in DOMAIN fired : fired[j].fd = fired[k].fd => j = k
  BY DEF LoopInv, Queue
<1>2. 1 \in DOMAIN fired /\ i # 1 /\ fired[i] \in FiredType
  BY <1>1
<1>3. fired[i].fd \in Fds /\ fired[i].fd # g.conn[c].fd
  BY <1>1, <1>2 DEF FiredType
<1>4. g.sock[fired[i].fd].st # "closed"
  BY <1>1 DEF Usable
<1>5. g'.sock[fired[i].fd] = g.sock[fired[i].fd]
  BY <1>3, <1>4 DEF Apart
<1> QED BY <1>1, <1>5 DEF Usable

(* An event that has a callback is the one of a connection with a socket.  *)
LEMMA OwnerOf ==
  ASSUME mode \in ModeType, NEW s, Fine(mode, s), NEW fd \in Fds, s.events[fd].mask # {}
  PROVE  /\ s.events[fd].data \in mode.conns \ s.lost
         /\ s.conn[s.events[fd].data].fd = fd
         /\ R \in s.events[fd].mask => s.events[fd].rproc \in ReadProcs
         /\ W \in s.events[fd].mask => s.events[fd].wproc \in WriteProcs
<1>1. /\ s \in StateType /\ Watched(s) /\ Owned(mode.conns \ s.lost, s) /\ Callable(s)
  BY DEF Fine, Sane
<1>2. s.sock[fd].st # "closed"
  BY <1>1 DEF Watched
<1>3. s.events[fd].data \in mode.conns \ s.lost /\ s.conn[s.events[fd].data].fd = fd
  BY <1>1, <1>2 DEF Owned
<1>4. s.events[fd] \in EventType
  BY <1>1 DEF StateType
<1>5. /\ s.events[fd].rproc \in ReadProcs \cup {None}
      /\ s.events[fd].wproc \in WriteProcs \cup {None}
  BY <1>4 DEF EventType
<1>6. /\ R \in s.events[fd].mask => s.events[fd].rproc # None
      /\ W \in s.events[fd].mask => s.events[fd].wproc # None
  BY <1>1 DEF Callable
<1> QED BY <1>3, <1>5, <1>6

LEMMA CallDuring ==
  ASSUME mode \in ModeType, Fine(mode, g), NEW c \in mode.conns \ g.lost, NEW proc,
         NEW fd, fd = g.conn[c].fd, NEW q \in Call(proc, fd, c)
  PROVE  During(g, c, q)
<1>1. CASE proc = "socket_connected"
  BY <1>1, SocketConnected DEF Call
<1>2. CASE proc = "socket_writeable"
  BY <1>2, SocketWriteable DEF Call
<1>3. CASE proc \notin {"socket_connected", "socket_writeable"}
  <2>1. q \in socket_readable(g, c)
    BY <1>3 DEF Call
  <2> QED BY <2>1, SocketReadable
<1> QED BY <1>1, <1>2, <1>3

(* After a callback that may read, the head of the queue.                  *)
LEMMA AfterRead ==
  ASSUME NEW s, NEW c \in mode.conns, NEW q, During(s, c, q), NEW fd, fd = s.conn[c].fd,
         s.sock[fd].st \in {"up", "failed"}
  PROVE  /\ \/ q.sock[fd].st \in {"up", "failed"}
            \/ q.events[fd].mask = {} \/ q.events[fd].rproc = q.events[fd].wproc
         /\ More(s, q, c) => /\ c \in mode.conns \ q.lost /\ q.conn[c].fd = fd
                             /\ q.sock[fd].st \in {"up", "failed"} /\ HasData(q.sock[fd])
<1>1. CASE Kept(s, c, q)
  BY <1>1 DEF Kept, More, HasData
<1>2. CASE Gone(s, c, q)
  BY <1>2 DEF Gone, More
<1> QED BY <1>1, <1>2 DEF During

LEMMA ReadableStep ==
  ASSUME LoopInv, DispatchReadable
  PROVE  LoopInv'
<1> DEFINE e == fired[1]
           fe == g.events[e.fd]
           c == fe.data
<1>1. /\ mode \in Modes /\ mode \in ModeType /\ Fine(mode, g) /\ at = "files" /\ fired # <<>>
      /\ part = R /\ UNCHANGED <<mode, making, at, fired>>
      /\ fired \in Seq(FiredType) /\ Head(fired) = e
  BY ModesAre DEF LoopInv, Phases, Queue, DispatchReadable
<1>2. e.fd \in Fds
  <2>1. e \in FiredType
    BY <1>1
  <2> QED BY <2>1 DEF FiredType
<1>3. Usable(g, e)
  BY <1>1 DEF LoopInv, Half
<1>4. R # W /\ R # "more" /\ W # "more"
  BY DEF R, W
<1>5. CASE ~Readable(g, e)
  <2>1. rfired' = FALSE /\ part' = W /\ ran' = Nothing /\ g' = g
    BY <1>1, <1>5 DEF DispatchReadable
  <2>2. Phases'
    BY <1>1, <2>1 DEF LoopInv, Phases
  <2>3. Queue'
    BY <1>1, <2>1 DEF LoopInv, Queue
  <2>4. Half(e)'
    BY <1>1, <1>3, <1>4, <2>1 DEF Half, Usable
  <2>5. (ConnectedTrue /\ ReadsHaveData)'
    BY <2>1, LoopAssumption DEF ConnectedTrue, ReadsHaveData, Nothing
  <2> QED BY <1>1, <2>1, <2>2, <2>3, <2>4, <2>5 DEF LoopInv
<1>6. CASE Readable(g, e)
  <2>1. /\ g' \in Call(fe.rproc, e.fd, c) /\ rfired' = TRUE /\ ran' = Ran(fe.rproc, c)
        /\ part' = IF fe.rproc = "socket_readable" /\ More(g, g', c) THEN "more" ELSE W
    BY <1>1, <1>6 DEF DispatchReadable
  <2>2. R \in fe.mask /\ R \in e.mask
    BY <1>6 DEF Readable
  <2>3. c \in mode.conns \ g.lost /\ g.conn[c].fd = e.fd /\ fe.rproc \in ReadProcs
    BY <1>1, <1>2, <2>2, OwnerOf
  <2> HIDE DEF e, fe, c
  <2>4. During(g, c, g')
    BY <1>1, <2>1, <2>3, CallDuring
  <2>5. /\ \/ g'.sock[e.fd].st \in {"up", "failed"}
           \/ g'.events[e.fd].mask = {} \/ g'.events[e.fd].rproc = g'.events[e.fd].wproc
        /\ More(g, g', c) => /\ c \in mode.conns \ g'.lost /\ g'.conn[c].fd = e.fd
                             /\ g'.sock[e.fd].st \in {"up", "failed"} /\ HasData(g'.sock[e.fd])
    <3>1. g.sock[e.fd].st \in {"up", "failed"}
      BY <1>3 DEF Usable
    <3> QED BY <2>3, <2>4, <3>1, AfterRead
  <2>6. Fine(mode', g') /\ (mode.fails \/ g'.lost \subseteq g.lost)
    BY <1>1, <2>4 DEF During, Apart
  <2>7. Phases'
    <3>1. making' = {} /\ (mode.fails \/ g'.lost = {})
      BY <1>1, <2>6 DEF LoopInv, Phases
    <3> QED BY <1>1, <2>1, <3>1 DEF LoopInv, Phases
  <2>8. Queue'
    <3>1. \A i \in DOMAIN fired : i > 1 => Usable(g', fired[i])
      BY <1>1, <2>3, <2>4, OthersUsable DEF During, e
    <3> QED BY <1>1, <3>1 DEF LoopInv, Queue
  <2>9. ran'.proc = fe.rproc /\ ran'.conn = c /\ ran'.sock = g.sock[e.fd]
    BY <2>1, <2>3 DEF Ran
  <2>10. Half(fired[1])'
    <3>1. part' = W => \/ g'.sock[e.fd].st \in {"up", "failed"}
                       \/ /\ rfired'
                          /\ \/ g'.events[e.fd].mask = {}
                             \/ g'.events[e.fd].rproc = g'.events[e.fd].wproc
      BY <2>1, <2>5
    <3>2. part' = "more" => /\ rfired' /\ ran'.conn \in mode.conns \ g'.lost
                            /\ g'.conn[ran'.conn].fd = e.fd
                            /\ g'.sock[e.fd].st \in {"up", "failed"} /\ HasData(g'.sock[e.fd])
      <4> SUFFICES ASSUME part' = "more"
                   PROVE  More(g, g', c)
        BY <2>1, <2>5, <2>9
      <4> QED BY <1>4, <2>1
    <3>3. part' # R
      BY <1>4, <2>1
    <3> QED BY <1>1, <3>1, <3>2, <3>3 DEF Half, e
  <2>11. (ConnectedTrue /\ ReadsHaveData)'
    <3>1. g.sock[e.fd].st \notin {"connecting", "closed"} /\ HasData(g.sock[e.fd])
      BY <1>3, <2>2 DEF Usable
    <3> QED BY <2>9, <3>1 DEF ConnectedTrue, ReadsHaveData, HasData
  <2> QED BY <1>1, <2>6, <2>7, <2>8, <2>10, <2>11 DEF LoopInv, e
<1> QED BY <1>5, <1>6

LEMMA MoreStep ==
  ASSUME LoopInv, ReadMore
  PROVE  LoopInv'
<1> DEFINE e == fired[1]
           c == ran.conn
<1>1. /\ mode \in Modes /\ mode \in ModeType /\ Fine(mode, g) /\ at = "files" /\ fired # <<>>
      /\ part = "more" /\ UNCHANGED <<mode, making, at, fired, rfired>>
      /\ g' \in socket_readable(g, c) /\ ran' = Ran("socket_readable", c)
      /\ part' = IF More(g, g', c) THEN "more" ELSE W
  <2>1. /\ at = "files" /\ part = "more" /\ UNCHANGED <<mode, making, at, fired, rfired>>
        /\ g' \in socket_readable(g, c) /\ ran' = Ran("socket_readable", c)
        /\ part' = IF More(g, g', c) THEN "more" ELSE W
    BY DEF ReadMore
  <2>2. mode \in Modes /\ mode \in ModeType /\ Fine(mode, g)
    BY ModesAre DEF LoopInv, Phases
  <2>3. fired # <<>>
    BY <2>1 DEF LoopInv, Phases, R
  <2> QED BY <2>1, <2>2, <2>3
<1>2. R # W /\ R # "more" /\ W # "more"
  BY DEF R, W
<1>3. /\ rfired /\ c \in mode.conns \ g.lost /\ g.conn[c].fd = e.fd
      /\ g.sock[e.fd].st \in {"up", "failed"} /\ HasData(g.sock[e.fd])
  BY <1>1 DEF LoopInv, Half
<1> HIDE DEF c, e
<1>4. During(g, c, g')
  BY <1>1, <1>3, SocketReadable
<1>5. /\ \/ g'.sock[e.fd].st \in {"up", "failed"}
         \/ g'.events[e.fd].mask = {} \/ g'.events[e.fd].rproc = g'.events[e.fd].wproc
      /\ More(g, g', c) => /\ c \in mode.conns \ g'.lost /\ g'.conn[c].fd = e.fd
                           /\ g'.sock[e.fd].st \in {"up", "failed"} /\ HasData(g'.sock[e.fd])
  BY <1>3, <1>4, AfterRead
<1>6. Fine(mode', g') /\ (mode.fails \/ g'.lost \subseteq g.lost)
  BY <1>1, <1>4 DEF During, Apart
<1>7. Phases'
  <2>1. making' = {} /\ (mode.fails \/ g'.lost = {})
    BY <1>1, <1>6 DEF LoopInv, Phases
  <2> QED BY <1>1, <2>1 DEF LoopInv, Phases
<1>8. Queue'
  <2>1. \A i \in DOMAIN fired : i > 1 => Usable(g', fired[i])
    BY <1>1, <1>3, <1>4, OthersUsable DEF During, e
  <2> QED BY <1>1, <2>1 DEF LoopInv, Queue
<1>9. ran'.proc = "socket_readable" /\ ran'.conn = c /\ ran'.sock = g.sock[e.fd]
  BY <1>1, <1>3 DEF Ran
<1>10. Half(fired[1])'
  <2>1. part' = W => \/ g'.sock[e.fd].st \in {"up", "failed"}
                     \/ /\ rfired'
                        /\ \/ g'.events[e.fd].mask = {}
                           \/ g'.events[e.fd].rproc = g'.events[e.fd].wproc
    BY <1>1, <1>3, <1>5
  <2>2. part' = "more" => /\ rfired' /\ ran'.conn \in mode.conns \ g'.lost
                          /\ g'.conn[ran'.conn].fd = e.fd
                          /\ g'.sock[e.fd].st \in {"up", "failed"} /\ HasData(g'.sock[e.fd])
    <3> SUFFICES ASSUME part' = "more"
                 PROVE  More(g, g', c)
      BY <1>1, <1>3, <1>5, <1>9
    <3> QED BY <1>1, <1>2
  <2>3. part' # R
    BY <1>1, <1>2
  <2> QED BY <1>1, <2>1, <2>2, <2>3 DEF Half, e
<1>11. (ConnectedTrue /\ ReadsHaveData)'
  BY <1>3, <1>9 DEF ConnectedTrue, ReadsHaveData, HasData
<1> QED BY <1>1, <1>6, <1>7, <1>8, <1>10, <1>11 DEF LoopInv, e

LEMMA TailIs ==
  ASSUME NEW T, NEW q \in Seq(T), q # <<>>
  PROVE  /\ Tail(q) \in Seq(T) /\ Len(Tail(q)) = Len(q) - 1
         /\ \A i \in DOMAIN Tail(q) : i + 1 \in DOMAIN q /\ Tail(q)[i] = q[i + 1] /\ i \in Nat \ {0}
OBVIOUS

LEMMA WritableStep ==
  ASSUME LoopInv, DispatchWritable
  PROVE  LoopInv'
<1> DEFINE e == fired[1]
           fe == g.events[e.fd]
           c == fe.data
<1>1. /\ mode \in Modes /\ mode \in ModeType /\ Fine(mode, g) /\ at = "files" /\ fired # <<>>
      /\ part = W /\ part' = R /\ rfired' = FALSE /\ fired' = Tail(fired)
      /\ UNCHANGED <<mode, making, at>>
      /\ fired \in Seq(FiredType) /\ Head(fired) = e
  <2>1. /\ at = "files" /\ part = W /\ part' = R /\ rfired' = FALSE /\ fired' = Tail(fired)
        /\ UNCHANGED <<mode, making, at>>
    BY DEF DispatchWritable
  <2>2. mode \in Modes /\ mode \in ModeType /\ Fine(mode, g) /\ fired \in Seq(FiredType)
    BY ModesAre DEF LoopInv, Phases, Queue
  <2>3. fired # <<>>
    BY <2>1 DEF LoopInv, Phases, R, W
  <2>4. Head(fired) = e
    BY <2>2, <2>3
  <2> QED BY <2>1, <2>2, <2>3, <2>4
<1>2. e.fd \in Fds
  <2>1. e \in FiredType
    BY <1>1
  <2> QED BY <2>1 DEF FiredType
<1>3. \/ g.sock[e.fd].st \in {"up", "failed"}
      \/ rfired /\ (fe.mask = {} \/ fe.rproc = fe.wproc)
  BY <1>1 DEF LoopInv, Half
<1>4. ASSUME Fine(mode, g'), mode.fails \/ g'.lost \subseteq g.lost,
             \A i \in DOMAIN fired : i > 1 => Usable(g', fired[i]),
             (ConnectedTrue /\ ReadsHaveData)'
      PROVE  LoopInv'
  <2>1. Phases'
    <3>1. making' = {} /\ (mode.fails \/ g'.lost = {})
      BY <1>1, <1>4 DEF LoopInv, Phases
    <3>2. R \in {R, W, "more"}
      OBVIOUS
    <3> QED BY <1>1, <3>1, <3>2 DEF LoopInv, Phases
  <2>2. /\ Tail(fired) \in Seq(FiredType)
        /\ \A i \in DOMAIN Tail(fired) : /\ i + 1 \in DOMAIN fired /\ i \in Nat \ {0}
                                         /\ Tail(fired)[i] = fired[i + 1]
    BY <1>1, TailIs
  <2>3. \A i \in DOMAIN fired' : Usable(g', fired'[i])
    <3> SUFFICES ASSUME NEW i \in DOMAIN Tail(fired)
                 PROVE  Usable(g', Tail(fired)[i])
      BY <1>1
    <3>1. i + 1 \in DOMAIN fired /\ i + 1 > 1 /\ Tail(fired)[i] = fired[i + 1]
      BY <2>2
    <3> QED BY <1>4, <3>1
  <2>4. \A i, k \in DOMAIN fired' : fired'[i].fd = fired'[k].fd => i = k
    <3> SUFFICES ASSUME NEW i \in DOMAIN Tail(fired), NEW k \in DOMAIN Tail(fired),
                        Tail(fired)[i].fd = Tail(fired)[k].fd
                 PROVE  i = k
      BY <1>1
    <3>1. /\ i + 1 \in DOMAIN fired /\ Tail(fired)[i] = fired[i + 1] /\ i \in Nat
          /\ k + 1 \in DOMAIN fired /\ Tail(fired)[k] = fired[k + 1] /\ k \in Nat
      BY <2>2
    <3>2. i + 1 = k + 1
      BY <3>1 DEF LoopInv, Queue
    <3> QED BY <3>1, <3>2
  <2>5. Queue'
    BY <1>1, <2>2, <2>3, <2>4 DEF Queue
  <2>6. (fired # <<>> => Half(fired[1]))'
    <3> SUFFICES ASSUME fired' # <<>>
                 PROVE  Half(fired[1])'
      OBVIOUS
    <3>1. 1 \in DOMAIN fired'
      BY <1>1, <2>2
    <3>2. Usable(g', fired'[1])
      BY <2>3, <3>1
    <3>3. part' # W /\ part' # "more"
      BY <1>1 DEF R, W
    <3> QED BY <3>2, <3>3 DEF Half
  <2> QED BY <1>1, <1>4, <2>1, <2>5, <2>6 DEF LoopInv
<1>5. CASE ~Writable(g, e, rfired)
  <2>1. ran' = Nothing /\ g' = g
    BY <1>1, <1>5 DEF DispatchWritable
  <2>2. (ConnectedTrue /\ ReadsHaveData)'
    BY <2>1, LoopAssumption DEF ConnectedTrue, ReadsHaveData, Nothing
  <2>3. \A i \in DOMAIN fired : i > 1 => Usable(g', fired[i])
    BY <2>1 DEF LoopInv, Queue
  <2>4. Fine(mode, g') /\ g'.lost \subseteq g.lost
    BY <1>1, <2>1
  <2> QED BY <1>4, <2>2, <2>3, <2>4
<1>6. CASE Writable(g, e, rfired)
  <2>1. g' \in Call(fe.wproc, e.fd, c) /\ ran' = Ran(fe.wproc, c)
    BY <1>1, <1>6 DEF DispatchWritable
  <2>2. W \in fe.mask /\ (~rfired \/ fe.wproc # fe.rproc)
    BY <1>6 DEF Writable
  <2>3. c \in mode.conns \ g.lost /\ g.conn[c].fd = e.fd /\ fe.wproc \in WriteProcs
    BY <1>1, <1>2, <2>2, OwnerOf
  <2>4. g.sock[e.fd].st \in {"up", "failed"}
    BY <1>3, <2>2
  <2> HIDE DEF e, fe, c
  <2>5. During(g, c, g')
    BY <1>1, <2>1, <2>3, CallDuring
  <2>6. Fine(mode, g') /\ (mode.fails \/ g'.lost \subseteq g.lost)
    BY <2>5 DEF During, Apart
  <2>7. \A i \in DOMAIN fired : i > 1 => Usable(g', fired[i])
    BY <1>1, <2>3, <2>5, OthersUsable DEF During, e
  <2>8. ran'.proc = fe.wproc /\ ran'.sock = g.sock[e.fd]
    BY <2>1, <2>3 DEF Ran
  <2>9. (ConnectedTrue /\ ReadsHaveData)'
    BY <2>3, <2>4, <2>8 DEF ConnectedTrue, ReadsHaveData, WriteProcs
  <2> QED BY <1>4, <2>6, <2>7, <2>9
<1> QED BY <1>5, <1>6

(* What epoll reports of a socket it watches.                              *)
LEMMA ReportIs ==
  ASSUME mode \in ModeType, NEW s, Fine(mode, s), NEW fd \in Fds, Report(s, fd) # {}
  PROVE  /\ Report(s, fd) \in SUBSET {R, W}
         /\ s.sock[fd].st \in {"up", "failed"}
         /\ R \in Report(s, fd) => HasData(s.sock[fd])
<1>1. s.sock[fd] \in SockType /\ s.polled[fd] \in SUBSET {R, W}
  BY DEF Fine, Sane, StateType
<1>2. Report(s, fd) = (Ready(s.sock[fd]) \cap s.polled[fd])
                        \cup IF s.sock[fd].st = "failed" THEN {W} ELSE {}
  BY DEF Report
<1>3. CASE s.sock[fd].st = "up"
  <2>1. Ready(s.sock[fd]) = {W} \cup IF s.sock[fd].rx # <<>> \/ s.sock[fd].fin THEN {R} ELSE {}
    BY <1>3 DEF Ready
  <2> QED BY <1>1, <1>2, <1>3, <2>1 DEF HasData, R, W
<1>4. CASE s.sock[fd].st = "failed"
  <2>1. Ready(s.sock[fd]) = {R, W}
    BY <1>4 DEF Ready
  <2> QED BY <1>1, <1>2, <1>4, <2>1 DEF HasData
<1>5. CASE s.sock[fd].st \notin {"up", "failed"}
  <2>1. Ready(s.sock[fd]) = {}
    BY <1>5 DEF Ready
  <2> QED BY <1>2, <1>5, <2>1
<1> QED BY <1>3, <1>4, <1>5

LEMMA PollStep ==
  ASSUME LoopInv, Poll
  PROVE  LoopInv'
<1>1. /\ mode \in Modes /\ mode \in ModeType /\ Fine(mode, g) /\ at = "poll" /\ fired = <<>>
      /\ part = R /\ R # W /\ R # "more" /\ making = {}
  BY ModesAre, Idle DEF LoopInv, Phases, Poll, R, W
<1>2. at' = "files" /\ fired' \in aeApiPoll(g) /\ UNCHANGED <<mode, g, making, part, rfired, ran>>
  BY DEF Poll
<1> DEFINE ready == {fd \in Fds : Report(g, fd) # {}}
           n == Cardinality(ready)
<1>3. n \in Nat
  <2>1. IsFiniteSet(ready)
    BY FdsAre, FS_Subset
  <2> QED BY <2>1, FS_CardinalityType
<1>4. PICK f \in [1 .. n -> ready] :
        /\ \A i, k \in 1 .. n : f[i] = f[k] => i = k
        /\ fired' = [i \in 1 .. n |-> [fd |-> f[i], mask |-> Report(g, f[i])]]
  BY <1>2 DEF aeApiPoll
<1>5. ASSUME NEW i \in 1 .. n
      PROVE  /\ fired'[i] \in FiredType /\ Usable(g, fired'[i]) /\ fired'[i].fd = f[i]
  <2>1. f[i] \in Fds /\ Report(g, f[i]) # {}
    OBVIOUS
  <2>2. /\ Report(g, f[i]) \in SUBSET {R, W}
        /\ g.sock[f[i]].st \in {"up", "failed"}
        /\ R \in Report(g, f[i]) => HasData(g.sock[f[i]])
    BY <1>1, <2>1, ReportIs
  <2>3. fired'[i] = [fd |-> f[i], mask |-> Report(g, f[i])]
    BY <1>4
  <2>4. fired'[i].fd = f[i] /\ fired'[i].mask = Report(g, f[i])
    BY <2>3
  <2>5. fired'[i] \in FiredType
    BY <2>1, <2>2, <2>3 DEF FiredType
  <2> QED BY <2>2, <2>4, <2>5 DEF Usable
<1> HIDE DEF n, ready
<1>6. fired' \in Seq(FiredType) /\ DOMAIN fired' = 1 .. n
  <2>1. fired' = [i \in 1 .. n |-> fired'[i]]
    BY <1>4
  <2>2. fired' \in [1 .. n -> FiredType]
    BY <1>5, <2>1
  <2> QED BY <1>3, <2>1, <2>2
<1>7. Queue'
  <2>1. \A i, k \in DOMAIN fired' : fired'[i].fd = fired'[k].fd => i = k
    BY <1>4, <1>5, <1>6
  <2>2. \A i \in DOMAIN fired' : Usable(g', fired'[i])
    BY <1>2, <1>5, <1>6
  <2> QED BY <1>6, <2>1, <2>2 DEF Queue
<1>8. (fired # <<>> => Half(fired[1]))'
  <2> SUFFICES ASSUME fired' # <<>>
               PROVE  Half(fired[1])'
    OBVIOUS
  <2>1. 1 \in DOMAIN fired'
    <3> DEFINE q == fired'
    <3>1. q \in Seq(FiredType) /\ q # <<>>
      BY <1>6
    <3> HIDE DEF q
    <3>2. 1 \in DOMAIN q
      BY <3>1
    <3> QED BY <3>2 DEF q
  <2>2. Usable(g, fired'[1])
    BY <1>5, <1>6, <2>1
  <2> QED BY <1>1, <1>2, <2>2 DEF Half, Usable
<1>9. Phases'
  BY <1>1, <1>2 DEF LoopInv, Phases
<1>10. (ConnectedTrue /\ ReadsHaveData)'
  BY <1>2 DEF LoopInv, ConnectedTrue, ReadsHaveData
<1>11. Fine(mode', g')
  BY <1>1, <1>2
<1> QED BY <1>7, <1>8, <1>9, <1>10, <1>11 DEF LoopInv

(* The network and the server change a socket, which stays as it is or     *)
(* gets connected or fails, and takes nothing back.                        *)
Lasting(o, v) ==
  /\ v \in SockType /\ o.st # "closed" /\ v.st \in {"up", "failed"}
  /\ HasData(o) => HasData(v)

LEMMA NetworkStep ==
  ASSUME LoopInv, NEW fd \in Fds, NEW v, Lasting(g.sock[fd], v), Network(fd, v)
  PROVE  LoopInv'
<1>1. /\ mode \in ModeType /\ Fine(mode, g) /\ g' = [g EXCEPT !.sock[fd] = v]
      /\ UNCHANGED <<mode, making, at, fired, part, rfired, ran>>
      /\ fired \in Seq(FiredType)
  BY ModesAre DEF LoopInv, Phases, Queue, Network
<1>2. /\ v \in SockType /\ g.sock[fd].st # "closed" /\ v.st \in {"up", "failed"}
      /\ HasData(g.sock[fd]) => HasData(v)
  BY DEF Lasting
<1>3. Fine(mode, g') /\ SockOnly(g, fd, v, g')
  <2>1. /\ v.st = "closed" <=> g.sock[fd].st = "closed"
        /\ v.st \in {"closed", "connecting"} => v.rx = <<>>
    BY <1>2
  <2> QED BY <1>1, <1>2, <2>1, SockSteady
<1>4. /\ g'.lost = g.lost /\ g'.conn = g.conn /\ g'.events = g.events
      /\ \A k \in Fds : /\ g.sock[k].st \in {"up", "failed"} => g'.sock[k].st \in {"up", "failed"}
                        /\ HasData(g.sock[k]) => HasData(g'.sock[k])
  BY <1>2, <1>3 DEF SockOnly
<1>5. ASSUME NEW e \in FiredType
      PROVE  /\ Usable(g, e) => Usable(g', e)
             /\ Half(e) => Half(e)'
  <2>1. e.fd \in Fds
    BY DEF FiredType
  <2>2. Usable(g, e) => Usable(g', e)
    BY <1>4, <2>1 DEF Usable
  <2> QED BY <1>1, <1>4, <2>1, <2>2 DEF Half
<1>6. \A i \in DOMAIN fired : fired[i] \in FiredType
  BY <1>1
<1>7. Queue'
  BY <1>1, <1>5, <1>6 DEF LoopInv, Queue
<1>8. (fired # <<>> => Half(fired[1]))'
  <2> SUFFICES ASSUME fired # <<>>
               PROVE  Half(fired[1])'
    BY <1>1
  <2>1. fired[1] \in FiredType
    BY <1>1, <1>6
  <2>2. Half(fired[1])
    BY DEF LoopInv
  <2> QED BY <1>1, <1>5, <2>1, <2>2
<1>9. Phases'
  BY <1>1, <1>4 DEF LoopInv, Phases
<1>10. (ConnectedTrue /\ ReadsHaveData)'
  BY <1>1 DEF LoopInv, ConnectedTrue, ReadsHaveData
<1>11. Fine(mode', g')
  BY <1>1, <1>3
<1> QED BY <1>7, <1>8, <1>9, <1>10, <1>11 DEF LoopInv

LEMMA SocketOf ==
  ASSUME LoopInv, NEW fd \in Fds
  PROVE  /\ g.sock[fd] \in SockType
         /\ g.sock[fd].rx \in Seq(Bytes) /\ g.sock[fd].todo \in Seq(Bytes)
         /\ g.sock[fd].owe \in Int
BY DEF LoopInv, Fine, Sane, StateType, SockType

LEMMA EstablishStep ==
  ASSUME LoopInv, NEW fd \in Fds, Establish(fd)
  PROVE  LoopInv'
<1> DEFINE o == g.sock[fd]
           v == [o EXCEPT !.st = "up"]
<1>1. o \in SockType /\ o.st = "connecting" /\ Network(fd, v)
  BY SocketOf DEF Establish
<1> HIDE DEF o
<1>2. /\ v \in SockType /\ v.st = "up" /\ v.rx = o.rx /\ v.fin = o.fin
  BY <1>1 DEF SockType
<1> HIDE DEF v
<1>3. Lasting(o, v)
  BY <1>1, <1>2 DEF Lasting, HasData
<1> QED BY <1>1, <1>3, NetworkStep DEF o

(* The server adds units us to what is to be read.                         *)
LEMMA MoreRead ==
  ASSUME LoopInv, NEW fd \in Fds, g.sock[fd].st = "up",
         NEW us \in Seq(Bytes), NEW v \in SockType, v.st = "up",
         v.rx = g.sock[fd].rx \o us, v.fin = g.sock[fd].fin, Network(fd, v)
  PROVE  LoopInv'
<1> DEFINE o == g.sock[fd]
           rx == o.rx
<1>1. rx \in Seq(Bytes) /\ v.rx = rx \o us
  BY SocketOf
<1> HIDE DEF rx
<1>2. rx # <<>> => v.rx # <<>>
  BY <1>1
<1>3. Lasting(o, v)
  BY <1>2 DEF Lasting, HasData, rx
<1> QED BY <1>3, NetworkStep

LEMMA AnswerStep ==
  ASSUME LoopInv, NEW fd \in Fds, NEW kind \in {"k", "c", "z"}, Answer(fd, kind)
  PROVE  LoopInv'
<1> DEFINE s == g.sock[fd]
           left == [s EXCEPT !.owe = IF kind = "k" THEN @ - 1 ELSE 0, !.ends = kind # "k"]
           whole == [left EXCEPT !.rx = @ \o <<"b", kind>>]
           first == [left EXCEPT !.rx = @ \o <<"b">>, !.todo = <<kind>>]
<1>1. s.st = "up" /\ (Network(fd, whole) \/ Network(fd, first))
  BY DEF Answer
<1>2. s \in SockType /\ s.rx \in Seq(Bytes)
  BY SocketOf
<1>3. /\ <<"b", kind>> \in Seq(Bytes) /\ <<"b">> \in Seq(Bytes) /\ <<kind>> \in Seq(Bytes)
  BY DEF Bytes
<1>4. s.rx \o <<"b", kind>> \in Seq(Bytes) /\ s.rx \o <<"b">> \in Seq(Bytes)
  BY <1>2, <1>3
<1>5. /\ left \in SockType /\ left.st = s.st /\ left.rx = s.rx /\ left.fin = s.fin
  <2> DEFINE owe == IF kind = "k" THEN s.owe - 1 ELSE 0
             ends == kind # "k"
  <2>1. owe \in Int /\ ends \in BOOLEAN
    BY SocketOf
  <2>2. left = [s EXCEPT !.owe = owe, !.ends = ends]
    OBVIOUS
  <2> HIDE DEF s, owe, ends, left
  <2> QED BY <1>2, <2>1, <2>2 DEF SockType
<1>6. CASE Network(fd, whole)
  <2>1. /\ whole \in SockType /\ whole.st = "up"
        /\ whole.rx = s.rx \o <<"b", kind>> /\ whole.fin = s.fin
    <3> HIDE DEF s, left
    <3> QED BY <1>1, <1>4, <1>5 DEF SockType
  <2> HIDE DEF whole
  <2> QED BY <1>1, <1>3, <1>6, <2>1, MoreRead
<1>7. CASE Network(fd, first)
  <2>1. /\ first \in SockType /\ first.st = "up"
        /\ first.rx = s.rx \o <<"b">> /\ first.fin = s.fin
    <3> HIDE DEF s, left
    <3> QED BY <1>1, <1>3, <1>4, <1>5 DEF SockType
  <2> HIDE DEF first
  <2> QED BY <1>1, <1>3, <1>7, <2>1, MoreRead
<1> QED BY <1>1, <1>6, <1>7

LEMMA DeliverStep ==
  ASSUME LoopInv, NEW fd \in Fds, Deliver(fd)
  PROVE  LoopInv'
<1> DEFINE s == g.sock[fd]
           v == [s EXCEPT !.rx = @ \o s.todo, !.todo = <<>>]
<1>1. s.st = "up" /\ Network(fd, v)
  BY DEF Deliver
<1>2. s \in SockType /\ s.rx \in Seq(Bytes) /\ s.todo \in Seq(Bytes)
  BY SocketOf
<1>3. s.rx \o s.todo \in Seq(Bytes) /\ <<>> \in Seq(Bytes)
  BY <1>2
<1>4. v \in SockType /\ v.st = "up" /\ v.rx = s.rx \o s.todo /\ v.fin = s.fin
  <2> HIDE DEF s
  <2> QED BY <1>1, <1>2, <1>3 DEF SockType
<1> HIDE DEF v
<1> QED BY <1>1, <1>2, <1>4, MoreRead

LEMMA FinishStep ==
  ASSUME LoopInv, NEW fd \in Fds, Finish(fd)
  PROVE  LoopInv'
<1> DEFINE s == g.sock[fd]
           v == [s EXCEPT !.fin = TRUE]
<1>1. s.st = "up" /\ Network(fd, v) /\ s \in SockType
  BY SocketOf DEF Finish
<1> HIDE DEF s
<1>2. v \in SockType /\ v.st = "up" /\ v.fin
  BY <1>1 DEF SockType
<1> HIDE DEF v
<1>3. Lasting(s, v)
  BY <1>1, <1>2 DEF Lasting, HasData
<1> QED BY <1>1, <1>3, NetworkStep DEF s

LEMMA FailStep ==
  ASSUME LoopInv, NEW fd \in Fds, Fail(fd)
  PROVE  LoopInv'
<1> DEFINE s == g.sock[fd]
           v == [Closed EXCEPT !.st = "failed"]
<1>1. s.st \in {"connecting", "up"} /\ Network(fd, v)
  BY DEF Fail
<1>2. v \in SockType /\ v.st = "failed"
  <2>1. <<>> \in Seq(Bytes)
    OBVIOUS
  <2>2. Closed \in SockType
    BY <2>1 DEF SockType, Closed
  <2> QED BY <2>2 DEF SockType
<1> HIDE DEF v
<1>3. Lasting(s, v)
  BY <1>1, <1>2 DEF Lasting, HasData
<1> QED BY <1>1, <1>3, NetworkStep

LEMMA HangupStep ==
  ASSUME LoopInv, NEW fd \in Fds, Hangup(fd)
  PROVE  LoopInv'
<1> DEFINE s == g.sock[fd]
           v == [s EXCEPT !.fin = TRUE, !.owe = 0, !.todo = <<>>]
<1>1. /\ s.st = "up" /\ Network(fd, v) /\ s \in SockType
      /\ <<>> \in Seq(Bytes) /\ 0 \in Int
  BY SocketOf DEF Hangup
<1> HIDE DEF s
<1>2. v \in SockType /\ v.st = "up" /\ v.fin
  BY <1>1 DEF SockType
<1> HIDE DEF v
<1>3. Lasting(s, v)
  BY <1>1, <1>2 DEF Lasting, HasData
<1> QED BY <1>1, <1>3, NetworkStep DEF s

LEMMA GarbleStep ==
  ASSUME LoopInv, NEW fd \in Fds, Garble(fd)
  PROVE  LoopInv'
<1> DEFINE s == g.sock[fd]
           v == [s EXCEPT !.rx = @ \o <<"x">>, !.owe = 0, !.ends = TRUE]
<1>1. s.st = "up" /\ Network(fd, v) /\ 0 \in Int
  BY DEF Garble
<1>2. s \in SockType /\ s.rx \in Seq(Bytes) /\ <<"x">> \in Seq(Bytes)
  BY SocketOf DEF Bytes
<1>3. s.rx \o <<"x">> \in Seq(Bytes)
  BY <1>2
<1>4. v \in SockType /\ v.st = "up" /\ v.rx = s.rx \o <<"x">> /\ v.fin = s.fin
  <2> DEFINE rx == s.rx \o <<"x">>
  <2>1. v = [s EXCEPT !.rx = rx, !.owe = 0, !.ends = TRUE] /\ rx \in Seq(Bytes)
    BY <1>3
  <2>2. rx = s.rx \o <<"x">>
    OBVIOUS
  <2> HIDE DEF s, v, rx
  <2> QED BY <1>1, <1>2, <2>1, <2>2 DEF SockType
<1> HIDE DEF v
<1> QED BY <1>1, <1>2, <1>4, MoreRead
-----------------------------------------------------------------------------
LEMMA LoopNext ==
  ASSUME NoTimerLost, LoopInv, [Next]_vars
  PROVE  LoopInv'
<1>1. CASE Make
  BY <1>1, MakeStep
<1>2. CASE Enter
  BY <1>2, EnterStep
<1>3. CASE Poll
  BY <1>3, PollStep
<1>4. CASE DispatchReadable
  BY <1>4, ReadableStep
<1>5. CASE ReadMore
  BY <1>5, MoreStep
<1>6. CASE DispatchWritable
  BY <1>6, WritableStep
<1>7. CASE TimeEvents
  BY <1>7, TimeStep
<1>8. CASE Outside
  <2> SUFFICES ASSUME NEW fd \in Fds,
                      \/ Establish(fd) \/ Deliver(fd) \/ Finish(fd)
                      \/ Fail(fd) \/ Hangup(fd) \/ Garble(fd)
                      \/ \E kind \in {"k", "c", "z"} : Answer(fd, kind)
               PROVE  LoopInv'
    BY <1>8 DEF Outside
  <2> QED BY EstablishStep, DeliverStep, FinishStep, FailStep, HangupStep, GarbleStep,
             AnswerStep
<1>9. CASE UNCHANGED vars
  BY <1>9 DEF vars, LoopInv, Phases, Queue, Half, ConnectedTrue, ReadsHaveData
<1> QED BY <1>1, <1>2, <1>3, <1>4, <1>5, <1>6, <1>7, <1>8, <1>9 DEF Next, Loop

(* The inductive invariant: at every step of a thread of wrk the event     *)
(* loop, epoll, the sockets and the connections agree, and every event     *)
(* still to be dispatched is one its callbacks can be called for, whatever *)
(* the callbacks before it have done (ae.c:361-425, wrk.c:236-448).        *)
THEOREM LoopInvariant ==
  ASSUME NoTimerLost
  PROVE  Spec => []LoopInv
<1>1. Init => LoopInv
  BY LoopInit
<1>2. LoopInv /\ [Next]_vars => LoopInv'
  BY LoopNext
<1> QED BY <1>1, <1>2, PTL DEF Spec

(* The masks of the loop are those epoll has, on open sockets only, and    *)
(* maxfd is the highest descriptor watched: aeDeleteFileEvent finds it     *)
(* again from above (ae.c:134-170), aeApiAddEvent chooses rightly between  *)
(* EPOLL_CTL_ADD and EPOLL_CTL_MOD (ae_epoll.c:75-105).                    *)
THEOREM LoopExactSafe ==
  ASSUME NoTimerLost
  PROVE  Spec => []LoopExact
<1>1. LoopInv => LoopExact
  <2> SUFFICES ASSUME LoopInv PROVE LoopExact
    OBVIOUS
  <2>1. Watched(g) /\ Topped(g)
    BY DEF LoopInv, Fine, Sane
  <2>2. g.maxfd = Max({-1} \cup Watching(g))
    <3>1. Watching(g) \subseteq Fds /\ IsTop(g.maxfd, Watching(g))
      BY <2>1 DEF Watching, Topped
    <3> QED BY <3>1, TopIs
  <2> QED BY <2>1, <2>2 DEF LoopExact, Watched, Watching
<1> QED BY <1>1, LoopInvariant, PTL

(* Every connection has one socket and every open socket one connection,   *)
(* whichever path of wrk.c replaced it: connect_socket, reconnect_socket   *)
(* and the callbacks neither leak nor share one (wrk.c:236-271, 351-353,   *)
(* 445-447).                                                               *)
THEOREM OneSocketSafe ==
  ASSUME NoTimerLost
  PROVE  Spec => []OneSocket
<1>1. LoopInv => OneSocket
  <2> SUFFICES ASSUME LoopInv PROVE OneSocket
    OBVIOUS
  <2>1. Owned(Live, g)
    BY DEF LoopInv, Fine, Sane, Live
  <2>2. \A fd \in Fds : g.sock[fd].st # "closed" =>
          \E c \in Live : g.conn[c].fd = fd
    BY <2>1 DEF Owned
  <2>3. ASSUME NEW c \in Live
        PROVE  /\ g.conn[c].fd \in Fds /\ g.sock[g.conn[c].fd].st # "closed"
               /\ g.events[g.conn[c].fd].data = c /\ R \in g.events[g.conn[c].fd].mask
    BY <2>1 DEF Owned
  <2>4. {fd \in Fds : g.sock[fd].st # "closed"} = {g.conn[c].fd : c \in Live}
    BY <2>2, <2>3
  <2>5. \A c \in Live : \A d \in Live \ {c} : g.conn[d].fd # g.conn[c].fd
    BY <2>3
  <2> QED BY <2>3, <2>4, <2>5 DEF OneSocket, Event
<1> QED BY <1>1, LoopInvariant, PTL

(* socket_connected is never called for a socket that is not connected     *)
(* yet: aeProcessEvents looks at the mask again and does not call the      *)
(* callback of both halves twice (ae.c:407-419).                           *)
THEOREM ConnectedTrueSafe ==
  ASSUME NoTimerLost
  PROVE  Spec => []ConnectedTrue
<1>1. LoopInv => ConnectedTrue
  BY DEF LoopInv
<1> QED BY <1>1, LoopInvariant, PTL

(* socket_readable never reads where there is nothing, be it called by the *)
(* loop or gone round again after a full buffer: sock_read would take      *)
(* EAGAIN for an error and replace the connection (wrk.c:422-448,          *)
(* net.c:17-21).                                                           *)
THEOREM ReadsHaveDataSafe ==
  ASSUME NoTimerLost
  PROVE  Spec => []ReadsHaveData
<1>1. LoopInv => ReadsHaveData
  BY DEF LoopInv
<1> QED BY <1>1, LoopInvariant, PTL
=============================================================================
