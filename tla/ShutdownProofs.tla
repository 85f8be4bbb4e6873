--------------------------- MODULE ShutdownProofs ---------------------------
(***************************************************************************)
(* Proofs about Shutdown, for any number of sessions and any of the modes. *)
(*                                                                         *)
(* What main has still to do is a list, so the inductive invariant speaks  *)
(* of the order of the operations in it (Listed), of what is still in it   *)
(* (Pending), and of the threads of the servers (ThreadsHeld).             *)
(***************************************************************************)
EXTENDS Shutdown, SequenceTheorems, TLAPS

Names == {"database", "task", "commands", "mock", "http"}
Step == Operation \X Names

(* No server is started after anything else.                               *)
StartsFirst(q) ==
    \A i, j \in 1..Len(q) : j <= i /\ q[i][1] = "start" => q[j][1] = "start"

(* A server is destroyed after it has been stopped.                        *)
StopsBefore(q, over) ==
    \A s \in Servers : \A i \in 1..Len(q) :
        q[i] = <<"release", s>> => s \in over \/ \E j \in 1..(i - 1) : q[j] = <<"stop", s>>

(* Between the last command, or the end of CommandProcessor, and the end   *)
(* of DataTask the collections are stopped.                                *)
StopsAllBetween(q) ==
    \A i, k \in 1..Len(q) :
        (q[i] = <<"release", "task">> /\ (q[k][1] = "wait" \/ q[k] = <<"release", "commands">>))
            => \E j \in (k + 1)..(i - 1) : q[j] = <<"stopAll", "task">>

StillReleased(q, o) == \E k \in 1..Len(q) : q[k] = <<"release", o>>

StillStopsAll(q) ==
    \A i \in 1..Len(q) :
        q[i] = <<"release", "task">> => \E j \in 1..(i - 1) : q[j] = <<"stopAll", "task">>

----------------------------------------------------------------------------
(* The lists *)

LEMMA ObjectNames == {Objects[i] : i \in DOMAIN Objects} = Names
  BY DEF Objects, Names

(* To show that two lists in a row are a third one.                        *)
LEMMA EqualByParts ==
  ASSUME NEW X, NEW p \in Seq(X), NEW q \in Seq(X), NEW r \in Seq(X),
         Len(r) = Len(p) + Len(q),
         \A i \in 1..Len(p) : r[i] = p[i],
         \A i \in 1..Len(q) : r[Len(p) + i] = q[i]
  PROVE  p \o q = r
  <1>1. p \o q \in Seq(X) /\ Len(p \o q) = Len(r)
    OBVIOUS
  <1>2. \A i \in 1..Len(r) : (p \o q)[i] = r[i]
    OBVIOUS
  <1> QED BY <1>1, <1>2, SeqEqual

(* Unwind and Script, written out                                          *)
LEMMA UnwindWithoutHttp ==
  /\ Unwind(FALSE) \in Seq(Step)
  /\ Unwind(FALSE) =
      << <<"stop", "mock">>, <<"release", "mock">>,
         <<"release", "commands">>, <<"stopAll", "task">>,
         <<"release", "task">>, <<"release", "database">> >>
  <1> DEFINE r == << <<"stop", "mock">>, <<"release", "mock">>, <<"release", "commands">>,
                     <<"stopAll", "task">>, <<"release", "task">>, <<"release", "database">> >>
  <1>1. r \in Seq(Step)
    BY DEF Step, Operation, Names
  <1>2. Unwind(FALSE) = r
    BY DEF Unwind
  <1> QED BY <1>1, <1>2

LEMMA UnwindWithHttp ==
  /\ Unwind(TRUE) \in Seq(Step)
  /\ Unwind(TRUE) =
      << <<"stop", "http">>, <<"release", "http">>,
         <<"stop", "mock">>, <<"release", "mock">>,
         <<"release", "commands">>, <<"stopAll", "task">>,
         <<"release", "task">>, <<"release", "database">> >>
  <1> DEFINE p == << <<"stop", "http">>, <<"release", "http">> >>
             q == << <<"stop", "mock">>, <<"release", "mock">>,
                     <<"release", "commands">>, <<"stopAll", "task">>,
                     <<"release", "task">>, <<"release", "database">> >>
             r == << <<"stop", "http">>, <<"release", "http">>,
                     <<"stop", "mock">>, <<"release", "mock">>,
                     <<"release", "commands">>, <<"stopAll", "task">>,
                     <<"release", "task">>, <<"release", "database">> >>
  <1>1. p \in Seq(Step) /\ q \in Seq(Step) /\ r \in Seq(Step)
    BY DEF Step, Operation, Names
  <1>2. Len(r) = Len(p) + Len(q)
    OBVIOUS
  <1>3. \A i \in 1..Len(p) : r[i] = p[i]
    OBVIOUS
  <1>4. \A i \in 1..Len(q) : r[Len(p) + i] = q[i]
    OBVIOUS
  <1>5. Unwind(TRUE) = p \o q
    BY DEF Unwind
  <1> HIDE DEF p, q, r
  <1>6. p \o q = r
    BY <1>1, <1>2, <1>3, <1>4, EqualByParts
  <1> QED BY <1>1, <1>5, <1>6 DEF r

LEMMA ConsoleScript ==
  ASSUME NEW m \in {"console", "command"}
  PROVE  /\ Script(m) \in Seq(Step)
         /\ Script(m) =
             << <<"start", "mock">>, <<"wait", "task">>,
                <<"stopAll", "task">>, <<"stop", "mock">>,
                <<"stop", "mock">>, <<"release", "mock">>,
                <<"release", "commands">>, <<"stopAll", "task">>,
                <<"release", "task">>, <<"release", "database">> >>
  <1> DEFINE p == << <<"start", "mock">>, <<"wait", "task">>,
                   <<"stopAll", "task">>, <<"stop", "mock">> >>
             q == << <<"stop", "mock">>, <<"release", "mock">>,
                     <<"release", "commands">>, <<"stopAll", "task">>,
                     <<"release", "task">>, <<"release", "database">> >>
             r == << <<"start", "mock">>, <<"wait", "task">>,
                     <<"stopAll", "task">>, <<"stop", "mock">>,
                     <<"stop", "mock">>, <<"release", "mock">>,
                     <<"release", "commands">>, <<"stopAll", "task">>,
                     <<"release", "task">>, <<"release", "database">> >>
  <1>1. p \in Seq(Step) /\ q \in Seq(Step) /\ r \in Seq(Step)
    BY DEF Step, Operation, Names
  <1>2. Len(r) = Len(p) + Len(q)
    OBVIOUS
  <1>3. \A i \in 1..Len(p) : r[i] = p[i]
    OBVIOUS
  <1>4. \A i \in 1..Len(q) : r[Len(p) + i] = q[i]
    OBVIOUS
  <1>5. Script(m) = p \o q
    BY UnwindWithoutHttp DEF Script
  <1> HIDE DEF p, q, r
  <1>6. p \o q = r
    BY <1>1, <1>2, <1>3, <1>4, EqualByParts
  <1> QED BY <1>1, <1>5, <1>6 DEF r

LEMMA OneshotScript ==
  /\ Script("oneshot") \in Seq(Step)
  /\ Script("oneshot") =
      << <<"stop", "mock">>, <<"stop", "mock">>,
         <<"release", "mock">>, <<"release", "commands">>,
         <<"stopAll", "task">>, <<"release", "task">>,
         <<"release", "database">> >>
  <1> DEFINE p == << <<"stop", "mock">> >>
             q == << <<"stop", "mock">>, <<"release", "mock">>,
                     <<"release", "commands">>, <<"stopAll", "task">>,
                     <<"release", "task">>, <<"release", "database">> >>
             r == << <<"stop", "mock">>, <<"stop", "mock">>,
                     <<"release", "mock">>, <<"release", "commands">>,
                     <<"stopAll", "task">>, <<"release", "task">>,
                     <<"release", "database">> >>
  <1>1. p \in Seq(Step) /\ q \in Seq(Step) /\ r \in Seq(Step)
    BY DEF Step, Operation, Names
  <1>2. Len(r) = Len(p) + Len(q)
    OBVIOUS
  <1>3. \A i \in 1..Len(p) : r[i] = p[i]
    OBVIOUS
  <1>4. \A i \in 1..Len(q) : r[Len(p) + i] = q[i]
    OBVIOUS
  <1>5. Script("oneshot") = p \o q
    BY UnwindWithoutHttp DEF Script
  <1> HIDE DEF p, q, r
  <1>6. p \o q = r
    BY <1>1, <1>2, <1>3, <1>4, EqualByParts
  <1> QED BY <1>1, <1>5, <1>6 DEF r

LEMMA HttpScript ==
  /\ Script("http") \in Seq(Step)
  /\ Script("http") =
      << <<"start", "mock">>, <<"start", "http">>,
         <<"wait", "task">>, <<"stopAll", "task">>,
         <<"stop", "http">>, <<"stop", "mock">>, <<"stop", "http">>,
         <<"release", "http">>, <<"stop", "mock">>,
         <<"release", "mock">>, <<"release", "commands">>,
         <<"stopAll", "task">>, <<"release", "task">>,
         <<"release", "database">> >>
  <1> DEFINE p == << <<"start", "mock">>, <<"start", "http">>,
                   <<"wait", "task">>, <<"stopAll", "task">>,
                   <<"stop", "http">>, <<"stop", "mock">> >>
             q == << <<"stop", "http">>, <<"release", "http">>,
                     <<"stop", "mock">>, <<"release", "mock">>,
                     <<"release", "commands">>, <<"stopAll", "task">>,
                     <<"release", "task">>, <<"release", "database">> >>
             r == << <<"start", "mock">>, <<"start", "http">>,
                     <<"wait", "task">>, <<"stopAll", "task">>,
                     <<"stop", "http">>, <<"stop", "mock">>, <<"stop", "http">>,
                     <<"release", "http">>, <<"stop", "mock">>,
                     <<"release", "mock">>, <<"release", "commands">>,
                     <<"stopAll", "task">>, <<"release", "task">>,
                     <<"release", "database">> >>
  <1>1. p \in Seq(Step) /\ q \in Seq(Step) /\ r \in Seq(Step)
    BY DEF Step, Operation, Names
  <1>2. Len(r) = Len(p) + Len(q)
    OBVIOUS
  <1>3. \A i \in 1..Len(p) : r[i] = p[i]
    OBVIOUS
  <1>4. \A i \in 1..Len(q) : r[Len(p) + i] = q[i]
    OBVIOUS
  <1>5. Script("http") = p \o q
    BY UnwindWithHttp DEF Script
  <1> HIDE DEF p, q, r
  <1>6. p \o q = r
    BY <1>1, <1>2, <1>3, <1>4, EqualByParts
  <1> QED BY <1>1, <1>5, <1>6 DEF r

(* The destructors, and the statements of every mode, are in order.        *)
LEMMA UnwindIsOrderly ==
  ASSUME NEW q, q \in {Unwind(TRUE), Unwind(FALSE)}
  PROVE  /\ q \in Seq(Step) /\ StartsFirst(q) /\ StopsBefore(q, {}) /\ StopsAllBetween(q)
         /\ StillStopsAll(q) /\ StillReleased(q, "commands")
         /\ \A i \in 1..Len(q) : q[i][1] # "start"
  <1>1. CASE q = Unwind(TRUE)
    <2>0. /\ q \in Seq(Step)
          /\ q = << <<"stop", "http">>, <<"release", "http">>,
               <<"stop", "mock">>, <<"release", "mock">>,
               <<"release", "commands">>, <<"stopAll", "task">>,
               <<"release", "task">>, <<"release", "database">> >>
      BY <1>1, UnwindWithHttp, Zenon
    <2>1. /\ q \in Seq(Step) /\ Len(q) = 8
          /\ q[1] = <<"stop", "http">> /\ q[2] = <<"release", "http">>
          /\ q[3] = <<"stop", "mock">> /\ q[4] = <<"release", "mock">>
          /\ q[5] = <<"release", "commands">> /\ q[6] = <<"stopAll", "task">>
          /\ q[7] = <<"release", "task">> /\ q[8] = <<"release", "database">>
      BY <2>0
    <2>2. StartsFirst(q)
      BY <2>1 DEF StartsFirst
    <2>3. StopsBefore(q, {})
      BY <2>1 DEF StopsBefore, Servers
    <2>4. StopsAllBetween(q)
      BY <2>1 DEF StopsAllBetween
    <2>5. StillStopsAll(q)
      BY <2>1 DEF StillStopsAll
    <2>6. StillReleased(q, "commands")
      BY <2>1 DEF StillReleased
    <2>7. \A i \in 1..Len(q) : q[i][1] # "start"
      BY <2>1
    <2> QED BY <2>1, <2>2, <2>3, <2>4, <2>5, <2>6, <2>7
  <1>2. CASE q = Unwind(FALSE)
    <2>0. /\ q \in Seq(Step)
          /\ q = << <<"stop", "mock">>, <<"release", "mock">>,
               <<"release", "commands">>, <<"stopAll", "task">>,
               <<"release", "task">>, <<"release", "database">> >>
      BY <1>2, UnwindWithoutHttp, Zenon
    <2>1. /\ q \in Seq(Step) /\ Len(q) = 6
          /\ q[1] = <<"stop", "mock">> /\ q[2] = <<"release", "mock">>
          /\ q[3] = <<"release", "commands">> /\ q[4] = <<"stopAll", "task">>
          /\ q[5] = <<"release", "task">> /\ q[6] = <<"release", "database">>
      BY <2>0
    <2>2. StartsFirst(q)
      BY <2>1 DEF StartsFirst
    <2>3. StopsBefore(q, {})
      BY <2>1 DEF StopsBefore, Servers
    <2>4. StopsAllBetween(q)
      BY <2>1 DEF StopsAllBetween
    <2>5. StillStopsAll(q)
      BY <2>1 DEF StillStopsAll
    <2>6. StillReleased(q, "commands")
      BY <2>1 DEF StillReleased
    <2>7. \A i \in 1..Len(q) : q[i][1] # "start"
      BY <2>1
    <2> QED BY <2>1, <2>2, <2>3, <2>4, <2>5, <2>6, <2>7
  <1> QED BY <1>1, <1>2

LEMMA ScriptIsOrderly ==
  ASSUME NEW m \in Modes, NEW q, q = Script(m)
  PROVE  /\ q \in Seq(Step) /\ StartsFirst(q) /\ StopsBefore(q, {}) /\ StopsAllBetween(q)
         /\ StillStopsAll(q) /\ StillReleased(q, "commands")
  <1>1. CASE m \in {"console", "command"}
    <2>1. /\ q \in Seq(Step) /\ Len(q) = 10
          /\ q[1] = <<"start", "mock">> /\ q[2] = <<"wait", "task">>
          /\ q[3] = <<"stopAll", "task">> /\ q[4] = <<"stop", "mock">>
          /\ q[5] = <<"stop", "mock">> /\ q[6] = <<"release", "mock">>
          /\ q[7] = <<"release", "commands">> /\ q[8] = <<"stopAll", "task">>
          /\ q[9] = <<"release", "task">> /\ q[10] = <<"release", "database">>
      BY <1>1, ConsoleScript
    <2>2. StartsFirst(q)
      BY <2>1 DEF StartsFirst
    <2>3. StopsBefore(q, {})
      BY <2>1 DEF StopsBefore, Servers
    <2>4. StopsAllBetween(q)
      BY <2>1 DEF StopsAllBetween
    <2>5. StillStopsAll(q)
      BY <2>1 DEF StillStopsAll
    <2>6. StillReleased(q, "commands")
      BY <2>1 DEF StillReleased
    <2> QED BY <2>1, <2>2, <2>3, <2>4, <2>5, <2>6
  <1>2. CASE m = "oneshot"
    <2>1. /\ q \in Seq(Step) /\ Len(q) = 7
          /\ q[1] = <<"stop", "mock">> /\ q[2] = <<"stop", "mock">>
          /\ q[3] = <<"release", "mock">> /\ q[4] = <<"release", "commands">>
          /\ q[5] = <<"stopAll", "task">> /\ q[6] = <<"release", "task">>
          /\ q[7] = <<"release", "database">>
      BY <1>2, OneshotScript
    <2>2. StartsFirst(q)
      BY <2>1 DEF StartsFirst
    <2>3. StopsBefore(q, {})
      BY <2>1 DEF StopsBefore, Servers
    <2>4. StopsAllBetween(q)
      BY <2>1 DEF StopsAllBetween
    <2>5. StillStopsAll(q)
      BY <2>1 DEF StillStopsAll
    <2>6. StillReleased(q, "commands")
      BY <2>1 DEF StillReleased
    <2> QED BY <2>1, <2>2, <2>3, <2>4, <2>5, <2>6
  <1>3. CASE m = "http"
    <2>1. /\ q \in Seq(Step) /\ Len(q) = 14
          /\ q[1] = <<"start", "mock">> /\ q[2] = <<"start", "http">>
          /\ q[3] = <<"wait", "task">> /\ q[4] = <<"stopAll", "task">>
          /\ q[5] = <<"stop", "http">> /\ q[6] = <<"stop", "mock">>
          /\ q[7] = <<"stop", "http">> /\ q[8] = <<"release", "http">>
          /\ q[9] = <<"stop", "mock">> /\ q[10] = <<"release", "mock">>
          /\ q[11] = <<"release", "commands">> /\ q[12] = <<"stopAll", "task">>
          /\ q[13] = <<"release", "task">> /\ q[14] = <<"release", "database">>
      BY <1>3, HttpScript
    <2>2. StartsFirst(q)
      BY <2>1 DEF StartsFirst
    <2>3. StopsBefore(q, {})
      BY <2>1 DEF StopsBefore, Servers
    <2>4. StopsAllBetween(q)
      BY <2>1 DEF StopsAllBetween
    <2>5. StillStopsAll(q)
      BY <2>1 DEF StillStopsAll
    <2>6. StillReleased(q, "commands")
      BY <2>1 DEF StillReleased
    <2> QED BY <2>1, <2>2, <2>3, <2>4, <2>5, <2>6
  <1> QED BY <1>1, <1>2, <1>3, ModesAssumption

(* What an operation that is done leaves in the list                       *)
LEMMA Popped ==
  ASSUME NEW q \in Seq(Step), q # << >>
  PROVE  /\ Tail(q) \in Seq(Step)
         /\ Len(Tail(q)) = Len(q) - 1
         /\ \A i \in 1..(Len(q) - 1) : Tail(q)[i] = q[i + 1]
         /\ Len(q) \in Nat /\ Len(q) >= 1 /\ Head(q) = q[1]
         /\ Head(q) \in Step
  OBVIOUS

LEMMA PoppedOrder ==
  ASSUME NEW q \in Seq(Step), q # << >>
  PROVE  /\ StartsFirst(q) => StartsFirst(Tail(q))
         /\ StopsAllBetween(q) => StopsAllBetween(Tail(q))
  <1> DEFINE r == Tail(q)
  <1>1. Len(r) = Len(q) - 1 /\ \A i \in 1..Len(r) : r[i] = q[i + 1]
    BY Popped
  <1>2. Len(q) \in Nat /\ Len(q) >= 1
    BY Popped
  <1> HIDE DEF r
  <1>3. ASSUME StartsFirst(q) PROVE StartsFirst(r)
    <2> SUFFICES ASSUME NEW i \in 1..Len(r), NEW j \in 1..Len(r), j <= i, r[i][1] = "start"
                 PROVE  r[j][1] = "start"
      BY DEF StartsFirst
    <2>1. i + 1 \in 1..Len(q) /\ j + 1 \in 1..Len(q) /\ j + 1 <= i + 1
      BY <1>1, <1>2
    <2>2. q[j + 1][1] = "start"
      BY <1>1, <1>3, <2>1 DEF StartsFirst
    <2> QED BY <1>1, <2>2
  <1>4. ASSUME StopsAllBetween(q) PROVE StopsAllBetween(r)
    <2> SUFFICES ASSUME NEW i \in 1..Len(r), NEW k \in 1..Len(r), r[i] = <<"release", "task">>,
                        r[k][1] = "wait" \/ r[k] = <<"release", "commands">>
                 PROVE  \E j \in (k + 1)..(i - 1) : r[j] = <<"stopAll", "task">>
      BY DEF StopsAllBetween
    <2>1. i + 1 \in 1..Len(q) /\ k + 1 \in 1..Len(q)
      BY <1>1, <1>2
    <2>2. PICK j \in ((k + 1) + 1)..((i + 1) - 1) : q[j] = <<"stopAll", "task">>
      BY <1>1, <1>4, <2>1 DEF StopsAllBetween
    <2>3. j - 1 \in (k + 1)..(i - 1) /\ j - 1 \in 1..Len(r) /\ (j - 1) + 1 = j
      BY <1>2, <1>1
    <2>4. r[j - 1] = <<"stopAll", "task">>
      BY <1>1, <2>2, <2>3
    <2> QED BY <2>3, <2>4
  <1> QED BY <1>3, <1>4 DEF r

LEMMA PoppedStops ==
  ASSUME NEW q \in Seq(Step), q # << >>, NEW over, NEW more, over \subseteq more,
         StopsBefore(q, over),
         \A s \in Servers : Head(q) = <<"stop", s>> => s \in more
  PROVE  StopsBefore(Tail(q), more)
  <1> DEFINE r == Tail(q)
  <1>1. Len(r) = Len(q) - 1 /\ \A i \in 1..Len(r) : r[i] = q[i + 1]
    BY Popped
  <1>2. Len(q) \in Nat /\ Len(q) >= 1 /\ Head(q) = q[1]
    BY Popped
  <1> HIDE DEF r
  <1> SUFFICES ASSUME NEW s \in Servers, NEW i \in 1..Len(r), r[i] = <<"release", s>>, s \notin more
               PROVE  \E j \in 1..(i - 1) : r[j] = <<"stop", s>>
    BY DEF StopsBefore, r
  <1>3. i + 1 \in 1..Len(q) /\ q[i + 1] = <<"release", s>> /\ s \notin over
    BY <1>1, <1>2
  <1>4. PICK j \in 1..((i + 1) - 1) : q[j] = <<"stop", s>>
    BY <1>3 DEF StopsBefore
  <1>5. j # 1
    BY <1>2, <1>4
  <1>6. j - 1 \in 1..(i - 1) /\ j - 1 \in 1..Len(r) /\ (j - 1) + 1 = j
    BY <1>1, <1>2, <1>5
  <1>7. r[j - 1] = <<"stop", s>>
    BY <1>1, <1>4, <1>6
  <1> QED BY <1>6, <1>7

LEMMA PoppedPending ==
  ASSUME NEW q \in Seq(Step), q # << >>
  PROVE  /\ \A o : StillReleased(q, o) /\ Head(q) # <<"release", o>> => StillReleased(Tail(q), o)
         /\ StillStopsAll(q) /\ Head(q) # <<"stopAll", "task">> => StillStopsAll(Tail(q))
  <1> DEFINE r == Tail(q)
  <1>1. Len(r) = Len(q) - 1 /\ \A i \in 1..Len(r) : r[i] = q[i + 1]
    BY Popped
  <1>2. Len(q) \in Nat /\ Len(q) >= 1 /\ Head(q) = q[1]
    BY Popped
  <1> HIDE DEF r
  <1>3. ASSUME NEW o, StillReleased(q, o), Head(q) # <<"release", o>>
        PROVE  StillReleased(r, o)
    <2>1. PICK k \in 1..Len(q) : q[k] = <<"release", o>>
      BY <1>3 DEF StillReleased
    <2>2. k # 1
      BY <1>2, <1>3, <2>1
    <2>3. k - 1 \in 1..Len(r) /\ (k - 1) + 1 = k
      BY <1>1, <1>2, <2>2
    <2>4. r[k - 1] = <<"release", o>>
      BY <1>1, <2>1, <2>3
    <2> QED BY <2>3, <2>4 DEF StillReleased
  <1>4. ASSUME StillStopsAll(q), Head(q) # <<"stopAll", "task">>
        PROVE  StillStopsAll(r)
    <2> SUFFICES ASSUME NEW i \in 1..Len(r), r[i] = <<"release", "task">>
                 PROVE  \E j \in 1..(i - 1) : r[j] = <<"stopAll", "task">>
      BY DEF StillStopsAll
    <2>1. i + 1 \in 1..Len(q) /\ q[i + 1] = <<"release", "task">>
      BY <1>1, <1>2
    <2>2. PICK j \in 1..((i + 1) - 1) : q[j] = <<"stopAll", "task">>
      BY <1>4, <2>1 DEF StillStopsAll
    <2>3. j # 1
      BY <1>2, <1>4, <2>2
    <2>4. j - 1 \in 1..(i - 1) /\ j - 1 \in 1..Len(r) /\ (j - 1) + 1 = j
      BY <1>1, <1>2, <2>3
    <2>5. r[j - 1] = <<"stopAll", "task">>
      BY <1>1, <2>2, <2>4
    <2> QED BY <2>4, <2>5
  <1> QED BY <1>3, <1>4 DEF r

----------------------------------------------------------------------------
(* The invariant *)

Listed ==
    /\ StartsFirst(todo)
    /\ StopsAllBetween(todo)
    /\ StopsBefore(todo, stopped)
    /\ \A s \in Servers : \A i \in 1..Len(todo) : todo[i] = <<"start", s>> => s \notin stopped
    /\ joining # "none" => todo # << >> /\ Head(todo) = <<"stop", joining>>

(* A thread in run, and a joinable serverThread_, is one that stop will    *)
(* join, that stop is joining, or that has failed.                         *)
ThreadsHeld ==
    /\ \A s \in Servers :
           run[s] \in {"open", "test", "accept"} => s \in joinable /\ (running[s] \/ joining = s)
    /\ \A s \in joinable : running[s] \/ joining = s \/ s \in failed
    /\ \A s \in stopped : run[s] \in {"none", "returned"} /\ (s \in joinable => s \in failed)

(* Whoever can still start a collection does so before DataTask stops all  *)
(* of them for the last time.                                              *)
Pending ==
    /\ "commands" \in alive => StillReleased(todo, "commands")
    /\ collecting /\ late = {} => StillStopsAll(todo)

IInv == TypeOK /\ Listed /\ ThreadsHeld /\ Pending /\ TerminatesForAReason

LEMMA TodoIsTyped == TypeOK => todo \in Seq(Step)
  BY ObjectNames DEF TypeOK, Step

LEMMA InitInvariant == Init => IInv
  <1> SUFFICES ASSUME Init PROVE IInv
    OBVIOUS
  <1>1. /\ todo \in Seq(Step) /\ StartsFirst(todo) /\ StopsBefore(todo, {})
        /\ StopsAllBetween(todo) /\ StillStopsAll(todo) /\ StillReleased(todo, "commands")
    BY ScriptIsOrderly DEF Init
  <1>2. TypeOK
    BY <1>1, ObjectNames DEF Init, TypeOK, Servers, Step
  <1>3. Listed
    BY <1>1 DEF Init, Listed
  <1>4. ThreadsHeld /\ Pending /\ TerminatesForAReason
    BY <1>1 DEF Init, ThreadsHeld, Pending, TerminatesForAReason
  <1> QED BY <1>2, <1>3, <1>4 DEF IInv

(* How a step changes the list: not at all, by its head, or to the         *)
(* destructors.                                                            *)
TodoStep ==
    \/ todo' = todo
    \/ todo # << >> /\ todo' = Tail(todo)
    \/ todo' \in {Unwind(TRUE), Unwind(FALSE)}

LEMMA TodoSteps ==
  ASSUME Listed, [Next]_vars
  PROVE  TodoStep
  <1>1. ASSUME NEW s \in Servers, StartFails(s)
        PROVE  TodoStep
    BY <1>1
    DEF TodoStep, StartFails
  <1>2. ASSUME NEW s \in Servers, Start(s) \/ StopEarly(s)
        PROVE  TodoStep
    BY <1>2
    DEF TodoStep, Start, StopEarly, At
  <1>3. ASSUME NEW s \in Servers, Join(s)
        PROVE  TodoStep
    BY <1>3
    DEF TodoStep, Join, Listed, Servers
  <1>4. ASSUME NEW s \in Servers, Stop(s) \/ StopMeetsOpen(s) \/ RunOpens(s) \/ RunFails(s)
        PROVE  TodoStep
    BY <1>4
    DEF TodoStep, Stop, StopMeetsOpen, RunOpens, RunFails, threadVars
  <1>5. ASSUME NEW s \in Servers, RunTest(s) \/ RunAcceptsNone(s) \/ RunAccepts(s)
        PROVE  TodoStep
    BY <1>5
    DEF TodoStep, RunTest, RunAcceptsNone, RunAccepts
  <1>6. ASSUME NEW o \in Names, Release(o)
        PROVE  TodoStep
    BY <1>6
    DEF TodoStep, Release, At
  <1>7. ASSUME NEW o \in Names, ReleaseTerminates(o)
        PROVE  TodoStep
    BY <1>7
    DEF TodoStep, ReleaseTerminates
  <1>8. ASSUME NEW x \in Sessions,
               SessionTest(x) \/ SessionRead(x) \/ SessionAnswer(x) \/ SessionCrashes(x)
        PROVE  TodoStep
    BY <1>8
    DEF TodoStep, SessionTest, SessionMoves, SessionRead, SessionAnswer, SessionCrashes
  <1>9. ASSUME StopAll \/ Enter
        PROVE  TodoStep
    BY <1>9
    DEF TodoStep, StopAll, Enter, At
  <1>10. ASSUME Exit \/ Command
        PROVE  TodoStep
    BY <1>10
    DEF TodoStep, Exit, Command
  <1>11. ASSUME UNCHANGED vars PROVE TodoStep
    BY <1>11
    DEF TodoStep, vars
  <1> QED BY <1>1, <1>2, <1>3, <1>4, <1>5, <1>6, <1>7, <1>8, <1>9, <1>10, <1>11, ObjectNames
     DEF Next, Main, StopStep, ServerThread, Session, Ended

LEMMA TodoStaysTyped ==
  ASSUME TypeOK, TodoStep
  PROVE  todo' \in Seq(Step)
  BY TodoIsTyped, Popped, UnwindIsOrderly DEF TodoStep

LEMMA TypeStep ==
  ASSUME TypeOK, Listed, [Next]_vars
  PROVE  TypeOK'
  <1>1. todo' \in Seq(Operation \X {Objects[i] : i \in DOMAIN Objects})
    BY TodoSteps, TodoStaysTyped, ObjectNames DEF Step
  <1>2. TypeOK
    OBVIOUS
  <1>3. ASSUME NEW s \in Servers, Start(s)
        PROVE  TypeOK'
    BY <1>3, <1>1, <1>2
    DEF TypeOK, threadVars, sessionVars, Start
  <1>4. ASSUME NEW s \in Servers, StartFails(s)
        PROVE  TypeOK'
    BY <1>4, <1>1, <1>2
    DEF TypeOK, threadVars, sessionVars, StartFails
  <1>5. ASSUME NEW s \in Servers, Stop(s)
        PROVE  TypeOK'
    BY <1>5, <1>1, <1>2
    DEF TypeOK, threadVars, sessionVars, Stop
  <1>6. ASSUME NEW s \in Servers, StopEarly(s)
        PROVE  TypeOK'
    BY <1>6, <1>1, <1>2
    DEF TypeOK, threadVars, sessionVars, StopEarly
  <1>7. ASSUME NEW s \in Servers, StopMeetsOpen(s)
        PROVE  TypeOK'
    BY <1>7, <1>1, <1>2
    DEF TypeOK, threadVars, sessionVars, StopMeetsOpen
  <1>8. ASSUME NEW s \in Servers, Join(s)
        PROVE  TypeOK'
    BY <1>8, <1>1, <1>2
    DEF TypeOK, threadVars, sessionVars, Join
  <1>9. ASSUME NEW s \in Servers, RunOpens(s)
        PROVE  TypeOK'
    BY <1>9, <1>1, <1>2
    DEF TypeOK, threadVars, sessionVars, RunOpens
  <1>10. ASSUME NEW s \in Servers, RunFails(s)
        PROVE  TypeOK'
    BY <1>10, <1>1, <1>2
    DEF TypeOK, threadVars, sessionVars, RunFails
  <1>11. ASSUME NEW s \in Servers, RunTest(s)
        PROVE  TypeOK'
    BY <1>11, <1>1, <1>2
    DEF TypeOK, threadVars, sessionVars, RunTest
  <1>12. ASSUME NEW s \in Servers, RunAcceptsNone(s)
        PROVE  TypeOK'
    BY <1>12, <1>1, <1>2
    DEF TypeOK, threadVars, sessionVars, RunAcceptsNone
  <1>13. ASSUME NEW s \in Servers, RunAccepts(s)
        PROVE  TypeOK'
    BY <1>13, <1>1, <1>2
    DEF TypeOK, threadVars, sessionVars, RunAccepts
  <1>14. ASSUME NEW o \in Names, Release(o) \/ ReleaseTerminates(o)
        PROVE  TypeOK'
    BY <1>14, <1>1, <1>2
    DEF TypeOK, threadVars, sessionVars, Release, ReleaseTerminates
  <1>15. ASSUME NEW x \in Sessions, SessionTest(x)
        PROVE  TypeOK'
    BY <1>15, <1>1, <1>2
    DEF TypeOK, threadVars, sessionVars, SessionTest, SessionMoves
  <1>16. ASSUME NEW x \in Sessions, SessionRead(x)
        PROVE  TypeOK'
    BY <1>16, <1>1, <1>2
    DEF TypeOK, threadVars, sessionVars, SessionRead, SessionMoves
  <1>17. ASSUME NEW x \in Sessions, SessionAnswer(x)
        PROVE  TypeOK'
    BY <1>17, <1>1, <1>2
    DEF TypeOK, threadVars, sessionVars, SessionAnswer, SessionMoves
  <1>18. ASSUME NEW x \in Sessions, SessionCrashes(x)
        PROVE  TypeOK'
    BY <1>18, <1>1, <1>2
    DEF TypeOK, threadVars, sessionVars, SessionCrashes
  <1>19. ASSUME StopAll \/ Exit \/ Command \/ Enter
        PROVE  TypeOK'
    BY <1>19, <1>1, <1>2
    DEF TypeOK, threadVars, sessionVars, StopAll, Exit, Command, Enter
  <1>20. ASSUME UNCHANGED vars PROVE TypeOK'
    BY <1>20, <1>2
    DEF vars, threadVars, sessionVars, TypeOK
  <1> QED BY <1>3, <1>4, <1>5, <1>6, <1>7, <1>8, <1>9, <1>10, <1>11, <1>12, <1>13, <1>14, <1>15,
             <1>16, <1>17, <1>18, <1>19, <1>20, ObjectNames
     DEF Next, Main, StopStep, ServerThread, Session, Ended

(* The list stays in order.                                                *)
LEMMA OrderStep ==
  ASSUME TypeOK, Listed, TodoStep
  PROVE  StartsFirst(todo') /\ StopsAllBetween(todo')
  BY TodoIsTyped, PoppedOrder, UnwindIsOrderly DEF TodoStep, Listed

(* What is left after the head, if it is none of the things that matter or *)
(* the server that it stops is now stopped.                                *)
LEMMA ListedTail ==
  ASSUME TypeOK, Listed, todo # << >>, todo' = Tail(todo), joining' = "none",
         stopped \subseteq stopped', stopped' \subseteq Servers,
         \A s \in Servers :
             s \in stopped' \ stopped <=> Head(todo) = <<"stop", s>> /\ s \notin stopped
  PROVE  Listed'
  <1>1. todo \in Seq(Step) /\ todo' \in Seq(Step)
    BY TodoIsTyped, Popped
  <1>2. StartsFirst(todo') /\ StopsAllBetween(todo')
    BY OrderStep DEF TodoStep
  <1>3. StopsBefore(todo', stopped')
    BY <1>1, PoppedStops DEF Listed
  <1>4. ASSUME NEW s \in Servers, NEW i \in 1..Len(todo'), todo'[i] = <<"start", s>>
        PROVE  s \notin stopped'
    <2>1. i + 1 \in 1..Len(todo) /\ todo[i + 1] = <<"start", s>>
      BY <1>1, <1>4, Popped
    <2>2. s \notin stopped
      BY <2>1 DEF Listed
    <2>3. 1 \in 1..Len(todo) /\ 1 <= i + 1
      BY <1>1, Popped
    <2>4. Head(todo)[1] = "start"
      BY <1>1, <2>1, <2>3, Popped DEF Listed, StartsFirst
    <2> QED BY <2>2, <2>4
  <1> QED BY <1>2, <1>3, <1>4 DEF Listed

LEMMA ListStep ==
  ASSUME TypeOK, Listed, [Next]_vars
  PROVE  Listed'
  <1>1. todo \in Seq(Step)
    BY TodoIsTyped
  <1>2. ASSUME todo' = todo, stopped' = stopped, joining' = joining
        PROVE  Listed'
    BY <1>2 DEF Listed
  <1>3. ASSUME NEW s \in Servers, Start(s)
        PROVE  Listed'
    BY <1>3, ListedTail DEF Start, At, TypeOK
  <1>4. ASSUME NEW s \in Servers, StartFails(s)
        PROVE  Listed'
    <2>1. todo' \in {Unwind(TRUE), Unwind(FALSE)} /\ joining' = "none" /\ stopped' = stopped
      BY <1>4 DEF StartFails, At
    <2>2. /\ StartsFirst(todo') /\ StopsAllBetween(todo') /\ StopsBefore(todo', {})
          /\ \A i \in 1..Len(todo') : todo'[i][1] # "start"
      BY <2>1, UnwindIsOrderly
    <2>3. StopsBefore(todo', stopped')
      BY <2>2 DEF StopsBefore
    <2> QED BY <2>1, <2>2, <2>3 DEF Listed
  <1>5. ASSUME NEW s \in Servers, Stop(s)
        PROVE  Listed'
    BY <1>5 DEF Stop, At, Listed
  <1>6. ASSUME NEW s \in Servers, StopEarly(s)
        PROVE  Listed'
    BY <1>6, ListedTail DEF StopEarly, At, TypeOK
  <1>7. ASSUME NEW s \in Servers, Join(s)
        PROVE  Listed'
    <2>1. todo # << >> /\ Head(todo) = <<"stop", s>>
      BY <1>7 DEF Join, Listed, Servers
    <2> QED BY <1>7, <2>1, ListedTail DEF Join, TypeOK
  <1>8. ASSUME NEW o \in Names, Release(o)
        PROVE  Listed'
    BY <1>8, ListedTail DEF Release, At, TypeOK
  <1>9. ASSUME StopAll \/ Enter
        PROVE  Listed'
    BY <1>9, ListedTail DEF StopAll, Enter, At, TypeOK
  <1>10. ASSUME NEW s \in Servers, StopMeetsOpen(s) \/ ServerThread(s)
         PROVE  Listed'
    BY <1>10, <1>2
    DEF StopMeetsOpen, ServerThread, RunOpens, RunFails, RunTest, RunAcceptsNone, RunAccepts
  <1>11. ASSUME NEW x \in Sessions, Session(x)
         PROVE  Listed'
    BY <1>11, <1>2
    DEF Session, SessionTest, SessionRead, SessionAnswer, SessionCrashes, SessionMoves
  <1>12. ASSUME NEW o \in Names, ReleaseTerminates(o)
         PROVE  Listed'
    BY <1>12, <1>2 DEF ReleaseTerminates
  <1>13. ASSUME Exit \/ Command \/ UNCHANGED vars
         PROVE  Listed'
    BY <1>13, <1>2 DEF Exit, Command, vars
  <1> QED BY <1>3, <1>4, <1>5, <1>6, <1>7, <1>8, <1>9, <1>10, <1>11, <1>12, <1>13, ObjectNames
     DEF Next, Main, StopStep, Ended

(* Threads: only these actions touch what ThreadsHeld speaks of.           *)
LEMMA ThreadsStep ==
  ASSUME TypeOK, Listed, ThreadsHeld, [Next]_vars
  PROVE  ThreadsHeld'
  <1>1. ASSUME UNCHANGED <<run, running, joinable, joining, failed, stopped>>
        PROVE  ThreadsHeld'
    BY <1>1 DEF ThreadsHeld
  <1>2. ASSUME NEW s \in Servers, Start(s)
        PROVE  ThreadsHeld'
    <2>1. s \notin stopped
      <3>1. todo[1] = <<"start", s>> /\ 1 \in 1..Len(todo)
        BY <1>2, TodoIsTyped, Popped DEF Start, At
      <3> QED BY <3>1 DEF Listed
    <2> QED BY <1>2, <2>1 DEF Start, ThreadsHeld, TypeOK
  <1>3. ASSUME NEW s \in Servers, StartFails(s)
        PROVE  ThreadsHeld'
    BY <1>3 DEF StartFails, ThreadsHeld, TypeOK
  <1>4. ASSUME NEW s \in Servers, Stop(s)
        PROVE  ThreadsHeld'
    BY <1>4 DEF Stop, At, ThreadsHeld, TypeOK, Servers
  <1>5. ASSUME NEW s \in Servers, StopEarly(s)
        PROVE  ThreadsHeld'
    BY <1>5 DEF StopEarly, At, ThreadsHeld, TypeOK, threadVars, Servers
  <1>6. ASSUME NEW s \in Servers, Join(s)
        PROVE  ThreadsHeld'
    BY <1>6 DEF Join, ThreadsHeld, TypeOK
  <1>7. ASSUME NEW s \in Servers, RunOpens(s) \/ RunAcceptsNone(s)
        PROVE  ThreadsHeld'
    BY <1>7 DEF RunOpens, RunAcceptsNone, ThreadsHeld, TypeOK
  <1>8. ASSUME NEW s \in Servers, RunFails(s)
        PROVE  ThreadsHeld'
    BY <1>8 DEF RunFails, ThreadsHeld, TypeOK
  <1>9. ASSUME NEW s \in Servers, RunTest(s)
        PROVE  ThreadsHeld'
    BY <1>9 DEF RunTest, ThreadsHeld, TypeOK
  <1>10. ASSUME NEW s \in Servers, RunAccepts(s)
         PROVE  ThreadsHeld'
    BY <1>10 DEF RunAccepts, ThreadsHeld, TypeOK
  <1>11. ASSUME NEW x \in Sessions, Session(x)
         PROVE  ThreadsHeld'
    BY <1>11, <1>1
    DEF Session, SessionTest, SessionRead, SessionAnswer, SessionCrashes, SessionMoves,
        threadVars
  <1>12. ASSUME NEW s \in Servers, StopMeetsOpen(s)
         PROVE  ThreadsHeld'
    BY <1>12, <1>1 DEF StopMeetsOpen, threadVars
  <1>13. ASSUME NEW o \in Names, Release(o) \/ ReleaseTerminates(o)
         PROVE  ThreadsHeld'
    BY <1>13, <1>1 DEF Release, ReleaseTerminates, threadVars
  <1>14. ASSUME StopAll \/ Exit \/ Command \/ Enter \/ UNCHANGED vars
         PROVE  ThreadsHeld'
    BY <1>14, <1>1 DEF StopAll, Exit, Command, Enter, threadVars, vars
  <1> QED BY <1>2, <1>3, <1>4, <1>5, <1>6, <1>7, <1>8, <1>9, <1>10, <1>11, <1>12, <1>13, <1>14,
             ObjectNames
     DEF Next, Main, StopStep, ServerThread, Ended

LEMMA PendingTail ==
  ASSUME TypeOK, Pending, todo # << >>, todo' = Tail(todo), alive' \subseteq alive,
         late' = late, collecting' => collecting,
         Head(todo) = <<"release", "commands">> => "commands" \notin alive',
         Head(todo) = <<"stopAll", "task">> => ~collecting'
  PROVE  Pending'
  <1>1. todo \in Seq(Step)
    BY TodoIsTyped
  <1>2. "commands" \in alive' => StillReleased(todo', "commands")
    BY <1>1, PoppedPending DEF Pending
  <1>3. collecting' /\ late' = {} => StillStopsAll(todo')
    BY <1>1, PoppedPending DEF Pending
  <1> QED BY <1>2, <1>3 DEF Pending

(* A session that answers a request before CommandProcessor is destroyed   *)
(* is followed by the stopAll of ~DataTask; a later one is late.           *)
LEMMA PendingStep ==
  ASSUME TypeOK, Listed, Pending, [Next]_vars
  PROVE  Pending'
  <1>1. todo \in Seq(Step)
    BY TodoIsTyped
  <1>2. ASSUME UNCHANGED <<todo, alive, collecting>>, late \subseteq late'
        PROVE  Pending'
    BY <1>2 DEF Pending
  <1>3. ASSUME NEW s \in Servers, Start(s) \/ StopEarly(s)
        PROVE  Pending'
    BY <1>3, PendingTail DEF Start, StopEarly, At, sessionVars
  <1>4. ASSUME NEW s \in Servers, StartFails(s)
        PROVE  Pending'
    BY <1>4, UnwindIsOrderly DEF StartFails, Pending
  <1>5. ASSUME NEW s \in Servers, Join(s)
        PROVE  Pending'
    <2>1. todo # << >> /\ Head(todo) = <<"stop", s>>
      BY <1>5 DEF Join, Listed, Servers
    <2> QED BY <1>5, <2>1, PendingTail DEF Join, sessionVars
  <1>6. ASSUME NEW o \in Names, Release(o)
        PROVE  Pending'
    BY <1>6, PendingTail DEF Release, At, sessionVars
  <1>7. ASSUME StopAll \/ Enter
        PROVE  Pending'
    BY <1>7, PendingTail DEF StopAll, Enter, At, sessionVars
  <1>8. ASSUME Command
        PROVE  Pending'
    <2>1. 1 \in 1..Len(todo) /\ todo[1][1] = "wait"
      BY <1>1, <1>8, Popped DEF Command, At
    <2>2. ASSUME NEW i \in 1..Len(todo), todo[i] = <<"release", "task">>
          PROVE  \E j \in 1..(i - 1) : todo[j] = <<"stopAll", "task">>
      <3>1. PICK j \in (1 + 1)..(i - 1) : todo[j] = <<"stopAll", "task">>
        BY <2>1, <2>2 DEF Listed, StopsAllBetween
      <3>2. j \in 1..(i - 1)
        BY <1>1, <2>1
      <3> QED BY <3>1, <3>2
    <2>3. StillStopsAll(todo)
      BY <2>2 DEF StillStopsAll
    <2> QED BY <1>8, <2>3 DEF Command, Pending, sessionVars
  <1>9. ASSUME NEW x \in Sessions, SessionAnswer(x), "commands" \in Needs(x), "commands" \in alive
        PROVE  Pending'
    <2>1. PICK k \in 1..Len(todo) : todo[k] = <<"release", "commands">>
      BY <1>9 DEF Pending, StillReleased
    <2>2. ASSUME NEW i \in 1..Len(todo), todo[i] = <<"release", "task">>
          PROVE  \E j \in 1..(i - 1) : todo[j] = <<"stopAll", "task">>
      <3>1. PICK j \in (k + 1)..(i - 1) : todo[j] = <<"stopAll", "task">>
        BY <2>1, <2>2 DEF Listed, StopsAllBetween
      <3>2. j \in 1..(i - 1)
        BY <1>1, <2>1
      <3> QED BY <3>1, <3>2
    <2>3. StillStopsAll(todo)
      BY <2>2 DEF StillStopsAll
    <2> QED BY <1>9, <2>3 DEF SessionAnswer, SessionMoves, Pending
  <1>10. ASSUME NEW x \in Sessions, SessionAnswer(x),
                "commands" \in Needs(x), "commands" \notin alive
         PROVE  Pending'
    BY <1>10 DEF SessionAnswer, SessionMoves, Pending
  <1>11. ASSUME NEW x \in Sessions, SessionAnswer(x), "commands" \notin Needs(x)
         PROVE  Pending'
    <2>1. server[x] # "http"
      BY <1>11 DEF SessionAnswer, SessionMoves, Needs
    <2> QED BY <1>2, <1>11, <2>1 DEF SessionAnswer, SessionMoves
  <1>12. ASSUME NEW x \in Sessions, SessionTest(x) \/ SessionRead(x) \/ SessionCrashes(x)
         PROVE  Pending'
    BY <1>2, <1>12 DEF SessionTest, SessionRead, SessionCrashes, SessionMoves, sessionVars
  <1>13. ASSUME NEW s \in Servers, Stop(s) \/ StopMeetsOpen(s) \/ ServerThread(s)
         PROVE  Pending'
    BY <1>2, <1>13
    DEF Stop, StopMeetsOpen, ServerThread, RunOpens, RunFails, RunTest, RunAcceptsNone,
        RunAccepts, sessionVars
  <1>14. ASSUME NEW o \in Names, ReleaseTerminates(o)
         PROVE  Pending'
    BY <1>2, <1>14 DEF ReleaseTerminates, sessionVars
  <1>15. ASSUME Exit \/ UNCHANGED vars
         PROVE  Pending'
    BY <1>2, <1>15 DEF Exit, sessionVars, vars
  <1> QED BY <1>3, <1>4, <1>5, <1>6, <1>7, <1>8, <1>9, <1>10, <1>11, <1>12, <1>13, <1>14, <1>15,
             ObjectNames
     DEF Next, Main, StopStep, Session, Ended

(* What is at the head of the list has nothing before it: the server that  *)
(* is released has been stopped, and DataTask's workers as well.           *)
LEMMA TerminatesStep ==
  ASSUME TypeOK, Listed, ThreadsHeld, Pending, TerminatesForAReason, [Next]_vars
  PROVE  TerminatesForAReason'
  <1>1. ASSUME outcome' # "terminated"
        PROVE  TerminatesForAReason'
    BY <1>1 DEF TerminatesForAReason
  <1>2. ASSUME UNCHANGED <<outcome, failed, late>>
        PROVE  TerminatesForAReason'
    BY <1>2 DEF TerminatesForAReason
  <1>3. ASSUME NEW o \in Names, ReleaseTerminates(o)
        PROVE  TerminatesForAReason'
    <2>1. todo \in Seq(Step) /\ 1 \in 1..Len(todo) /\ todo[1] = <<"release", o>> /\ HoldsThread(o)
      BY <1>3, TodoIsTyped, Popped DEF ReleaseTerminates, At
    <2>2. CASE o \in joinable
      <3>1. o \in Servers
        BY <2>2 DEF TypeOK
      <3>2. o \in stopped
        BY <2>1, <3>1 DEF Listed, StopsBefore
      <3>3. failed # {}
        BY <2>2, <3>1, <3>2 DEF ThreadsHeld
      <3> QED BY <1>3, <3>3 DEF ReleaseTerminates, TerminatesForAReason, threadVars
    <2>3. CASE o = "task" /\ collecting
      <3>1. ~StillStopsAll(todo)
        BY <2>1, <2>3 DEF StillStopsAll
      <3>2. late # {}
        BY <2>3, <3>1 DEF Pending
      <3> QED BY <1>3, <3>2 DEF ReleaseTerminates, TerminatesForAReason, sessionVars
    <2> QED BY <2>1, <2>2, <2>3 DEF HoldsThread
  <1>4. ASSUME NEW s \in Servers, Start(s) \/ StartFails(s) \/ StopStep(s)
        PROVE  TerminatesForAReason'
    BY <1>1, <1>4 DEF Start, StartFails, StopStep, Stop, StopEarly, StopMeetsOpen, Join, At
  <1>5. ASSUME NEW s \in Servers, ServerThread(s)
        PROVE  TerminatesForAReason'
    BY <1>1, <1>5
    DEF ServerThread, RunOpens, RunFails, RunTest, RunAcceptsNone, RunAccepts
  <1>6. ASSUME NEW x \in Sessions, Session(x)
        PROVE  TerminatesForAReason'
    BY <1>1, <1>6
    DEF Session, SessionTest, SessionRead, SessionAnswer, SessionCrashes, SessionMoves
  <1>7. ASSUME NEW o \in Names, Release(o)
        PROVE  TerminatesForAReason'
    BY <1>1, <1>7 DEF Release, At
  <1>8. ASSUME StopAll \/ Exit \/ Command \/ Enter
        PROVE  TerminatesForAReason'
    BY <1>1, <1>8 DEF StopAll, Exit, Command, Enter, At
  <1>9. ASSUME UNCHANGED vars
        PROVE  TerminatesForAReason'
    BY <1>2, <1>9 DEF vars, threadVars, sessionVars
  <1> QED BY <1>3, <1>4, <1>5, <1>6, <1>7, <1>8, <1>9, ObjectNames DEF Next, Main, Ended

----------------------------------------------------------------------------

LEMMA Invariant == Spec => []IInv
  <1>1. Init => IInv
    BY InitInvariant
  <1>2. IInv /\ [Next]_vars => IInv'
    BY TypeStep, ListStep, ThreadsStep, PendingStep, TerminatesStep DEF IInv
  <1> QED BY <1>1, <1>2, PTL DEF Spec

(* Every variable keeps its type, whatever the modes and the number of     *)
(* sessions: main has only operations of its objects to do, and only a     *)
(* server whose thread has been created can hold one.                      *)
THEOREM TypeCorrect == Spec => []TypeOK
  <1>1. IInv => TypeOK
    BY DEF IInv
  <1> QED BY <1>1, Invariant, PTL

(* Once HttpServer::stop or MockDriverServer::stop has returned, run is    *)
(* over, whenever stop came and whether or not run had failed.             *)
THEOREM StoppedServersAreOver == Spec => []StoppedServerIsOver
  <1>1. IInv => StoppedServerIsOver
    BY DEF IInv, TypeOK, ThreadsHeld, StoppedServerIsOver
  <1> QED BY <1>1, Invariant, PTL

(* Main's destructors meet no joinable thread, of a server or of DataTask, *)
(* unless a server's run failed or a session used destroyed objects.       *)
THEOREM TerminationHasAReason == Spec => []TerminatesForAReason
  <1>1. IInv => TerminatesForAReason
    BY DEF IInv
  <1> QED BY <1>1, Invariant, PTL
=============================================================================
