--------------------------- MODULE Response_proofs ---------------------------
(* What the autonomous response keeps, for any number of responders, processes,      *)
(* addresses and files and any policies: the network's isolation, the kill of a tree, *)
(* the quarantine and the executor that runs them, each by itself; and the types of   *)
(* all of them in MCResponse.                                                         *)
EXTENDS MCResponse, Decisions_proofs, SequenceTheorems

(* A table of processes in which everyone was forked by an earlier one, or by nobody. *)
Ordered(P) == Len(P) \in Nat /\ \A y \in 1 .. Len(P) : P[y].born \in 0 .. y - 1

LEMMA LinesExist ==
  ASSUME NEW n \in Nat, NEW P, \A y \in 1 .. n : P[y].born \in 0 .. y - 1
  PROVE  \E f : f = [y \in 0 .. n |-> IF y = 0 THEN {} ELSE {y} \cup f[P[y].born]]
<1> DEFINE Fits(f, m) == f = [y \in 0 .. m |-> IF y = 0 THEN {} ELSE {y} \cup f[P[y].born]]
           T == {m \in 0 .. n : ~ \E f : Fits(f, m)}
<1>1. SUFFICES ASSUME T # {} PROVE FALSE
  <2>1. n \in 0 .. n
    OBVIOUS
  <2>2. QED BY <2>1
<1>2. PICK m \in T : \A u \in T : m <= u
  <2>1. T \in SUBSET Nat
    OBVIOUS
  <2>2. QED BY <1>1, <2>1, LeastNat
<1>3. m \in 0 .. n /\ ~ \E f : Fits(f, m)
  OBVIOUS
<1>4. CASE m = 0
  <2> DEFINE g == [y \in 0 .. 0 |-> {}]
  <2>1. g = [y \in 0 .. 0 |-> IF y = 0 THEN {} ELSE {y} \cup g[P[y].born]]
    OBVIOUS
  <2>2. Fits(g, m)
    BY <1>4, <2>1
  <2>3. QED BY <1>3, <2>2
<1>5. CASE m # 0
  <2>1. m - 1 \in 0 .. n /\ ~ (m <= m - 1)
    BY <1>3, <1>5
  <2>2. m - 1 \notin T
    BY <1>2, <2>1
  <2>3. PICK f : Fits(f, m - 1)
    BY <2>1, <2>2
  <2>4. f[0] = {} /\ \A y \in 1 .. m - 1 : f[y] = {y} \cup f[P[y].born]
    BY <1>3, <1>5, <2>3
  <2> DEFINE g == [y \in 0 .. m |-> IF y < m THEN f[y] ELSE {m} \cup f[P[m].born]]
  <2>5. ASSUME NEW y \in 0 .. m PROVE g[y] = IF y = 0 THEN {} ELSE {y} \cup g[P[y].born]
    <3>1. CASE y = 0
      BY <1>3, <1>5, <2>4, <3>1
    <3>2. CASE y # 0
      <4>1. y \in 1 .. n /\ P[y].born \in 0 .. y - 1
        BY <1>3, <3>2
      <4>2. P[y].born \in 0 .. m /\ P[y].born < m
        BY <1>3, <4>1
      <4>3. g[P[y].born] = f[P[y].born]
        BY <4>2
      <4>4. CASE y = m
        <5>1. g[y] = {m} \cup f[P[m].born]
          BY <4>4
        <5>2. QED BY <3>2, <4>3, <4>4, <5>1
      <4>5. CASE y # m
        <5>1. y \in 1 .. m - 1
          BY <1>3, <4>1, <4>5
        <5>2. g[y] = f[y]
          BY <5>1
        <5>3. QED BY <2>4, <3>2, <4>3, <5>1, <5>2
      <4>6. QED BY <4>4, <4>5
    <3>3. QED BY <3>1, <3>2
  <2>6. g = [y \in 0 .. m |-> g[y]]
    OBVIOUS
  <2> HIDE DEF g
  <2>7. Fits(g, m)
    BY <2>5, <2>6
  <2>8. QED BY <1>3, <2>7
<1>6. QED BY <1>4, <1>5

LEMMA LinesUnfold ==
  ASSUME NEW P, Ordered(P)
  PROVE  /\ Lines(P)[0] = {}
         /\ \A x \in 1 .. Len(P) : Lines(P)[x] = {x} \cup Lines(P)[P[x].born]
<1>1. Len(P) \in Nat /\ \A y \in 1 .. Len(P) : P[y].born \in 0 .. y - 1
  BY DEF Ordered
<1>2. \E f : f = [y \in 0 .. Len(P) |-> IF y = 0 THEN {} ELSE {y} \cup f[P[y].born]]
  BY <1>1, LinesExist
<1>3. Lines(P) = [y \in 0 .. Len(P) |-> IF y = 0 THEN {} ELSE {y} \cup Lines(P)[P[y].born]]
  BY <1>2, Zenon DEF Lines
<1>4. 0 \in 0 .. Len(P) /\ \A x \in 1 .. Len(P) : x \in 0 .. Len(P) /\ x # 0
  BY <1>1
<1>5. QED BY <1>3, <1>4

(* A line only has earlier processes. *)
LEMMA LineRange ==
  ASSUME NEW P, Ordered(P), NEW x \in 0 .. Len(P)
  PROVE  Lines(P)[x] \subseteq 1 .. x
<1> DEFINE T == {y \in 0 .. Len(P) : ~ (Lines(P)[y] \subseteq 1 .. y)}
<1>1. Len(P) \in Nat /\ \A y \in 1 .. Len(P) : P[y].born \in 0 .. y - 1
  BY DEF Ordered
<1>2. SUFFICES ASSUME T # {} PROVE FALSE
  OBVIOUS
<1>3. PICK m \in T : \A u \in T : m <= u
  <2>1. T \in SUBSET Nat
    BY <1>1
  <2>2. QED BY <1>2, <2>1, LeastNat
<1>4. m \in 0 .. Len(P) /\ ~ (Lines(P)[m] \subseteq 1 .. m)
  OBVIOUS
<1>5. CASE m = 0
  BY <1>4, <1>5, LinesUnfold
<1>6. CASE m # 0
  <2> DEFINE b == P[m].born
  <2>1. m \in 1 .. Len(P) /\ b \in 0 .. m - 1 /\ b \in 0 .. Len(P)
    BY <1>1, <1>4, <1>6
  <2>2. Lines(P)[m] = {m} \cup Lines(P)[b]
    BY <2>1, LinesUnfold
  <2>3. b \notin T
    <3>1. ~ (m <= b)
      BY <1>4, <2>1
    <3>2. QED BY <1>3, <3>1
  <2>4. Lines(P)[b] \subseteq 1 .. b /\ 1 .. b \subseteq 1 .. m /\ m \in 1 .. m
    BY <2>1, <2>3
  <2>5. QED BY <1>4, <2>2, <2>4
<1>7. QED BY <1>5, <1>6

(* Later forks leave it alone. *)
LEMMA LineStable ==
  ASSUME NEW P, Ordered(P), NEW Q, Ordered(Q), Len(P) <= Len(Q),
         \A y \in 1 .. Len(P) : Q[y].born = P[y].born, NEW x \in 0 .. Len(P)
  PROVE  Lines(Q)[x] = Lines(P)[x]
<1> DEFINE T == {y \in 0 .. Len(P) : Lines(Q)[y] # Lines(P)[y]}
<1>1. /\ Len(P) \in Nat /\ Len(Q) \in Nat
      /\ \A y \in 1 .. Len(P) : P[y].born \in 0 .. y - 1
  BY DEF Ordered
<1>2. SUFFICES ASSUME T # {} PROVE FALSE
  OBVIOUS
<1>3. PICK m \in T : \A u \in T : m <= u
  <2>1. T \in SUBSET Nat
    BY <1>1
  <2>2. QED BY <1>2, <2>1, LeastNat
<1>4. m \in 0 .. Len(P) /\ Lines(Q)[m] # Lines(P)[m]
  OBVIOUS
<1>5. CASE m = 0
  BY <1>4, <1>5, LinesUnfold
<1>6. CASE m # 0
  <2> DEFINE b == P[m].born
  <2>1. m \in 1 .. Len(P) /\ m \in 1 .. Len(Q) /\ b \in 0 .. m - 1 /\ b \in 0 .. Len(P)
    BY <1>1, <1>4, <1>6
  <2>2. Lines(P)[m] = {m} \cup Lines(P)[b] /\ Lines(Q)[m] = {m} \cup Lines(Q)[b]
    BY <2>1, LinesUnfold
  <2>3. b \notin T
    <3>1. ~ (m <= b)
      BY <1>4, <2>1
    <3>2. QED BY <1>3, <3>1
  <2>4. Lines(Q)[b] = Lines(P)[b]
    BY <2>1, <2>3
  <2> HIDE DEF b
  <2>5. QED BY <1>4, <2>2, <2>4
<1>7. QED BY <1>5, <1>6

(* The processes of the host, and the parameters that a call to KillTree is kept in: of  *)
(* a table of n processes.                                                               *)
HostProcess == [pid : KillPids, born : Nat, parent : Nat, alive : BOOLEAN]
FrameOf(n)  == [pid : KillPids, meant : SUBSET (1 .. n), asked : BOOLEAN, todo : SUBSET (1 .. n)]
CallOf(n)   == [stack : Seq(FrameOf(n)), root : 0 .. n, listed : SUBSET (1 .. n), excused : SUBSET (1 .. n)]

(* A process keeps its parent until that dies; a PID belongs to one living process. *)
Family(P) ==
  /\ P \in Seq(HostProcess)
  /\ \A x \in 1 .. Len(P) : P[x].born \in 0 .. x - 1
  /\ \A x \in 1 .. Len(P) : P[x].born # 0 /\ P[P[x].born].alive => P[x].parent = P[x].born
  /\ \A x, y \in 1 .. Len(P) : P[x].alive /\ P[y].alive /\ P[x].pid = P[y].pid => x = y

(* A frame is for the PID of the processes it means. *)
Base(P, k) ==
  /\ k \in CallOf(Len(P))
  /\ \A i \in 1 .. Len(k.stack) : \A x \in k.stack[i].meant : P[x].pid = k.stack[i].pid

Known(k) == k.listed \cup k.excused

Ahead(f, x) == x \in f.todo \/ (~f.asked /\ x \in f.meant)

Found(k, x) == x \in Known(k) \/ \E i \in 1 .. Len(k.stack) : Ahead(k.stack[i], x)

(* What a frame means has been asked about, or the frame has not asked. *)
FramesAsk(k) ==
  \A i \in 1 .. Len(k.stack) :
    IF k.stack[i].asked THEN k.stack[i].meant \subseteq Known(k) ELSE k.stack[i].todo = {}

(* A frame will send a signal to a PID. *)
Doomed(k, pid) == \E i \in 1 .. Len(k.stack) : k.stack[i].asked /\ k.stack[i].pid = pid

(* While a call runs: a dead process is listed or excused; the target, and whoever a     *)
(* listed process forked, is listed, excused or ahead; and a listed process that lives   *)
(* is excused, or has a frame that will signal its PID.                                  *)
Underway(P, k) ==
  /\ \A x \in 1 .. Len(P) : ~P[x].alive => x \in Known(k)
  /\ k.root # 0 => Found(k, k.root)
  /\ \A y \in 1 .. Len(P) : P[y].born \in k.listed => Found(k, y)
  /\ \A x \in k.listed : P[x].alive => x \in k.excused \/ Doomed(k, P[x].pid)

(* And when it has returned, what SurvivorsEscaped says. *)
Escaped(P, k) ==
  \A x \in 1 .. Len(P) : P[x].alive /\ k.root \in Lines(P)[x] => Lines(P)[x] \cap k.excused # {}

Tracked(P, k) ==
  /\ FramesAsk(k)
  /\ k.stack # <<>> => Underway(P, k)
  /\ k.stack = <<>> => Escaped(P, k)

TreeInv ==
  /\ Family(procs) /\ DOMAIN kcall = KillCallers
  /\ \A c \in KillCallers : Base(procs, kcall[c]) /\ (platform # "windows" => Tracked(procs, kcall[c]))

-----------------------------------------------------------------------------
(* Table Q comes after P: nobody is born again, and who is forked lives and has a living *)
(* parent.                                                                               *)
After(P, Q) ==
  /\ Len(P) <= Len(Q)
  /\ \A x \in 1 .. Len(P) : Q[x].pid = P[x].pid /\ Q[x].born = P[x].born /\ (Q[x].alive => P[x].alive)
  /\ \A x \in 1 .. Len(Q) : x \notin 1 .. Len(P) =>
       Q[x].alive /\ Q[x].born \in 1 .. Len(P) /\ P[Q[x].born].alive

LEMMA FamilyFacts ==
  ASSUME NEW P, Family(P)
  PROVE  /\ Len(P) \in Nat /\ DOMAIN P = 1 .. Len(P) /\ Ordered(P)
         /\ \A x \in 1 .. Len(P) : P[x] \in HostProcess
BY DEF Family, Ordered

LEMMA CallFacts ==
  ASSUME NEW P, Family(P), NEW k, Base(P, k)
  PROVE  /\ k.stack \in Seq(FrameOf(Len(P))) /\ Len(k.stack) \in Nat
         /\ DOMAIN k.stack = 1 .. Len(k.stack) /\ (k.stack = <<>> <=> Len(k.stack) = 0)
         /\ \A i \in 1 .. Len(k.stack) : k.stack[i] \in FrameOf(Len(P))
         /\ k.root \in 0 .. Len(P) /\ k.listed \subseteq 1 .. Len(P) /\ k.excused \subseteq 1 .. Len(P)
<1>1. k.stack \in Seq(FrameOf(Len(P)))
  BY DEF Base, CallOf
<1>2. k.root \in 0 .. Len(P) /\ k.listed \subseteq 1 .. Len(P) /\ k.excused \subseteq 1 .. Len(P)
  BY DEF Base, CallOf
<1> DEFINE st == k.stack
<1>3. st \in Seq(FrameOf(Len(P)))
  BY <1>1
<1> HIDE DEF st
<1>4. /\ Len(st) \in Nat /\ DOMAIN st = 1 .. Len(st) /\ (st = <<>> <=> Len(st) = 0)
      /\ \A i \in 1 .. Len(st) : st[i] \in FrameOf(Len(P))
  BY <1>3
<1>5. QED BY <1>1, <1>2, <1>4 DEF st

(* What a call tracks stays true when others fork and processes die, if it is told. *)
LEMMA TrackedAfter ==
  ASSUME NEW P, Family(P), NEW Q, Family(Q), After(P, Q), NEW k, Base(P, k), Tracked(P, k),
         NEW j, j.stack = k.stack, j.root = k.root, j.listed = k.listed, k.excused \subseteq j.excused,
         k.stack = <<>> => j.excused = k.excused,
         k.stack # <<>> => \A x \in 1 .. Len(P) : P[x].alive /\ ~Q[x].alive => x \in Known(j),
         k.stack # <<>> => \A x \in 1 .. Len(Q) : x \notin 1 .. Len(P) /\ Q[x].born \in k.listed => x \in j.excused
  PROVE  Tracked(Q, j)
<1>0. /\ Len(P) \in Nat /\ Len(Q) \in Nat /\ Len(P) <= Len(Q)
      /\ k.root \in 0 .. Len(P) /\ k.listed \subseteq 1 .. Len(P)
  BY FamilyFacts, CallFacts DEF After
<1>1. Known(k) \subseteq Known(j) /\ \A x : Found(k, x) => Found(j, x)
  BY DEF Known, Found
<1>2. FramesAsk(j)
  BY <1>1 DEF Tracked, FramesAsk
<1>3. ASSUME k.stack # <<>> PROVE Underway(Q, j)
  <2>0. Underway(P, k)
    BY <1>3 DEF Tracked
  <2>1. \A x \in 1 .. Len(Q) : ~Q[x].alive => x \in Known(j)
    BY <1>1, <1>3, <2>0 DEF Underway, After
  <2>2. j.root # 0 => Found(j, j.root)
    BY <1>1, <2>0 DEF Underway
  <2>3. ASSUME NEW y \in 1 .. Len(Q), Q[y].born \in j.listed PROVE Found(j, y)
    <3>1. CASE y \in 1 .. Len(P)
      BY <1>1, <2>0, <2>3, <3>1 DEF Underway, After
    <3>2. CASE y \notin 1 .. Len(P)
      BY <1>3, <2>3, <3>2 DEF Found, Known
    <3>3. QED BY <3>1, <3>2
  <2>4. ASSUME NEW x \in j.listed, Q[x].alive PROVE x \in j.excused \/ Doomed(j, Q[x].pid)
    <3>1. x \in 1 .. Len(P) /\ P[x].alive /\ Q[x].pid = P[x].pid /\ x \in k.listed
      BY <1>0, <2>4 DEF After
    <3>2. QED BY <2>0, <3>1 DEF Underway, Doomed
  <2>5. QED BY <2>1, <2>2, <2>3, <2>4 DEF Underway
<1>4. ASSUME k.stack = <<>> PROVE Escaped(Q, j)
  <2>0. Escaped(P, k) /\ Ordered(P) /\ Ordered(Q)
    BY <1>4, FamilyFacts DEF Tracked
  <2>1. \A x \in 0 .. Len(P) : Lines(Q)[x] = Lines(P)[x]
    BY <1>0, <2>0, LineStable DEF After
  <2>2. SUFFICES ASSUME NEW x \in 1 .. Len(Q), Q[x].alive, k.root \in Lines(Q)[x]
                 PROVE  Lines(Q)[x] \cap k.excused # {}
    BY <1>4 DEF Escaped
  <2>3. CASE x \in 1 .. Len(P)
    <3>1. Lines(Q)[x] = Lines(P)[x] /\ P[x].alive
      BY <2>1, <2>2, <2>3 DEF After
    <3>2. QED BY <2>0, <2>2, <2>3, <3>1 DEF Escaped
  <2>4. CASE x \notin 1 .. Len(P)
    <3> DEFINE b == Q[x].born
    <3>1. b \in 1 .. Len(P) /\ P[b].alive
      BY <2>4 DEF After
    <3>2. Lines(Q)[x] = {x} \cup Lines(P)[b]
      BY <2>0, <2>1, <3>1, LinesUnfold
    <3>3. k.root # x
      BY <1>0, <2>4
    <3>4. Lines(P)[b] \cap k.excused # {}
      BY <2>0, <2>2, <3>1, <3>2, <3>3 DEF Escaped
    <3>5. QED BY <3>2, <3>4
  <2>5. QED BY <2>3, <2>4
<1>5. QED BY <1>2, <1>3, <1>4 DEF Tracked

LEMMA BaseAfter ==
  ASSUME NEW P, Family(P), NEW Q, Family(Q), After(P, Q), NEW k, Base(P, k)
  PROVE  Base(Q, k)
<1>0. Len(P) \in Nat /\ Len(Q) \in Nat /\ Len(P) <= Len(Q)
  BY FamilyFacts DEF After
<1>1. 1 .. Len(P) \subseteq 1 .. Len(Q) /\ 0 .. Len(P) \subseteq 0 .. Len(Q)
  BY <1>0
<1>2. FrameOf(Len(P)) \subseteq FrameOf(Len(Q))
  BY <1>1 DEF FrameOf
<1>3. Seq(FrameOf(Len(P))) \subseteq Seq(FrameOf(Len(Q)))
  BY <1>2
<1>4. CallOf(Len(P)) \subseteq CallOf(Len(Q))
  BY <1>1, <1>3 DEF CallOf
<1>5. ASSUME NEW i \in 1 .. Len(k.stack), NEW x \in k.stack[i].meant PROVE Q[x].pid = k.stack[i].pid
  <2>1. k.stack[i] \in FrameOf(Len(P))
    BY CallFacts
  <2>2. x \in 1 .. Len(P)
    BY <2>1 DEF FrameOf
  <2>3. QED BY <2>2 DEF Base, After
<1>6. QED BY <1>4, <1>5 DEF Base

(* A stack without its last frame. *)
LEMMA Popped ==
  ASSUME NEW S, NEW st \in Seq(S), st # <<>>
  PROVE  /\ Len(st) \in Nat \ {0} /\ SubSeq(st, 1, Len(st) - 1) \in Seq(S)
         /\ Len(SubSeq(st, 1, Len(st) - 1)) = Len(st) - 1
         /\ \A i \in 1 .. Len(st) - 1 : SubSeq(st, 1, Len(st) - 1)[i] = st[i]
<1>1. Len(st) \in Nat \ {0}
  OBVIOUS
<1>2. \A i \in 1 .. Len(st) - 1 : st[i] \in S
  BY <1>1
<1>3. SubSeq(st, 1, Len(st) - 1) = [i \in 1 .. Len(st) - 1 |-> st[i]]
  BY <1>1
<1> DEFINE g == [i \in 1 .. Len(st) - 1 |-> st[i]]
<1>4. g \in Seq(S) /\ Len(g) = Len(st) - 1
  BY <1>1, <1>2
<1>5. QED BY <1>1, <1>3, <1>4

(* A call pops a frame whose PID nobody has any more but whom it excuses. *)
LEMMA TrackedPop ==
  ASSUME NEW P, Family(P), NEW k, Base(P, k), Tracked(P, k), k.stack # <<>>,
         NEW f, f = k.stack[Len(k.stack)], f.asked, f.todo = {},
         NEW j, j.stack = SubSeq(k.stack, 1, Len(k.stack) - 1), j.root = k.root, j.listed = k.listed,
         k.excused \subseteq j.excused,
         \A x \in 1 .. Len(P) : P[x].alive /\ P[x].pid = f.pid => x \in j.excused
  PROVE  Tracked(P, j)
<1> DEFINE n == Len(k.stack)
<1>0. /\ n \in Nat \ {0} /\ Len(j.stack) = n - 1 /\ j.stack \in Seq(FrameOf(Len(P)))
      /\ \A i \in 1 .. n - 1 : j.stack[i] = k.stack[i]
      /\ k.listed \subseteq 1 .. Len(P)
  BY CallFacts, Popped
<1>1. Known(k) \subseteq Known(j) /\ Underway(P, k) /\ FramesAsk(k)
  BY DEF Known, Tracked
<1>2. ASSUME NEW x, Found(k, x) PROVE Found(j, x)
  <2>1. CASE x \in Known(k)
    BY <1>1, <2>1 DEF Found
  <2>2. CASE x \notin Known(k)
    <3>1. PICK i \in 1 .. n : Ahead(k.stack[i], x)
      BY <1>2, <2>2 DEF Found
    <3>2. i # n
      BY <3>1 DEF Ahead
    <3>3. i \in 1 .. n - 1
      BY <1>0, <3>2
    <3>4. QED BY <1>0, <3>1, <3>3 DEF Found
  <2>3. QED BY <2>1, <2>2
<1>3. FramesAsk(j)
  <2>1. \A i \in 1 .. n - 1 : i \in 1 .. n
    BY <1>0
  <2>2. QED BY <1>0, <1>1, <2>1 DEF FramesAsk
<1>4. ASSUME NEW x \in k.listed, P[x].alive
      PROVE  \/ x \in j.excused
             \/ \E i \in 1 .. n - 1 : k.stack[i].asked /\ k.stack[i].pid = P[x].pid
  <2> SUFFICES ASSUME x \notin j.excused
               PROVE  \E i \in 1 .. n - 1 : k.stack[i].asked /\ k.stack[i].pid = P[x].pid
    OBVIOUS
  <2>1. PICK i \in 1 .. n : k.stack[i].asked /\ k.stack[i].pid = P[x].pid
    BY <1>1, <1>4 DEF Underway, Doomed
  <2>2. i # n
    BY <1>0, <1>4, <2>1
  <2>3. i \in 1 .. n - 1
    BY <1>0, <2>2
  <2>4. QED BY <2>1, <2>3
<1>5. ASSUME j.stack # <<>> PROVE Underway(P, j)
  <2>1. ASSUME NEW x \in j.listed, P[x].alive, x \notin j.excused PROVE Doomed(j, P[x].pid)
    <3>1. PICK i \in 1 .. n - 1 : k.stack[i].asked /\ k.stack[i].pid = P[x].pid
      BY <1>4, <2>1
    <3>2. i \in 1 .. Len(j.stack) /\ j.stack[i] = k.stack[i]
      BY <1>0
    <3>3. QED BY <3>1, <3>2 DEF Doomed
  <2>2. QED BY <1>1, <1>2, <2>1 DEF Underway
<1>6. ASSUME j.stack = <<>> PROVE Escaped(P, j)
  <2>0. /\ n - 1 = 0 /\ Ordered(P) /\ Len(P) \in Nat
    BY <1>0, <1>6, FamilyFacts
  <2>1. \A x : Found(j, x) => x \in Known(j)
    <3>1. 1 .. Len(j.stack) = {}
      BY <1>0, <2>0
    <3>2. QED BY <1>1, <3>1 DEF Found
  <2>2. \A x \in k.listed : P[x].alive => x \in j.excused
    BY <1>4, <2>0
  <2> DEFINE T == {x \in 1 .. Len(P) : /\ k.root \in Lines(P)[x] /\ Lines(P)[x] \cap j.excused = {}
                                      /\ x \notin k.listed}
  <2>3. T = {}
    <3>1. SUFFICES ASSUME T # {} PROVE FALSE
      OBVIOUS
    <3>2. PICK m \in T : \A u \in T : m <= u
      <4>1. T \in SUBSET Nat
        BY <2>0
      <4>2. QED BY <3>1, <4>1, LeastNat
    <3>3. /\ m \in 1 .. Len(P) /\ k.root \in Lines(P)[m] /\ Lines(P)[m] \cap j.excused = {}
          /\ m \notin k.listed
      BY <3>2
    <3> DEFINE b == P[m].born
    <3>4. Lines(P)[m] = {m} \cup Lines(P)[b] /\ Lines(P)[0] = {} /\ b \in 0 .. m - 1 /\ b \in 0 .. Len(P)
      BY <2>0, <3>3, LinesUnfold DEF Ordered
    <3>5. k.root \in 1 .. m
      <4>1. m \in 0 .. Len(P)
        BY <3>3
      <4>2. QED BY <2>0, <3>3, <4>1, LineRange
    <3>6. m \notin Known(j)
      BY <3>3, <3>4 DEF Known
    <3>7. CASE k.root = m
      <4>1. Found(j, k.root)
        BY <1>1, <1>2, <3>5 DEF Underway
      <4>2. QED BY <2>1, <3>6, <3>7, <4>1
    <3>8. CASE k.root # m
      <4>1. k.root \in Lines(P)[b] /\ b # 0
        BY <3>3, <3>4, <3>8
      <4>2. b \in 1 .. Len(P) /\ Lines(P)[b] \cap j.excused = {} /\ ~ (m <= b)
        BY <3>3, <3>4, <4>1
      <4>3. b \in k.listed
        BY <3>2, <4>1, <4>2
      <4>4. Found(j, m)
        BY <1>1, <1>2, <3>3, <4>3 DEF Underway
      <4>5. QED BY <2>1, <3>6, <4>4
    <3>9. QED BY <3>7, <3>8
  <2>4. \A x \in 1 .. Len(P) : x \in Lines(P)[x]
    BY <2>0, LinesUnfold
  <2>5. QED BY <2>2, <2>3, <2>4 DEF Escaped
<1>7. QED BY <1>3, <1>5, <1>6 DEF Tracked

LEMMA BasePop ==
  ASSUME NEW P, Family(P), NEW k, Base(P, k), k.stack # <<>>,
         NEW j \in CallOf(Len(P)), j.stack = SubSeq(k.stack, 1, Len(k.stack) - 1)
  PROVE  Base(P, j)
<1> DEFINE n == Len(k.stack)
<1>1. /\ n \in Nat \ {0} /\ Len(j.stack) = n - 1
      /\ \A i \in 1 .. n - 1 : j.stack[i] = k.stack[i]
  BY CallFacts, Popped
<1>2. \A i \in 1 .. n - 1 : i \in 1 .. n
  BY <1>1
<1>3. QED BY <1>1, <1>2 DEF Base

LEMMA TrackedBegin ==
  ASSUME NEW P, Family(P), NEW f, ~f.asked, f.todo = {},
         NEW j, j.stack = <<f>>, j.listed = {}, j.excused = {x \in 1 .. Len(P) : ~P[x].alive},
         j.root = 0 \/ j.root \in f.meant
  PROVE  Tracked(P, j)
<1>1. j.stack # <<>> /\ 1 .. Len(j.stack) = {1} /\ j.stack[1] = f
  OBVIOUS
<1>2. FramesAsk(j)
  BY <1>1 DEF FramesAsk
<1>3. j.root # 0 => Found(j, j.root)
  BY <1>1 DEF Found, Ahead
<1>4. Underway(P, j)
  BY <1>3 DEF Underway, Known
<1>5. QED BY <1>1, <1>2, <1>4 DEF Tracked

(* The last frame of a stack is replaced. *)
LEMMA Replaced ==
  ASSUME NEW S, NEW st \in Seq(S), st # <<>>, NEW g
  PROVE  /\ Len(st) \in Nat \ {0} /\ [st EXCEPT ![Len(st)] = g] # <<>>
         /\ Len([st EXCEPT ![Len(st)] = g]) = Len(st) /\ [st EXCEPT ![Len(st)] = g][Len(st)] = g
         /\ \A i \in 1 .. Len(st) - 1 : [st EXCEPT ![Len(st)] = g][i] = st[i]
         /\ g \in S => [st EXCEPT ![Len(st)] = g] \in Seq(S)
<1>1. Len(st) \in Nat \ {0} /\ DOMAIN st = 1 .. Len(st) /\ st = [i \in 1 .. Len(st) |-> st[i]]
  OBVIOUS
<1> DEFINE n == Len(st)  new == [i \in 1 .. n |-> IF i = n THEN g ELSE st[i]]
<1>2. [st EXCEPT ![n] = g] = new
  BY <1>1
<1>3. st \in Seq(S \cup {g}) /\ \A i \in 1 .. n : st[i] \in S
  BY <1>1
<1>4. new \in Seq(S \cup {g}) /\ Len(new) = n /\ new[n] = g /\ \A i \in 1 .. n - 1 : new[i] = st[i]
  BY <1>1, <1>3
<1>5. new # <<>>
  BY <1>1, <1>4
<1>6. g \in S => new \in Seq(S)
  BY <1>1, <1>3
<1>7. QED BY <1>1, <1>2, <1>4, <1>5, <1>6

(* What a call learns when it asks for the children of H: who they are, or nothing. *)
HolderIn(P, pid) == {x \in 1 .. Len(P) : P[x].alive /\ P[x].pid = pid}

Listed(P, k, j, f, g, H) ==
  \/ /\ g.todo = {y \in 1 .. Len(P) : P[y].alive /\ P[y].parent \in H}
     /\ j.listed = k.listed \cup H /\ j.excused = k.excused
  \/ g.todo = f.todo /\ j.listed = k.listed /\ j.excused = k.excused \cup H

(* pgrep names the children of whoever has the PID of the last frame, or fails. *)
LEMMA TrackedList ==
  ASSUME NEW P, Family(P), NEW k, Base(P, k), Tracked(P, k), k.stack # <<>>,
         NEW f, f = k.stack[Len(k.stack)], ~f.asked,
         NEW H, H = HolderIn(P, f.pid),
         NEW g, g.asked, g.meant = f.meant, g.pid = f.pid,
         NEW j, j.stack = [k.stack EXCEPT ![Len(k.stack)] = g], j.root = k.root,
         Listed(P, k, j, f, g, H)
  PROVE  Tracked(P, j)
<1> DEFINE n == Len(k.stack)
<1>0. /\ n \in Nat \ {0} /\ Len(j.stack) = n /\ j.stack[n] = g /\ j.stack # <<>>
      /\ \A i \in 1 .. n - 1 : j.stack[i] = k.stack[i]
  <2>1. k.stack \in Seq(FrameOf(Len(P)))
    BY CallFacts
  <2>2. QED BY <2>1, Replaced
<1>n. \A i \in 1 .. n : i \in 1 .. n - 1 \/ i = n
  BY <1>0
<1>1. /\ Underway(P, k) /\ FramesAsk(k) /\ f.todo = {} /\ n \in 1 .. n
      /\ Known(k) \subseteq Known(j) /\ H \subseteq Known(j)
  BY <1>0 DEF Tracked, FramesAsk, Known, Listed
<1>2. f.meant \subseteq Known(j)
  <2>1. ASSUME NEW x \in f.meant PROVE x \in Known(j)
    <3>1. k.stack[n] \in FrameOf(Len(P))
      BY <1>1, CallFacts
    <3>2. x \in 1 .. Len(P) /\ P[x].pid = f.pid
      BY <1>1, <3>1 DEF Base, FrameOf
    <3>3. CASE P[x].alive
      BY <1>1, <3>2, <3>3 DEF HolderIn
    <3>4. CASE ~P[x].alive
      BY <1>1, <3>2, <3>4 DEF Underway
    <3>5. QED BY <3>3, <3>4
  <2>2. QED BY <2>1
<1>3. ASSUME NEW x, Found(k, x) PROVE Found(j, x)
  <2>1. CASE x \in Known(k)
    BY <1>1, <2>1 DEF Found
  <2>2. CASE x \notin Known(k)
    <3>1. PICK i \in 1 .. n : Ahead(k.stack[i], x)
      BY <1>3, <2>2 DEF Found
    <3>2. CASE i = n
      BY <1>1, <1>2, <3>1, <3>2 DEF Found, Ahead
    <3>3. CASE i # n
      BY <1>0, <1>n, <3>1, <3>3 DEF Found
    <3>4. QED BY <3>2, <3>3
  <2>3. QED BY <2>1, <2>2
<1>4. FramesAsk(j)
  <2>1. ASSUME NEW i \in 1 .. n
        PROVE  IF j.stack[i].asked THEN j.stack[i].meant \subseteq Known(j) ELSE j.stack[i].todo = {}
    <3>1. CASE i = n
      BY <1>0, <1>2, <3>1
    <3>2. CASE i # n
      <4>1. j.stack[i] = k.stack[i]
        BY <1>0, <1>n, <3>2
      <4>2. QED BY <1>1, <4>1 DEF FramesAsk
    <3>3. QED BY <3>1, <3>2
  <2>2. QED BY <1>0, <2>1 DEF FramesAsk
<1>5. ASSUME NEW y \in 1 .. Len(P), P[y].born \in j.listed PROVE Found(j, y)
  <2>1. CASE P[y].born \in k.listed
    BY <1>1, <1>3, <2>1 DEF Underway
  <2>2. CASE P[y].born \notin k.listed
    <3>1. P[y].born \in H /\ g.todo = {x \in 1 .. Len(P) : P[x].alive /\ P[x].parent \in H}
      BY <1>5, <2>2 DEF Listed
    <3>2. CASE ~P[y].alive
      BY <1>1, <3>2 DEF Underway, Found
    <3>3. CASE P[y].alive
      <4>1. P[y].parent = P[y].born
        BY <3>1 DEF Family, HolderIn
      <4>2. y \in g.todo
        BY <3>1, <3>3, <4>1
      <4>3. Ahead(j.stack[n], y)
        BY <1>0, <4>2 DEF Ahead
      <4>4. QED BY <1>0, <1>1, <4>3 DEF Found
    <3>4. QED BY <3>2, <3>3
  <2>3. QED BY <2>1, <2>2
<1>6. ASSUME NEW x \in j.listed, P[x].alive, x \notin j.excused
      PROVE  \E i \in 1 .. n : j.stack[i].asked /\ j.stack[i].pid = P[x].pid
  <2>1. CASE x \in H
    BY <1>0, <1>1, <2>1 DEF HolderIn
  <2>2. CASE x \notin H
    <3>0. x \in k.listed
      BY <1>6, <2>2 DEF Listed
    <3>1. PICK i \in 1 .. n : k.stack[i].asked /\ k.stack[i].pid = P[x].pid
      BY <1>1, <1>6, <3>0 DEF Underway, Listed, Doomed
    <3>2. i # n
      BY <3>1
    <3>3. QED BY <1>0, <1>n, <3>1, <3>2
  <2>3. QED BY <2>1, <2>2
<1>7. Underway(P, j)
  <2>1. \A x \in 1 .. Len(P) : ~P[x].alive => x \in Known(j)
    BY <1>1 DEF Underway
  <2>2. j.root # 0 => Found(j, j.root)
    BY <1>1, <1>3 DEF Underway
  <2>3. QED BY <1>0, <1>5, <1>6, <2>1, <2>2 DEF Underway, Doomed
<1>8. QED BY <1>0, <1>4, <1>7 DEF Tracked

(* A frame h on top of a stack whose last frame has become g. *)
Pushed(stack, g, h) == Append([stack EXCEPT ![Len(stack)] = g], h)

(* A call goes on to a process its last frame has to do. *)
LEMMA TrackedDescend ==
  ASSUME NEW P, Family(P), NEW k, Base(P, k), Tracked(P, k), k.stack # <<>>,
         NEW f, f = k.stack[Len(k.stack)], NEW y \in f.todo,
         NEW g, g.asked = f.asked, g.meant = f.meant, g.pid = f.pid, g.todo = f.todo \ {y},
         NEW h, ~h.asked, h.meant = {y}, h.todo = {},
         NEW j, j.stack = Pushed(k.stack, g, h), j.root = k.root,
         j.listed = k.listed, j.excused = k.excused
  PROVE  Tracked(P, j)
<1> DEFINE n == Len(k.stack)
<1>0. /\ n \in Nat \ {0} /\ Len(j.stack) = n + 1 /\ j.stack[n] = g /\ j.stack[n + 1] = h
      /\ j.stack # <<>> /\ \A i \in 1 .. n - 1 : j.stack[i] = k.stack[i]
  <2> DEFINE st == [k.stack EXCEPT ![n] = g]
  <2>1. k.stack \in Seq(FrameOf(Len(P)) \cup {g, h})
    <3>1. k.stack \in Seq(FrameOf(Len(P)))
      BY CallFacts
    <3>2. QED BY <3>1
  <2>2. /\ n \in Nat \ {0} /\ st \in Seq(FrameOf(Len(P)) \cup {g, h}) /\ Len(st) = n /\ st[n] = g
        /\ \A i \in 1 .. n - 1 : st[i] = k.stack[i]
    BY <2>1, Replaced
  <2> HIDE DEF st, n
  <2>3. /\ Len(Append(st, h)) = n + 1 /\ Append(st, h)[n + 1] = h
        /\ \A i \in 1 .. n : Append(st, h)[i] = st[i]
    BY <2>2
  <2>4. j.stack = Append(st, h) /\ n \in 1 .. n /\ \A i \in 1 .. n - 1 : i \in 1 .. n
    BY <2>2 DEF st, n, Pushed
  <2>5. j.stack # <<>>
    BY <2>2, <2>3, <2>4
  <2>6. QED BY <2>2, <2>3, <2>4, <2>5
<1>n. /\ \A i \in 1 .. n : i \in 1 .. n - 1 \/ i = n
      /\ \A i \in 1 .. n + 1 : i \in 1 .. n - 1 \/ i = n \/ i = n + 1
      /\ \A i \in 1 .. n - 1 : i \in 1 .. n /\ i \in 1 .. n + 1
      /\ n \in 1 .. n /\ n \in 1 .. n + 1 /\ n + 1 \in 1 .. n + 1
  BY <1>0
<1>1. Underway(P, k) /\ FramesAsk(k) /\ Known(j) = Known(k)
  BY DEF Tracked, Known
<1>2. ASSUME NEW x, Found(k, x) PROVE Found(j, x)
  <2>1. CASE x \in Known(k)
    BY <1>1, <2>1 DEF Found
  <2>2. CASE x \notin Known(k)
    <3>1. PICK i \in 1 .. n : Ahead(k.stack[i], x)
      BY <1>2, <2>2 DEF Found
    <3>2. CASE i = n
      <4>1. CASE x = y
        BY <1>0, <1>n, <4>1 DEF Found, Ahead
      <4>2. CASE x # y
        BY <1>0, <1>n, <3>1, <3>2, <4>2 DEF Found, Ahead
      <4>3. QED BY <4>1, <4>2
    <3>3. CASE i # n
      BY <1>0, <1>n, <3>1, <3>3 DEF Found
    <3>4. QED BY <3>2, <3>3
  <2>3. QED BY <2>1, <2>2
<1>3. FramesAsk(j)
  <2>1. ASSUME NEW i \in 1 .. n + 1
        PROVE  IF j.stack[i].asked THEN j.stack[i].meant \subseteq Known(j) ELSE j.stack[i].todo = {}
    <3>1. CASE i = n
      BY <1>0, <1>1, <1>n, <3>1 DEF FramesAsk
    <3>2. CASE i = n + 1
      BY <1>0, <3>2
    <3>3. CASE i \in 1 .. n - 1
      <4>1. j.stack[i] = k.stack[i] /\ i \in 1 .. n
        BY <1>0, <1>n, <3>3
      <4>2. QED BY <1>1, <4>1 DEF FramesAsk
    <3>4. QED BY <1>n, <3>1, <3>2, <3>3
  <2>2. QED BY <1>0, <2>1 DEF FramesAsk
<1>4. ASSUME NEW x \in j.listed, P[x].alive, x \notin j.excused
      PROVE  \E i \in 1 .. n + 1 : j.stack[i].asked /\ j.stack[i].pid = P[x].pid
  <2>1. PICK i \in 1 .. n : k.stack[i].asked /\ k.stack[i].pid = P[x].pid
    BY <1>1, <1>4 DEF Underway, Doomed
  <2>2. j.stack[i].asked = k.stack[i].asked /\ j.stack[i].pid = k.stack[i].pid
    <3>1. CASE i = n
      BY <1>0, <3>1
    <3>2. CASE i \in 1 .. n - 1
      BY <1>0, <3>2
    <3>3. QED BY <1>n, <3>1, <3>2
  <2>3. i \in 1 .. n + 1
    BY <1>0, <1>n
  <2>4. QED BY <2>1, <2>2, <2>3
<1>5. Underway(P, j)
  <2>1. j.root # 0 => Found(j, j.root)
    BY <1>1, <1>2 DEF Underway
  <2>2. \A x \in 1 .. Len(P) : P[x].born \in j.listed => Found(j, x)
    BY <1>1, <1>2 DEF Underway
  <2>3. QED BY <1>0, <1>1, <1>4, <2>1, <2>2 DEF Underway, Doomed
<1>6. QED BY <1>0, <1>3, <1>5 DEF Tracked

-----------------------------------------------------------------------------
LEMMA FamilyFork ==
  ASSUME Family(procs), NEW x \in 1 .. Len(procs), procs[x].alive, NEW pid \in KillPids, Holder(pid) = {},
         procs' = Append(procs, [pid |-> pid, born |-> x, parent |-> x, alive |-> TRUE])
  PROVE  Family(procs') /\ After(procs, procs') /\ Len(procs') = Len(procs) + 1
<1> DEFINE n == Len(procs)  new == [pid |-> pid, born |-> x, parent |-> x, alive |-> TRUE]
<1>1. /\ procs \in Seq(HostProcess) /\ n \in Nat /\ new \in HostProcess /\ x \in Nat
      /\ \A y \in 1 .. n : procs[y] \in HostProcess
  <2>1. procs \in Seq(HostProcess) /\ n \in Nat /\ x \in Nat /\ \A y \in 1 .. n : procs[y] \in HostProcess
    BY FamilyFacts DEF Family
  <2>2. new \in HostProcess
    BY <2>1 DEF HostProcess
  <2>3. QED BY <2>1, <2>2
<1>2. /\ procs' \in Seq(HostProcess) /\ Len(procs') = n + 1 /\ procs'[n + 1] = new
      /\ \A y \in 1 .. n : procs'[y] = procs[y]
  BY <1>1
<1>3. /\ \A y \in 1 .. n + 1 : y \in 1 .. n \/ y = n + 1
      /\ \A y \in 1 .. n : y \in 1 .. n + 1
      /\ \A y \in 1 .. n : procs[y].born # 0 => procs[y].born \in 1 .. n
      /\ \A y \in 1 .. n : procs[y].alive => procs[y].pid # pid
  <2>1. \A y \in 1 .. n : procs[y].born \in 0 .. y - 1
    BY DEF Family
  <2>2. \A y \in 1 .. n : procs[y].alive => procs[y].pid # pid
    BY FamilyFacts DEF Holder
  <2>3. QED BY <1>1, <2>1, <2>2
<1> HIDE DEF n
<1>4. \A y \in 1 .. n + 1 : procs'[y].born \in 0 .. y - 1
  <2>1. \A y \in 1 .. n : procs[y].born \in 0 .. y - 1
    BY DEF Family, n
  <2>2. procs'[n + 1].born \in 0 .. (n + 1) - 1
    BY <1>1, <1>2 DEF n
  <2>3. QED BY <1>2, <1>3, <2>1, <2>2
<1>5. \A y \in 1 .. n + 1 : procs'[y].born # 0 /\ procs'[procs'[y].born].alive =>
        procs'[y].parent = procs'[y].born
  <2>1. ASSUME NEW y \in 1 .. n, procs'[y].born # 0, procs'[procs'[y].born].alive
        PROVE  procs'[y].parent = procs'[y].born
    <3>1. procs'[y] = procs[y] /\ procs[y].born \in 1 .. n
      BY <1>2, <1>3, <2>1
    <3>2. procs'[procs[y].born] = procs[procs[y].born]
      BY <1>2, <3>1
    <3>3. procs[procs[y].born].alive /\ procs[y].born # 0
      BY <2>1, <3>1, <3>2
    <3>4. QED BY <3>1, <3>3 DEF Family, n
  <2>2. procs'[n + 1].parent = procs'[n + 1].born
    BY <1>2
  <2>3. QED BY <1>3, <2>1, <2>2
<1>6. \A y, z \in 1 .. n + 1 : procs'[y].alive /\ procs'[z].alive /\ procs'[y].pid = procs'[z].pid => y = z
  BY <1>2, <1>3 DEF Family, n
<1>7. Family(procs')
  BY <1>2, <1>4, <1>5, <1>6 DEF Family
<1>8. After(procs, procs')
  <2>1. Len(procs) <= Len(procs')
    BY <1>1, <1>2 DEF n
  <2>2. x \in 1 .. Len(procs)
    OBVIOUS
  <2>3. QED BY <1>2, <1>3, <2>1, <2>2 DEF After, n
<1>9. QED BY <1>2, <1>7, <1>8 DEF n

LEMMA FamilyDead ==
  ASSUME Family(procs), NEW x \in 1 .. Len(procs), procs' = Dead(x)
  PROVE  /\ Family(procs') /\ After(procs, procs') /\ Len(procs') = Len(procs)
         /\ \A y \in 1 .. Len(procs) : procs[y].alive /\ ~procs'[y].alive => y = x
         /\ ~procs'[x].alive
<1> DEFINE n == Len(procs)
<1>1. /\ procs \in Seq(HostProcess) /\ n \in Nat /\ DOMAIN procs = 1 .. n
      /\ \A y \in 1 .. n : procs[y] \in HostProcess
  BY FamilyFacts DEF Family
<1>2. procs' = [y \in 1 .. n |-> [procs[y] EXCEPT !.alive = @ /\ y # x, !.parent = IF @ = x THEN 0 ELSE @]]
  BY <1>1 DEF Dead
<1>3. ASSUME NEW y \in 1 .. n
      PROVE  /\ procs'[y] \in HostProcess /\ procs'[y].pid = procs[y].pid /\ procs'[y].born = procs[y].born
             /\ procs'[y].alive <=> procs[y].alive /\ y # x
             /\ procs'[y].parent = IF procs[y].parent = x THEN 0 ELSE procs[y].parent
  <2> DEFINE p == procs[y]  q == [p EXCEPT !.alive = p.alive /\ y # x, !.parent = IF p.parent = x THEN 0 ELSE p.parent]
  <2>1. procs'[y] = q
    BY <1>2
  <2>2. p \in HostProcess
    BY <1>1
  <2> HIDE DEF p
  <2>3. /\ q \in HostProcess /\ q.pid = p.pid /\ q.born = p.born
        /\ q.alive <=> p.alive /\ y # x
        /\ q.parent = IF p.parent = x THEN 0 ELSE p.parent
    BY <2>2 DEF HostProcess
  <2>4. QED BY <2>1, <2>3 DEF p
<1>4. procs' \in Seq(HostProcess) /\ Len(procs') = n
  <2>1. procs' = [y \in 1 .. n |-> procs'[y]]
    BY <1>2
  <2> DEFINE Q == procs'
  <2>2. Q = [y \in 1 .. n |-> Q[y]] /\ \A y \in 1 .. n : Q[y] \in HostProcess
    BY <1>3, <2>1
  <2> HIDE DEF Q
  <2>3. Q \in Seq(HostProcess) /\ Len(Q) = n
    BY <1>1, <2>2
  <2>4. QED BY <2>3 DEF Q
<1>5. Family(procs')
  <2>1. \A y \in 1 .. n : procs'[y].born \in 0 .. y - 1
    BY <1>3 DEF Family
  <2>2. ASSUME NEW y \in 1 .. n, procs'[y].born # 0, procs'[procs'[y].born].alive
        PROVE  procs'[y].parent = procs'[y].born
    <3> DEFINE b == procs[y].born
    <3>1. procs'[y].born = b /\ b \in 0 .. y - 1
      BY <1>3 DEF Family
    <3>2. b \in 1 .. n
      BY <1>1, <2>2, <3>1
    <3>3. procs[b].alive /\ b # x
      BY <1>3, <2>2, <3>1, <3>2
    <3>4. procs[y].parent = b
      BY <2>2, <3>1, <3>3 DEF Family
    <3>5. QED BY <1>3, <3>1, <3>3, <3>4
  <2>3. \A y, z \in 1 .. n : procs'[y].alive /\ procs'[z].alive /\ procs'[y].pid = procs'[z].pid => y = z
    BY <1>3 DEF Family
  <2>4. QED BY <1>4, <2>1, <2>2, <2>3 DEF Family
<1>6. After(procs, procs')
  BY <1>1, <1>3, <1>4 DEF After
<1>7. QED BY <1>3, <1>4, <1>5, <1>6

(* Calls that others' steps excuse. *)
LEMMA Excused ==
  ASSUME NEW P, Family(P), NEW k, Base(P, k), NEW E \in SUBSET (1 .. Len(P)),
         NEW j, j = [k EXCEPT !.excused = k.excused \cup E]
  PROVE  /\ Base(P, j) /\ j.stack = k.stack /\ j.root = k.root /\ j.listed = k.listed
         /\ j.excused = k.excused \cup E
<1>1. k \in CallOf(Len(P))
  BY DEF Base
<1>2. /\ j \in CallOf(Len(P)) /\ j.stack = k.stack /\ j.root = k.root /\ j.listed = k.listed
      /\ j.excused = k.excused \cup E
  BY <1>1 DEF CallOf
<1>3. QED BY <1>2 DEF Base

LEMMA TreeFork ==
  ASSUME TreeInv, UNCHANGED platform, NEW x \in DOMAIN procs, Fork(x) PROVE TreeInv'
<1>1. PICK pid \in KillPids :
        Holder(pid) = {} /\ procs' = Append(procs, [pid |-> pid, born |-> x, parent |-> x, alive |-> TRUE])
  BY DEF Fork
<1>2. /\ procs[x].alive
      /\ kcall' = [c \in KillCallers |->
           IF Killing(c) /\ x \in kcall[c].listed
           THEN [kcall[c] EXCEPT !.excused = @ \cup {Len(procs) + 1}] ELSE kcall[c]]
  BY DEF Fork
<1>3. Family(procs) /\ x \in 1 .. Len(procs)
  BY FamilyFacts DEF TreeInv
<1>4. Family(procs') /\ After(procs, procs') /\ Len(procs') = Len(procs) + 1
  BY <1>1, <1>2, <1>3, FamilyFork
<1>5. ASSUME NEW c \in KillCallers
      PROVE  Base(procs', kcall'[c]) /\ (platform # "windows" => Tracked(procs', kcall'[c]))
  <2> DEFINE k == kcall[c]  j == kcall'[c]  new == Len(procs) + 1
  <2>1. Base(procs, k) /\ (platform # "windows" => Tracked(procs, k))
    BY DEF TreeInv
  <2>2. Base(procs', k)
    BY <1>3, <1>4, <2>1, BaseAfter
  <2>3. Len(procs) \in Nat /\ {new} \in SUBSET (1 .. Len(procs'))
    BY <1>3, <1>4, FamilyFacts
  <2>4. procs'[new].born = x /\ \A y \in 1 .. Len(procs') : y \notin 1 .. Len(procs) => y = new
    <3>1. procs \in Seq(HostProcess)
      BY <1>3 DEF Family
    <3>2. QED BY <1>1, <1>4, <2>3, <3>1
  <2>5. CASE Killing(c) /\ x \in k.listed
    <3> DEFINE E == {new}
    <3>1. j = [k EXCEPT !.excused = k.excused \cup E]
      BY <1>2, <2>5
    <3>0. Family(procs') /\ E \in SUBSET (1 .. Len(procs')) /\ E = {new}
      BY <1>4, <2>3
    <3> HIDE DEF j, k, new, E
    <3>2. /\ Base(procs', j) /\ j.stack = k.stack /\ j.root = k.root /\ j.listed = k.listed
          /\ j.excused = k.excused \cup {new}
      BY <2>2, <3>0, <3>1, Excused
    <3>3. k.stack # <<>>
      BY <2>5 DEF Killing, k
    <3>4. \A y \in 1 .. Len(procs) : ~(procs[y].alive /\ ~procs'[y].alive)
      <4>1. procs \in Seq(HostProcess)
        BY <1>3 DEF Family
      <4>2. \A y \in 1 .. Len(procs) : procs'[y] = procs[y]
        BY <1>1, <2>3, <4>1
      <4>3. QED BY <4>2
    <3>5. platform # "windows" => Tracked(procs', j)
      BY <1>3, <1>4, <2>1, <2>4, <3>2, <3>3, <3>4, TrackedAfter
    <3>6. QED BY <3>2, <3>5 DEF j
  <2>6. CASE ~(Killing(c) /\ x \in k.listed)
    <3>1. j = k
      BY <1>2, <2>6
    <3>2. k.stack # <<>> => x \notin k.listed
      BY <2>6 DEF Killing
    <3> HIDE DEF j, k, new
    <3>3. \A y \in 1 .. Len(procs) : ~(procs[y].alive /\ ~procs'[y].alive)
      <4>1. procs \in Seq(HostProcess)
        BY <1>3 DEF Family
      <4>2. \A y \in 1 .. Len(procs) : procs'[y] = procs[y]
        BY <1>1, <2>3, <4>1
      <4>3. QED BY <4>2
    <3>4. platform # "windows" => Tracked(procs', k)
      BY <1>3, <1>4, <2>1, <2>4, <3>2, <3>3, TrackedAfter
    <3>5. QED BY <2>2, <3>1, <3>4 DEF j
  <2>7. QED BY <2>5, <2>6
<1>6. DOMAIN kcall' = KillCallers
  BY <1>2
<1>7. QED BY <1>4, <1>5, <1>6 DEF TreeInv

(* A death, for a call that it may excuse. *)
LEMMA CallDeath ==
  ASSUME TreeInv, NEW x \in 1 .. Len(procs), procs' = Dead(x), NEW c \in KillCallers, NEW j,
         \/ j = Gone(x)[c]
         \/ j = kcall[c] /\ (Killing(c) => x \in Known(kcall[c]))
  PROVE  /\ Base(procs', j) /\ j.stack = kcall[c].stack
         /\ platform # "windows" => Tracked(procs', j)
<1> DEFINE k == kcall[c]
<1>1. /\ Family(procs) /\ Base(procs, k) /\ (platform # "windows" => Tracked(procs, k))
      /\ (Killing(c) <=> k.stack # <<>>)
  BY DEF TreeInv, Killing
<1>2. /\ Family(procs') /\ After(procs, procs') /\ Len(procs') = Len(procs)
      /\ \A y \in 1 .. Len(procs) : procs[y].alive /\ ~procs'[y].alive => y = x
  BY <1>1, FamilyDead
<1>3. Base(procs', k) /\ \A y \in 1 .. Len(procs') : y \in 1 .. Len(procs)
  BY <1>1, <1>2, BaseAfter
<1>4. CASE j = k /\ (k.stack # <<>> => x \in Known(k))
  <2>1. platform # "windows" => Tracked(procs', j)
    BY <1>1, <1>2, <1>3, <1>4, TrackedAfter
  <2>2. QED BY <1>3, <1>4, <2>1
<1>5. CASE k.stack # <<>> /\ x \notin k.listed /\ j = [k EXCEPT !.excused = k.excused \cup {x}]
  <2> DEFINE E == {x}
  <2>1. Base(procs', k) /\ Family(procs') /\ E \in SUBSET (1 .. Len(procs')) /\ j = [k EXCEPT !.excused = k.excused \cup E]
    BY <1>2, <1>3, <1>5
  <2> DEFINE Q == procs'
  <2>0. Base(Q, k) /\ Family(Q) /\ E \in SUBSET (1 .. Len(Q)) /\ j = [k EXCEPT !.excused = k.excused \cup E]
    BY <2>1
  <2> HIDE DEF E, k, Q
  <2>2. /\ Base(Q, j) /\ j.stack = k.stack /\ j.root = k.root /\ j.listed = k.listed
        /\ j.excused = k.excused \cup E
    BY <2>0, Excused
  <2>3. x \in Known(j) /\ k.excused \subseteq j.excused
    BY <2>2 DEF Known, E
  <2>4. ASSUME platform # "windows" PROVE Tracked(procs', j)
    <3>1. Family(procs) /\ Family(procs') /\ After(procs, procs') /\ Base(procs, k) /\ Tracked(procs, k)
      BY <1>1, <1>2, <2>4
    <3>2. k.stack # <<>> => \A y \in 1 .. Len(procs) : procs[y].alive /\ ~procs'[y].alive => y \in Known(j)
      BY <1>2, <2>3
    <3>3. k.stack # <<>> =>
            \A y \in 1 .. Len(procs') : y \notin 1 .. Len(procs) /\ procs'[y].born \in k.listed => y \in j.excused
      BY <1>3
    <3>4. k.stack = <<>> => j.excused = k.excused
      BY <1>5
    <3> HIDE DEF k
    <3>5. Base(procs', j) /\ j.stack = k.stack /\ j.root = k.root /\ j.listed = k.listed
      BY <2>2 DEF Q
    <3>6. QED BY <2>3, <3>1, <3>2, <3>3, <3>4, <3>5, TrackedAfter
  <2>5. QED BY <2>2, <2>4 DEF k, Q
<1>6. \/ j = k /\ (k.stack # <<>> => x \in Known(k))
      \/ k.stack # <<>> /\ x \notin k.listed /\ j = [k EXCEPT !.excused = k.excused \cup {x}]
  <2>1. CASE j = Gone(x)[c]
    <3>1. j = IF k.stack # <<>> /\ x \notin k.listed THEN [k EXCEPT !.excused = k.excused \cup {x}] ELSE k
      BY <2>1 DEF Gone, Killing
    <3>2. k.stack # <<>> /\ x \in k.listed => x \in Known(k)
      BY DEF Known
    <3> HIDE DEF k
    <3>3. QED BY <3>1, <3>2
  <2>2. CASE j = kcall[c] /\ (Killing(c) => x \in Known(kcall[c]))
    BY <1>1, <2>2
  <2>3. QED BY <2>1, <2>2
<1>7. QED BY <1>4, <1>5, <1>6

LEMMA TreeExit ==
  ASSUME TreeInv, UNCHANGED platform, NEW x \in DOMAIN procs, Exit(x) PROVE TreeInv'
<1>1. procs' = Dead(x) /\ kcall' = Gone(x) /\ Family(procs)
  BY DEF Exit, TreeInv
<1>2. x \in 1 .. Len(procs)
  BY <1>1, FamilyFacts
<1>3. Family(procs')
  BY <1>1, <1>2, FamilyDead
<1>4. DOMAIN kcall' = KillCallers
  BY <1>1 DEF Gone
<1>5. ASSUME NEW c \in KillCallers
      PROVE  Base(procs', kcall'[c]) /\ (platform # "windows" => Tracked(procs', kcall'[c]))
  <2> DEFINE j == kcall'[c]
  <2>1. j = Gone(x)[c]
    BY <1>1
  <2> HIDE DEF j
  <2>2. QED BY <1>1, <1>2, <2>1, CallDeath DEF j
<1>6. QED BY <1>3, <1>4, <1>5 DEF TreeInv

LEMMA TreeSignal ==
  ASSUME TreeInv, UNCHANGED platform, NEW c \in KillCallers, Signal(c) PROVE TreeInv'
<1> DEFINE k == kcall[c]  n == Len(k.stack)  f == k.stack[n]
           popped(t) == [t EXCEPT ![c].stack = SubSeq(@, 1, n - 1)]
<1>0. /\ Family(procs) /\ Base(procs, k) /\ DOMAIN kcall = KillCallers
      /\ k.stack # <<>> /\ f.asked /\ f.todo = {}
      /\ platform # "windows" => Tracked(procs, k)
  BY DEF TreeInv, Signal, Killing, ReadyToKill, Top, Depth
<1>1. DOMAIN procs = 1 .. Len(procs) /\ n \in 1 .. n
  BY <1>0, FamilyFacts, CallFacts
<1>2. CASE kcall' = popped([kcall EXCEPT ![c].excused = @ \cup Holder(f.pid)]) /\ UNCHANGED procs
  <2> DEFINE j == kcall'[c]  E == k.excused \cup Holder(f.pid)
  <2>0. E \subseteq 1 .. Len(procs) /\ k.excused \subseteq E
    BY <1>0, <1>1, CallFacts DEF Holder
  <2>1. /\ j = [[k EXCEPT !.excused = E] EXCEPT !.stack = SubSeq(k.stack, 1, n - 1)]
        /\ \A d \in KillCallers \ {c} : kcall'[d] = kcall[d]
        /\ DOMAIN kcall' = KillCallers
    <3> DEFINE t == [kcall EXCEPT ![c].excused = @ \cup Holder(f.pid)]
    <3>1. k \in CallOf(Len(procs))
      BY <1>0 DEF Base
    <3>2. t[c] = [k EXCEPT !.excused = E] /\ (\A d \in KillCallers \ {c} : t[d] = kcall[d]) /\ DOMAIN t = KillCallers
      BY <1>0
    <3>3. t[c].stack = k.stack
      <4> HIDE DEF k, E, t
      <4>1. QED BY <3>1, <3>2 DEF CallOf
    <3>4. kcall' = [t EXCEPT ![c].stack = SubSeq(@, 1, n - 1)]
      BY <1>2
    <3> HIDE DEF t, k, E
    <3>5. QED BY <3>2, <3>3, <3>4
  <2>2. SubSeq(k.stack, 1, n - 1) \in Seq(FrameOf(Len(procs)))
    BY <1>0, CallFacts, Popped
  <2>3. /\ j \in CallOf(Len(procs)) /\ j.stack = SubSeq(k.stack, 1, n - 1)
        /\ j.root = k.root /\ j.listed = k.listed /\ j.excused = E
    <3>1. k \in CallOf(Len(procs))
      BY <1>0 DEF Base
    <3> DEFINE b == SubSeq(k.stack, 1, n - 1)
    <3>2. b \in Seq(FrameOf(Len(procs))) /\ j = [[k EXCEPT !.excused = E] EXCEPT !.stack = b]
      BY <2>1, <2>2
    <3> HIDE DEF b, k, j, E
    <3>3. /\ j \in CallOf(Len(procs)) /\ j.stack = b
          /\ j.root = k.root /\ j.listed = k.listed /\ j.excused = E
      BY <2>0, <3>1, <3>2 DEF CallOf
    <3>4. QED BY <3>3 DEF b
  <2>4. Base(procs, j)
    <3> HIDE DEF j, k, E
    <3>1. QED BY <1>0, <2>3, BasePop
  <2>5. platform # "windows" => Tracked(procs, j)
    <3>1. \A x \in 1 .. Len(procs) : procs[x].alive /\ procs[x].pid = f.pid => x \in E
      BY <1>1 DEF Holder
    <3> HIDE DEF j, k, f, E
    <3>2. f = k.stack[Len(k.stack)]
      BY DEF f
    <3>3. QED BY <1>0, <2>0, <2>3, <3>1, <3>2, TrackedPop
  <2>6. \A d \in KillCallers : Base(procs, kcall'[d]) /\ (platform # "windows" => Tracked(procs, kcall'[d]))
    BY <2>1, <2>4, <2>5 DEF TreeInv
  <2>7. QED BY <1>0, <1>2, <2>1, <2>6 DEF TreeInv
<1>3. ASSUME NEW x \in Holder(f.pid), procs' = Dead(x),
             kcall' = popped(IF x \in f.meant THEN [Gone(x) EXCEPT ![c].excused = k.excused] ELSE Gone(x))
      PROVE  TreeInv'
  <2>1. x \in 1 .. Len(procs) /\ procs[x].alive /\ procs[x].pid = f.pid
    BY <1>1 DEF Holder
  <2>2. /\ Family(procs') /\ After(procs, procs') /\ Len(procs') = Len(procs) /\ ~procs'[x].alive
    BY <1>0, <1>3, <2>1, FamilyDead
  <2> DEFINE j == IF x \in f.meant THEN k ELSE Gone(x)[c]
             i == kcall'[c]
  <2>3. /\ Base(procs', j) /\ j.stack = k.stack /\ (platform # "windows" => Tracked(procs', j))
    <3>1. CASE platform # "windows"
      <4>1. x \in f.meant => x \in Known(k)
        BY <1>0, <1>1, <3>1 DEF Tracked, FramesAsk
      <4>2. j = Gone(x)[c] \/ (j = kcall[c] /\ (Killing(c) => x \in Known(kcall[c])))
        BY <4>1
      <4> HIDE DEF j
      <4>3. QED BY <1>3, <2>1, <3>1, <4>2, CallDeath
    <3>2. CASE platform = "windows"
      <4>1. CASE j = Gone(x)[c]
        <5> HIDE DEF j
        <5>1. QED BY <1>3, <2>1, <3>2, <4>1, CallDeath
      <4>2. CASE j = k
        <5>1. Base(procs', k)
          BY <1>0, <2>2, BaseAfter
        <5>2. QED BY <3>2, <4>2, <5>1
      <4>3. QED BY <4>1, <4>2
    <3>3. QED BY <3>1, <3>2
  <2>4. /\ i = [j EXCEPT !.stack = SubSeq(k.stack, 1, n - 1)]
        /\ \A d \in KillCallers \ {c} : kcall'[d] = Gone(x)[d]
        /\ DOMAIN kcall' = KillCallers
    <3>1. Gone(x) = [d \in KillCallers |-> Gone(x)[d]] /\ DOMAIN Gone(x) = KillCallers
      BY DEF Gone
    <3> DEFINE G == Gone(x)
    <3>2. G[c] = IF k.stack # <<>> /\ x \notin k.listed THEN [k EXCEPT !.excused = k.excused \cup {x}] ELSE k
      BY DEF Gone, Killing
    <3>3. k \in CallOf(Len(procs))
      BY <1>0 DEF Base
    <3>4. G[c].stack = k.stack /\ [G[c] EXCEPT !.excused = k.excused] = k
      <4> HIDE DEF k, G
      <4>1. QED BY <3>2, <3>3 DEF CallOf
    <3>5. G = [d \in KillCallers |-> G[d]] /\ DOMAIN G = KillCallers
      BY <3>1
    <3> HIDE DEF G
    <3>6. CASE x \in f.meant
      <4> DEFINE t == [G EXCEPT ![c].excused = k.excused]
      <4>1. kcall' = [t EXCEPT ![c].stack = SubSeq(@, 1, n - 1)]
        BY <1>3, <3>6 DEF G
      <4>2. t[c] = k /\ (\A d \in KillCallers \ {c} : t[d] = G[d]) /\ DOMAIN t = KillCallers
        BY <3>4, <3>5
      <4> HIDE DEF t, k
      <4>3. QED BY <3>6, <4>1, <4>2 DEF G
    <3>7. CASE x \notin f.meant
      <4>1. kcall' = [G EXCEPT ![c].stack = SubSeq(@, 1, n - 1)]
        BY <1>3, <3>7 DEF G
      <4>2. j = G[c]
        BY <3>7 DEF G
      <4> HIDE DEF k, j
      <4>3. QED BY <3>4, <3>5, <4>1, <4>2 DEF G
    <3>8. QED BY <3>6, <3>7
  <2> HIDE DEF j, i
  <2>5. SubSeq(k.stack, 1, n - 1) \in Seq(FrameOf(Len(procs')))
    BY <1>0, <2>2, CallFacts, Popped
  <2>6. /\ i \in CallOf(Len(procs')) /\ i.stack = SubSeq(j.stack, 1, Len(j.stack) - 1)
        /\ i.root = j.root /\ i.listed = j.listed /\ i.excused = j.excused
    <3>1. j \in CallOf(Len(procs'))
      BY <2>3 DEF Base
    <3> DEFINE b == SubSeq(k.stack, 1, n - 1)
    <3>2. b \in Seq(FrameOf(Len(procs'))) /\ i = [j EXCEPT !.stack = b] /\ b = SubSeq(j.stack, 1, Len(j.stack) - 1)
      BY <2>3, <2>4, <2>5
    <3> HIDE DEF b
    <3>3. /\ i \in CallOf(Len(procs')) /\ i.stack = b
          /\ i.root = j.root /\ i.listed = j.listed /\ i.excused = j.excused
      BY <3>1, <3>2 DEF CallOf
    <3>4. QED BY <3>2, <3>3
  <2>7. Base(procs', i)
    BY <1>0, <2>2, <2>3, <2>6, BasePop
  <2>8. platform # "windows" => Tracked(procs', i)
    <3>1. \A y \in 1 .. Len(procs') : procs'[y].alive => procs'[y].pid # f.pid
      <4>1. ASSUME NEW y \in 1 .. Len(procs'), procs'[y].alive, procs'[y].pid = f.pid PROVE FALSE
        <5>1. y \in 1 .. Len(procs) /\ procs[y].alive /\ procs[y].pid = f.pid
          BY <2>2, <4>1 DEF After
        <5>2. y = x
          BY <1>0, <2>1, <5>1 DEF Family
        <5>3. QED BY <2>2, <4>1, <5>2
      <4>2. QED BY <4>1
    <3>2. f = j.stack[Len(j.stack)] /\ f.asked /\ f.todo = {} /\ j.stack # <<>>
      BY <1>0, <2>3
    <3> HIDE DEF f, k
    <3>3. QED BY <2>2, <2>3, <2>6, <3>1, <3>2, TrackedPop
  <2>9. ASSUME NEW d \in KillCallers \ {c}
        PROVE  Base(procs', kcall'[d]) /\ (platform # "windows" => Tracked(procs', kcall'[d]))
    <3> DEFINE h == kcall'[d]
    <3>1. h = Gone(x)[d]
      BY <2>4
    <3> HIDE DEF h
    <3>2. QED BY <1>3, <2>1, <3>1, CallDeath DEF h
  <2>10. QED BY <2>2, <2>4, <2>7, <2>8, <2>9 DEF TreeInv, i
<1>4. QED BY <1>2, <1>3 DEF Signal, Top, Depth

(* A step of one call that leaves the processes alone. *)
LEMMA OneCall ==
  ASSUME TreeInv, UNCHANGED <<platform, procs>>, NEW c \in KillCallers, NEW j, kcall' = [kcall EXCEPT ![c] = j],
         Base(procs, j), platform # "windows" => Tracked(procs, j)
  PROVE  TreeInv'
<1>1. /\ DOMAIN kcall' = KillCallers /\ kcall'[c] = j
      /\ \A d \in KillCallers \ {c} : kcall'[d] = kcall[d]
  BY DEF TreeInv
<1>2. ASSUME NEW d \in KillCallers
      PROVE  Base(procs, kcall'[d]) /\ (platform # "windows" => Tracked(procs, kcall'[d]))
  <2>1. CASE d = c
    BY <1>1, <2>1
  <2>2. CASE d # c
    BY <1>1, <2>2 DEF TreeInv
  <2>3. QED BY <2>1, <2>2
<1>3. QED BY <1>1, <1>2 DEF TreeInv

LEMMA TreeBegin ==
  ASSUME TreeInv, UNCHANGED platform, NEW c \in KillCallers, NEW pid \in KillPids, BeginKill(c, pid)
  PROVE  TreeInv'
<1> DEFINE H == Holder(pid)  f == Frame(pid, H)  D == {x \in DOMAIN procs : ~procs[x].alive}
           r == IF H = {} THEN 0 ELSE CHOOSE x \in H : TRUE
           j == [stack |-> <<f>>, root |-> r, listed |-> {}, excused |-> D]
<1>1. /\ Family(procs) /\ Len(procs) \in Nat /\ DOMAIN procs = 1 .. Len(procs)
  BY FamilyFacts DEF TreeInv
<1>2. UNCHANGED procs /\ kcall' = [kcall EXCEPT ![c] = j]
  BY DEF BeginKill
<1>3. /\ H \subseteq 1 .. Len(procs) /\ D = {x \in 1 .. Len(procs) : ~procs[x].alive}
      /\ r \in 0 .. Len(procs) /\ (r = 0 \/ r \in H)
      /\ \A x \in H : procs[x].pid = pid
  <2>1. \A x \in H : x \in 1 .. Len(procs) /\ procs[x].pid = pid
    BY <1>1 DEF Holder
  <2>2. r = 0 \/ r \in H
    <3> HIDE DEF H
    <3>1. QED OBVIOUS
  <2> HIDE DEF H, r
  <2>3. QED BY <1>1, <2>1, <2>2
<1>4. /\ f.pid = pid /\ f.meant = H /\ f.todo = {} /\ f.asked = (platform = "windows")
      /\ f \in FrameOf(Len(procs))
  BY <1>3 DEF Frame, FrameOf
<1> HIDE DEF H, f, D, r
<1>5. Base(procs, j)
  <2>1. /\ <<f>> \in Seq(FrameOf(Len(procs))) /\ Len(<<f>>) = 1 /\ <<f>>[1] = f
        /\ {} \in SUBSET (1 .. Len(procs)) /\ D \in SUBSET (1 .. Len(procs))
    BY <1>3, <1>4
  <2>2. j \in CallOf(Len(procs))
    BY <1>3, <2>1 DEF CallOf
  <2>3. \A x \in f.meant : procs[x].pid = f.pid
    BY <1>3, <1>4
  <2>4. QED BY <2>1, <2>2, <2>3 DEF Base
<1>6. platform # "windows" => Tracked(procs, j)
  <2>1. /\ j.stack = <<f>> /\ j.listed = {} /\ j.root = r
        /\ j.excused = {x \in 1 .. Len(procs) : ~procs[x].alive}
    BY <1>3
  <2> HIDE DEF j
  <2>2. QED BY <1>1, <1>3, <1>4, <2>1, TrackedBegin
<1> HIDE DEF j
<1>7. QED BY <1>2, <1>5, <1>6, OneCall

LEMMA TreeList ==
  ASSUME TreeInv, UNCHANGED platform, NEW c \in KillCallers, ListChildren(c)
  PROVE  TreeInv'
<1> DEFINE k == kcall[c]  n == Len(k.stack)  f == k.stack[n]  H == Holder(f.pid)
           C == {y \in DOMAIN procs : procs[y].alive /\ procs[y].parent \in H}
           g == [f EXCEPT !.asked = TRUE, !.todo = C]
           e == [f EXCEPT !.asked = TRUE]
<1>0. /\ Family(procs) /\ Base(procs, k) /\ k.stack # <<>> /\ ~f.asked /\ UNCHANGED procs
      /\ platform # "windows" => Tracked(procs, k)
  BY DEF TreeInv, ListChildren, Killing, Top, Depth
<1>1. /\ DOMAIN procs = 1 .. Len(procs) /\ k.stack \in Seq(FrameOf(Len(procs)))
      /\ f \in FrameOf(Len(procs)) /\ n \in 1 .. n
  BY <1>0, FamilyFacts, CallFacts
<1>2. /\ H = {x \in 1 .. Len(procs) : procs[x].alive /\ procs[x].pid = f.pid}
      /\ C = {y \in 1 .. Len(procs) : procs[y].alive /\ procs[y].parent \in H}
  BY <1>1 DEF Holder
<1>3. \/ kcall' = [kcall EXCEPT ![c].stack = [k.stack EXCEPT ![n] = g], ![c].listed = k.listed \cup H]
      \/ kcall' = [kcall EXCEPT ![c].stack = [k.stack EXCEPT ![n] = e], ![c].excused = k.excused \cup H]
  BY DEF ListChildren, Top, Depth, SetTop
<1>4. /\ g \in FrameOf(Len(procs)) /\ g.asked /\ g.pid = f.pid /\ g.meant = f.meant /\ g.todo = C
      /\ e \in FrameOf(Len(procs)) /\ e.asked /\ e.pid = f.pid /\ e.meant = f.meant /\ e.todo = f.todo
  <2>1. C \in SUBSET (1 .. Len(procs))
    BY <1>2
  <2> HIDE DEF f, C, H
  <2>2. QED BY <1>1, <2>1 DEF FrameOf
<1> HIDE DEF g, e, C, H
<1>5. ASSUME NEW h \in {g, e}, NEW j \in CallOf(Len(procs)), j.stack = [k.stack EXCEPT ![n] = h]
      PROVE  Base(procs, j)
  <2>1. h.pid = f.pid /\ h.meant = f.meant
    BY <1>4
  <2>2. /\ n \in Nat \ {0} /\ Len(j.stack) = n /\ j.stack[n] = h
        /\ \A i \in 1 .. n - 1 : j.stack[i] = k.stack[i]
    BY <1>0, <1>1, <1>5, Replaced
  <2>3. \A i \in 1 .. n : i = n \/ i \in 1 .. n - 1
    BY <2>2
  <2>4. QED BY <1>0, <1>5, <2>1, <2>2, <2>3 DEF Base
<1>6. k \in CallOf(Len(procs)) /\ H \in SUBSET (1 .. Len(procs))
  BY <1>0, <1>2 DEF Base
<1>7. CASE kcall' = [kcall EXCEPT ![c].stack = [k.stack EXCEPT ![n] = g], ![c].listed = k.listed \cup H]
  <2> DEFINE st == [k.stack EXCEPT ![n] = g]
             j == [k EXCEPT !.stack = st, !.listed = k.listed \cup H]
  <2>1. st \in Seq(FrameOf(Len(procs)))
    BY <1>0, <1>1, <1>4, Replaced
  <2>2. kcall' = [kcall EXCEPT ![c] = j]
    BY <1>7
  <2>3. /\ j \in CallOf(Len(procs)) /\ j.stack = st /\ j.root = k.root /\ j.listed = k.listed \cup H
        /\ j.excused = k.excused
    <3> HIDE DEF st, k
    <3>1. QED BY <1>6, <2>1 DEF CallOf
  <2> HIDE DEF j
  <2>4. Base(procs, j)
    BY <1>5, <2>3
  <2>5. platform # "windows" => Tracked(procs, j)
    <3>1. f = k.stack[Len(k.stack)] /\ j.stack = [k.stack EXCEPT ![Len(k.stack)] = g]
      BY <2>3
    <3>2. Listed(procs, k, j, f, g, H)
      BY <1>2, <1>4, <2>3 DEF Listed
    <3>3. SUFFICES ASSUME platform # "windows" PROVE Tracked(procs, j)
      OBVIOUS
    <3>4. Tracked(procs, k) /\ H = HolderIn(procs, f.pid)
      BY <1>0, <1>2, <3>3 DEF HolderIn
    <3>5. g.asked /\ g.meant = f.meant /\ g.pid = f.pid /\ j.root = k.root
      BY <1>4, <2>3
    <3> HIDE DEF f, k
    <3>6. QED BY <1>0, <3>1, <3>2, <3>4, <3>5, TrackedList
  <2>6. QED BY <1>0, <2>2, <2>4, <2>5, OneCall
<1>8. CASE kcall' = [kcall EXCEPT ![c].stack = [k.stack EXCEPT ![n] = e], ![c].excused = k.excused \cup H]
  <2> DEFINE st == [k.stack EXCEPT ![n] = e]
             j == [k EXCEPT !.stack = st, !.excused = k.excused \cup H]
  <2>1. st \in Seq(FrameOf(Len(procs)))
    BY <1>0, <1>1, <1>4, Replaced
  <2>2. kcall' = [kcall EXCEPT ![c] = j]
    BY <1>8
  <2>3. /\ j \in CallOf(Len(procs)) /\ j.stack = st /\ j.root = k.root /\ j.listed = k.listed
        /\ j.excused = k.excused \cup H
    <3> HIDE DEF st, k
    <3>1. QED BY <1>6, <2>1 DEF CallOf
  <2> HIDE DEF j
  <2>4. Base(procs, j)
    BY <1>5, <2>3
  <2>5. platform # "windows" => Tracked(procs, j)
    <3>1. f = k.stack[Len(k.stack)] /\ j.stack = [k.stack EXCEPT ![Len(k.stack)] = e]
      BY <2>3
    <3>2. Listed(procs, k, j, f, e, H)
      BY <1>2, <1>4, <2>3 DEF Listed
    <3>3. SUFFICES ASSUME platform # "windows" PROVE Tracked(procs, j)
      OBVIOUS
    <3>4. Tracked(procs, k) /\ H = HolderIn(procs, f.pid)
      BY <1>0, <1>2, <3>3 DEF HolderIn
    <3>5. e.asked /\ e.meant = f.meant /\ e.pid = f.pid /\ j.root = k.root
      BY <1>4, <2>3
    <3> HIDE DEF f, k
    <3>6. QED BY <1>0, <3>1, <3>2, <3>4, <3>5, TrackedList
  <2>6. QED BY <1>0, <2>2, <2>4, <2>5, OneCall
<1>9. QED BY <1>3, <1>7, <1>8

LEMMA TreeDescend ==
  ASSUME TreeInv, UNCHANGED platform, NEW c \in KillCallers, Descend(c)
  PROVE  TreeInv'
<1> DEFINE k == kcall[c]  n == Len(k.stack)  f == k.stack[n]
<1>0. /\ Family(procs) /\ Base(procs, k) /\ k.stack # <<>> /\ UNCHANGED procs
      /\ platform # "windows" => Tracked(procs, k)
  BY DEF TreeInv, Descend, Killing
<1>1. /\ DOMAIN procs = 1 .. Len(procs) /\ k.stack \in Seq(FrameOf(Len(procs)))
      /\ f \in FrameOf(Len(procs)) /\ n \in 1 .. n /\ \A x \in 1 .. Len(procs) : procs[x] \in HostProcess
  BY <1>0, FamilyFacts, CallFacts
<1>2. PICK y \in f.todo :
        kcall' = [kcall EXCEPT ![c].stack =
          Append([k.stack EXCEPT ![n] = [f EXCEPT !.todo = f.todo \ {y}]], Frame(procs[y].pid, {y}))]
  BY DEF Descend, Top, Depth, SetTop
<1> DEFINE g == [f EXCEPT !.todo = f.todo \ {y}]  h == Frame(procs[y].pid, {y})
           st == Append([k.stack EXCEPT ![n] = g], h)
           j == [k EXCEPT !.stack = st]
<1>3. y \in 1 .. Len(procs) /\ procs[y].pid \in KillPids
  BY <1>1 DEF FrameOf, HostProcess
<1>4. /\ g \in FrameOf(Len(procs)) /\ g.asked = f.asked /\ g.pid = f.pid /\ g.meant = f.meant
      /\ g.todo = f.todo \ {y}
  <2> HIDE DEF f
  <2>1. QED BY <1>1 DEF FrameOf
<1>5. /\ h \in FrameOf(Len(procs)) /\ h.asked = (platform = "windows") /\ h.pid = procs[y].pid
      /\ h.meant = {y} /\ h.todo = {}
  BY <1>3 DEF Frame, FrameOf
<1> HIDE DEF g, h
<1>6. /\ n \in Nat \ {0} /\ st \in Seq(FrameOf(Len(procs))) /\ Len(st) = n + 1
      /\ st[n] = g /\ st[n + 1] = h /\ \A i \in 1 .. n - 1 : st[i] = k.stack[i]
  <2> DEFINE u == [k.stack EXCEPT ![n] = g]
  <2>1. /\ n \in Nat \ {0} /\ u \in Seq(FrameOf(Len(procs))) /\ Len(u) = n /\ u[n] = g
        /\ \A i \in 1 .. n - 1 : u[i] = k.stack[i]
    BY <1>0, <1>1, <1>4, Replaced
  <2> HIDE DEF u, n
  <2>2. /\ Append(u, h) \in Seq(FrameOf(Len(procs))) /\ Len(Append(u, h)) = n + 1
        /\ Append(u, h)[n + 1] = h /\ \A i \in 1 .. n : Append(u, h)[i] = u[i]
    BY <1>5, <2>1
  <2>3. n \in 1 .. n /\ \A i \in 1 .. n - 1 : i \in 1 .. n
    BY <2>1
  <2>4. QED BY <2>1, <2>2, <2>3 DEF u, n
<1>7. /\ j \in CallOf(Len(procs)) /\ j.stack = st /\ j.root = k.root /\ j.listed = k.listed
      /\ j.excused = k.excused
  <2>1. k \in CallOf(Len(procs))
    BY <1>0 DEF Base
  <2> HIDE DEF st, k
  <2>2. QED BY <1>6, <2>1 DEF CallOf
<1>8. kcall' = [kcall EXCEPT ![c] = j]
  BY <1>2 DEF g, h
<1> HIDE DEF j
<1>9. Base(procs, j)
  <2>1. ASSUME NEW i \in 1 .. n + 1, NEW x \in st[i].meant PROVE procs[x].pid = st[i].pid
    <3>1. CASE i = n + 1
      BY <1>5, <1>6, <2>1, <3>1
    <3>2. CASE i = n
      BY <1>0, <1>1, <1>4, <1>6, <2>1, <3>2 DEF Base
    <3>3. CASE i \in 1 .. n - 1
      <4>1. i \in 1 .. n /\ st[i] = k.stack[i]
        BY <1>6, <3>3
      <4>2. QED BY <1>0, <2>1, <4>1 DEF Base
    <3>4. QED BY <1>6, <3>1, <3>2, <3>3
  <2> HIDE DEF st
  <2>2. QED BY <1>6, <1>7, <2>1 DEF Base
<1>10. ASSUME platform # "windows" PROVE Tracked(procs, j)
  <2>1. f = k.stack[Len(k.stack)] /\ j.stack = Pushed(k.stack, g, h)
    BY <1>7 DEF Pushed
  <2>2. Family(procs) /\ Base(procs, k) /\ Tracked(procs, k) /\ k.stack # <<>>
    BY <1>0, <1>10
  <2>3. ~h.asked
    BY <1>5, <1>10
  <2>4. y \in f.todo
    OBVIOUS
  <2>5. g.asked = f.asked /\ g.meant = f.meant /\ g.pid = f.pid /\ g.todo = f.todo \ {y}
    BY <1>4
  <2>6. h.meant = {y} /\ h.todo = {} /\ j.root = k.root /\ j.listed = k.listed /\ j.excused = k.excused
    BY <1>5, <1>7
  <2> HIDE DEF f, k, st
  <2>7. QED BY <2>1, <2>2, <2>3, <2>4, <2>5, <2>6, TrackedDescend
<1>11. QED BY <1>0, <1>8, <1>9, <1>10, OneCall

-----------------------------------------------------------------------------
(* Only what the details have is planned. *)
LEMMA PlannedAction ==
  ASSUME NEW a, NEW d \in Details, Applies(a, d) PROVE Planned(a, d) \in Action
<1>1. CASE a.name = "isolate"
  BY <1>1 DEF Planned, Action
<1>2. CASE a.name = "kill"
  <2>1. "pid" \in DOMAIN d
    BY <1>2 DEF Applies
  <2>2. d.pid \in KillPids
    <3>1. CASE d = <<>>
      <4>1. DOMAIN d = {}
        BY <3>1
      <4>2. QED BY <2>1, <4>1
    <3>2. CASE d \in [{"pid"} -> KillPids]
      BY <3>2
    <3>3. CASE d \in [{"path"} -> Paths]
      BY <2>1, <3>3
    <3>4. CASE d \in {[pid |-> i, path |-> p] : i \in KillPids, p \in Paths}
      BY <3>4
    <3>5. QED BY <3>1, <3>2, <3>3, <3>4 DEF Details
  <2>3. QED BY <1>2, <2>2 DEF Planned, Action
<1>3. CASE a.name = "quarantine"
  <2>1. "path" \in DOMAIN d
    BY <1>3 DEF Applies
  <2>2. d.path \in Paths
    <3>1. CASE d = <<>>
      <4>1. DOMAIN d = {}
        BY <3>1
      <4>2. QED BY <2>1, <4>1
    <3>2. CASE d \in [{"pid"} -> KillPids]
      BY <2>1, <3>2
    <3>3. CASE d \in [{"path"} -> Paths]
      BY <3>3
    <3>4. CASE d \in {[pid |-> i, path |-> p] : i \in KillPids, p \in Paths}
      BY <3>4
    <3>5. QED BY <3>1, <3>2, <3>3, <3>4 DEF Details
  <2>3. QED BY <1>3, <2>2 DEF Planned, Action
<1>4. QED BY <1>1, <1>2, <1>3 DEF Applies

LEMMA ChosenExists ==
  ASSUME NEW d
  PROVE  \E f : f = [i \in 0 .. Len(Configured.actions) |->
                       IF i = 0 THEN <<>>
                       ELSE IF Applies(Configured.actions[i], d)
                            THEN Append(f[i - 1], Planned(Configured.actions[i], d))
                            ELSE f[i - 1]]
<1> DEFINE A == Configured.actions  n == Len(A)
<1>0. n \in Nat
  BY ResponseAssumption
<1> HIDE DEF A, n
<1> DEFINE Next1(i, s) == IF Applies(A[i], d) THEN Append(s, Planned(A[i], d)) ELSE s
           Fits(f, m) == f = [i \in 0 .. m |-> IF i = 0 THEN <<>> ELSE Next1(i, f[i - 1])]
           T == {m \in 0 .. n : ~ \E f : Fits(f, m)}
<1> HIDE DEF Next1
<1>1. T = {}
  <2>1. SUFFICES ASSUME T # {} PROVE FALSE
    OBVIOUS
  <2>2. PICK m \in T : \A u \in T : m <= u
    <3>1. T \in SUBSET Nat
      BY <1>0
    <3>2. QED BY <2>1, <3>1, LeastNat
  <2>3. m \in 0 .. n /\ ~ \E f : Fits(f, m)
    OBVIOUS
  <2>4. CASE m = 0
    <3> DEFINE g == [i \in 0 .. 0 |-> <<>>]
    <3>1. g = [i \in 0 .. 0 |-> IF i = 0 THEN <<>> ELSE Next1(i, g[i - 1])]
      OBVIOUS
    <3>2. Fits(g, m)
      BY <2>4, <3>1
    <3>3. QED BY <2>3, <3>2
  <2>5. CASE m # 0
    <3>1. m - 1 \in 0 .. n /\ ~ (m <= m - 1)
      BY <1>0, <2>3, <2>5
    <3>2. m - 1 \notin T
      BY <2>2, <3>1
    <3>3. PICK f : Fits(f, m - 1)
      BY <3>1, <3>2
    <3>4. f[0] = <<>> /\ \A i \in 1 .. m - 1 : f[i] = Next1(i, f[i - 1])
      BY <2>3, <2>5, <3>3
    <3> DEFINE g == [i \in 0 .. m |-> IF i < m THEN f[i] ELSE Next1(m, f[m - 1])]
    <3>5. ASSUME NEW i \in 0 .. m PROVE g[i] = IF i = 0 THEN <<>> ELSE Next1(i, g[i - 1])
      <4>1. CASE i = 0
        BY <2>3, <2>5, <3>4, <4>1
      <4>2. CASE i # 0
        <5>1. i - 1 \in 0 .. m /\ i - 1 < m /\ g[i - 1] = f[i - 1]
          BY <2>3, <4>2
        <5>2. CASE i = m
          BY <2>3, <4>2, <5>1, <5>2
        <5>3. CASE i # m
          <6>1. i \in 1 .. m - 1 /\ i < m
            BY <2>3, <4>2, <5>3
          <6>2. QED BY <3>4, <4>2, <5>1, <6>1
        <5>4. QED BY <5>2, <5>3
      <4>3. QED BY <4>1, <4>2
    <3>6. g = [i \in 0 .. m |-> g[i]]
      OBVIOUS
    <3> HIDE DEF g
    <3>7. Fits(g, m)
      BY <3>5, <3>6
    <3>8. QED BY <2>3, <3>7
  <2>6. QED BY <2>4, <2>5
<1>2. n \in 0 .. n
  BY <1>0
<1>3. \E f : Fits(f, n)
  BY <1>1, <1>2
<1>4. QED BY <1>3, Zenon DEF Next1, A, n

(* What EvaluateAndMitigate goes through is a sequence of actions that can be taken. *)
LEMMA ChosenActions ==
  ASSUME NEW d \in Details PROVE Chosen(d)[Len(Configured.actions)] \in Seq(Action)
<1> DEFINE A == Configured.actions  n == Len(A)  C == Chosen(d)
           T == {m \in 0 .. n : C[m] \notin Seq(Action)}
<1>1. n \in Nat
  BY ResponseAssumption
<1>2. /\ C[0] = <<>>
      /\ \A i \in 1 .. n : C[i] = IF Applies(A[i], d) THEN Append(C[i - 1], Planned(A[i], d)) ELSE C[i - 1]
  <2>1. \E f : f = [i \in 0 .. n |-> IF i = 0 THEN <<>>
                                     ELSE IF Applies(A[i], d) THEN Append(f[i - 1], Planned(A[i], d))
                                     ELSE f[i - 1]]
    BY ChosenExists, Zenon
  <2>2. C = [i \in 0 .. n |-> IF i = 0 THEN <<>>
                              ELSE IF Applies(A[i], d) THEN Append(C[i - 1], Planned(A[i], d))
                              ELSE C[i - 1]]
    BY <2>1, Zenon DEF Chosen
  <2>3. 0 \in 0 .. n /\ \A i \in 1 .. n : i \in 0 .. n /\ i # 0
    BY <1>1
  <2> HIDE DEF C, A, n
  <2>4. QED BY <2>2, <2>3
<1> HIDE DEF A, C
<1>3. T = {}
  <2>1. SUFFICES ASSUME T # {} PROVE FALSE
    OBVIOUS
  <2>2. PICK m \in T : \A u \in T : m <= u
    <3>1. T \in SUBSET Nat
      BY <1>1
    <3>2. QED BY <2>1, <3>1, LeastNat
  <2>3. m \in 0 .. n /\ C[m] \notin Seq(Action)
    OBVIOUS
  <2>4. m # 0
    <3>1. <<>> \in Seq(Action)
      OBVIOUS
    <3>2. QED BY <1>2, <2>3, <3>1
  <2>5. m - 1 \in 0 .. n /\ ~ (m <= m - 1) /\ m \in 1 .. n
    BY <1>1, <2>3, <2>4
  <2>6. C[m - 1] \in Seq(Action)
    BY <2>2, <2>5
  <2>7. CASE Applies(A[m], d)
    <3>1. Planned(A[m], d) \in Action
      BY <2>7, PlannedAction
    <3>2. Append(C[m - 1], Planned(A[m], d)) \in Seq(Action)
      BY <2>6, <3>1
    <3>3. C[m] = Append(C[m - 1], Planned(A[m], d))
      BY <1>2, <2>5, <2>7
    <3>4. QED BY <2>3, <3>2, <3>3
  <2>8. CASE ~Applies(A[m], d)
    BY <1>2, <2>3, <2>5, <2>6, <2>8
  <2>9. QED BY <2>7, <2>8
<1>4. n \in 0 .. n
  BY <1>1
<1>5. QED BY <1>3, <1>4 DEF C, A

-----------------------------------------------------------------------------
Firewall == [drop : BOOLEAN, chain : Seq(Rule)]

(* The traffic that a chain has IsolateHost's rule for. *)
Own(chain) == {t \in Whitelist : \E i \in DOMAIN chain : chain[i] = LetThrough(t)}

Orders == {"isolate", "restore"}

(* What is left of an operation's commands. *)
Isolate3 == <<"agent port", "loopback", "drop">>
Isolate2 == <<"loopback", "drop">>
Isolate1 == <<"drop">>
Restore2 == <<"accept", "flush">>
Restore1 == <<"flush">>
Others   == {<<"enable">>, <<"disable">>, <<"drop">>, <<"accept">>}

Left(op) ==
  IF platform = "linux"
  THEN IF op = "isolate" THEN {Isolate3, Isolate2, Isolate1} ELSE {Restore2, Restore1}
  ELSE Others

(* How far an operation on Linux is: what it has done, nobody has undone. *)
Kept(todo_) ==
  /\ todo_ = Isolate2 => "agent port" \in Own(fw.chain)
  /\ todo_ = Isolate1 => Own(fw.chain) = Whitelist
  /\ todo_ = Restore1 => ~fw.drop

NetTyped ==
  /\ platform \in {"linux", "darwin", "windows"}
  /\ fw \in Firewall /\ mishap \in BOOLEAN
  /\ DOMAIN ncall = NetCallers
  /\ \A c \in NetCallers :
       ncall[c] = NoNetCall \/ \E op \in Orders : \E t \in Left(op) : ncall[c] = [op |-> op, todo |-> t]

NetInv ==
  /\ NetTyped
  /\ platform = "linux" /\ ~mishap =>
       /\ \A c, d \in NetCallers : ncall[c].op = "isolate" => ncall[d].op # "restore"
       /\ \A c \in NetCallers : Kept(ncall[c].todo)
       /\ fw.drop => Own(fw.chain) = Whitelist

LEMMA Scripts ==
  /\ Len(Isolate3) # 1 /\ Head(Isolate3) = "agent port" /\ Tail(Isolate3) = Isolate2
  /\ Len(Isolate2) # 1 /\ Head(Isolate2) = "loopback" /\ Tail(Isolate2) = Isolate1
  /\ Len(Isolate1) = 1 /\ Head(Isolate1) = "drop"
  /\ Len(Restore2) # 1 /\ Head(Restore2) = "accept" /\ Tail(Restore2) = Restore1
  /\ Len(Restore1) = 1 /\ Head(Restore1) = "flush"
  /\ Isolate1 # Restore1 /\ Isolate2 # Restore2
  /\ \A t \in Others : Len(t) = 1 /\ Head(t) \in {"enable", "disable", "drop", "accept"}
  /\ Isolate3 # <<>> /\ Isolate2 # <<>> /\ Isolate1 # <<>> /\ Restore2 # <<>> /\ Restore1 # <<>>
  /\ \A t \in Others : t # <<>>
<1>1. /\ Len(Isolate3) # 1 /\ Head(Isolate3) = "agent port" /\ Tail(Isolate3) = Isolate2
  BY DEF Isolate3, Isolate2
<1>2. Len(Isolate2) # 1 /\ Head(Isolate2) = "loopback" /\ Tail(Isolate2) = Isolate1
  BY DEF Isolate2, Isolate1
<1>3. Len(Isolate1) = 1 /\ Head(Isolate1) = "drop"
  BY DEF Isolate1
<1>4. Len(Restore2) # 1 /\ Head(Restore2) = "accept" /\ Tail(Restore2) = Restore1
  BY DEF Restore2, Restore1
<1>5. Len(Restore1) = 1 /\ Head(Restore1) = "flush"
  BY DEF Restore1
<1>6. \A t \in Others : Len(t) = 1 /\ Head(t) \in {"enable", "disable", "drop", "accept"}
  BY DEF Others
<1>7. /\ Isolate3 # <<>> /\ Isolate2 # <<>> /\ Isolate1 # <<>> /\ Restore2 # <<>> /\ Restore1 # <<>>
      /\ \A t \in Others : t # <<>>
  BY DEF Isolate3, Isolate2, Isolate1, Restore2, Restore1, Others
<1>8. Isolate1 # Restore1 /\ Isolate2 # Restore2
  BY <1>2, <1>3, <1>4, <1>5
<1>9. QED BY <1>1, <1>2, <1>3, <1>4, <1>5, <1>6, <1>7, <1>8

LEMMA NetInvOK == NetInv => IsolationTypeOK /\ WhitelistUnlessRaced
<1>1. ASSUME NetInv, NEW c \in NetCallers
      PROVE  /\ ncall[c].op \in {"none", "isolate", "restore"}
             /\ (ncall[c].op = "none") <=> (ncall[c].todo = <<>>)
  <2>1. CASE ncall[c] = NoNetCall
    BY <2>1 DEF NoNetCall
  <2>2. CASE ncall[c] # NoNetCall
    <3>0. PICK op \in Orders : \E t \in Left(op) : ncall[c] = [op |-> op, todo |-> t]
      BY <1>1, <2>2 DEF NetInv, NetTyped
    <3>1. PICK t \in Left(op) : ncall[c] = [op |-> op, todo |-> t]
      BY <3>0
    <3>2. t # <<>>
      BY <3>1, Scripts DEF Left
    <3>3. QED BY <3>1, <3>2 DEF Orders
  <2>3. QED BY <2>1, <2>2
<1>2. ASSUME NetInv
      PROVE  fw \in [drop : BOOLEAN, chain : Seq(Rule)] /\ mishap \in BOOLEAN
  BY <1>2 DEF NetInv, NetTyped, Firewall
<1>3. ASSUME NetInv, platform = "linux", fw.drop, ~mishap, NEW t \in Whitelist
      PROVE  Passes(t) \/ \E i \in DOMAIN fw.chain : Decisive(i, t) /\ ~fw.chain[i].pass
  <2> DEFINE T == {i \in DOMAIN fw.chain : t \in fw.chain[i].of}
  <2>1. /\ fw.chain \in Seq(Rule) /\ DOMAIN fw.chain = 1 .. Len(fw.chain) /\ Len(fw.chain) \in Nat
        /\ t \in Own(fw.chain)
    BY <1>3, <1>2 DEF NetInv
  <2>2. T # {}
    BY <2>1 DEF Own, LetThrough
  <2>3. PICK m \in T : \A u \in T : m <= u
    <3>1. T \in SUBSET Nat
      BY <2>1
    <3>2. QED BY <2>2, <3>1, LeastNat
  <2>4. m \in DOMAIN fw.chain /\ Decisive(m, t)
    <3>1. ASSUME NEW j \in 1 .. m - 1 PROVE t \notin fw.chain[j].of
      <4>1. j \in DOMAIN fw.chain /\ ~ (m <= j)
        BY <2>1, <2>3
      <4>2. QED BY <2>3, <4>1
    <3>2. QED BY <2>3, <3>1 DEF Decisive
  <2>5. CASE fw.chain[m].pass
    BY <2>4, <2>5 DEF Passes
  <2>6. CASE ~fw.chain[m].pass
    BY <2>4, <2>6
  <2>7. QED BY <2>5, <2>6
<1>4. NetInv => WhitelistUnlessRaced
  BY <1>3 DEF WhitelistUnlessRaced
<1>5. QED BY <1>1, <1>2, <1>4 DEF IsolationTypeOK

LEMMA NetInit == HostInit /\ IsolationInit => NetInv
<1> SUFFICES ASSUME HostInit, IsolationInit PROVE NetInv
  OBVIOUS
<1>1. platform \in {"linux", "darwin", "windows"}
  BY HostAssumption DEF HostInit
<1>2. /\ fw \in Firewall /\ ~fw.drop /\ mishap = FALSE /\ DOMAIN ncall = NetCallers
      /\ \A c \in NetCallers : ncall[c] = NoNetCall
  <2>1. <<>> \in Seq(Rule)
    OBVIOUS
  <2>2. QED BY <2>1, IsolationAssumption DEF IsolationInit, Firewall
<1>3. NoNetCall.op = "none" /\ NoNetCall.todo = <<>> /\ Kept(<<>>)
  BY Scripts DEF NoNetCall, Kept
<1>4. \A c \in NetCallers : ncall[c].op = "none" /\ Kept(ncall[c].todo)
  BY <1>2, <1>3
<1>5. QED BY <1>1, <1>2, <1>4 DEF NetInv, NetTyped, Firewall

LEMMA NetStutter ==
  ASSUME NetInv, UNCHANGED <<platform, fw, mishap>>,
         UNCHANGED ncall \/ ncall' = [c \in NetCallers |-> NoNetCall]
  PROVE  NetInv'
<1>1. CASE UNCHANGED ncall
  <2>1. /\ \A o : Left(o)' = Left(o)
        /\ \A t : Kept(t)' = Kept(t)
    BY Zenon DEF Left, Kept
  <2>2. NetTyped'
    BY <1>1, <2>1 DEF NetInv, NetTyped
  <2>3. \A c \in NetCallers : Kept(ncall[c].todo)' = Kept(ncall[c].todo)
    BY <1>1, Zenon DEF Kept
  <2>4. QED BY <1>1, <2>2, <2>3 DEF NetInv
<1>2. CASE ncall' = [c \in NetCallers |-> NoNetCall]
  <2>1. DOMAIN ncall' = NetCallers /\ \A c \in NetCallers : ncall'[c] = NoNetCall
    BY <1>2
  <2>2. NoNetCall.op = "none" /\ NoNetCall.todo = <<>>
    BY DEF NoNetCall
  <2>3. \A c \in NetCallers : ncall'[c].op = "none" /\ Kept(ncall[c].todo)'
    BY <2>1, <2>2, Scripts DEF Kept
  <2>4. NetTyped'
    BY <2>1 DEF NetInv, NetTyped
  <2>5. fw'.drop /\ platform' = "linux" /\ ~mishap' => Own(fw'.chain) = Whitelist
    BY DEF NetInv
  <2>6. QED BY <2>3, <2>4, <2>5 DEF NetInv
<1>3. QED BY <1>1, <1>2

LEMMA ScriptLeft ==
  ASSUME platform \in {"linux", "darwin", "windows"}, NEW op \in Orders PROVE Script(op) \in Left(op)
<1>1. CASE platform = "linux"
  <2>1. Script(op) = IF op = "isolate" THEN Isolate3 ELSE Restore2
    BY <1>1, Zenon DEF Script, Isolate3, Restore2
  <2>2. QED BY <1>1, <2>1 DEF Left
<1>2. CASE platform = "darwin"
  <2>1. Script(op) = IF op = "isolate" THEN <<"enable">> ELSE <<"disable">>
    BY <1>2, Zenon DEF Script
  <2>2. QED BY <1>2, <2>1 DEF Left, Others
<1>3. CASE platform = "windows"
  <2>1. Script(op) = IF op = "isolate" THEN <<"drop">> ELSE <<"accept">>
    BY <1>3, Zenon DEF Script
  <2>2. QED BY <1>3, <2>1 DEF Left, Others
<1>4. QED BY <1>1, <1>2, <1>3

LEMMA NetBegin ==
  ASSUME NetInv, UNCHANGED platform, NEW c \in NetCallers, NEW op \in Orders, BeginNet(c, op)
  PROVE  NetInv'
<1> DEFINE j == [op |-> op, todo |-> Script(op)]
<1>1. /\ ncall' = [ncall EXCEPT ![c] = j] /\ mishap' = (mishap \/ Opposed(op)) /\ UNCHANGED fw
      /\ NetTyped
  BY DEF BeginNet, NetInv
<1>2. Script(op) \in Left(op) /\ j.op = op /\ j.todo = Script(op)
  BY <1>1, ScriptLeft DEF NetTyped
<1>3. DOMAIN ncall' = NetCallers /\ ncall'[c] = j /\ \A d \in NetCallers \ {c} : ncall'[d] = ncall[d]
  BY <1>1 DEF NetTyped
<1>4. NetTyped'
  <2>1. ASSUME NEW d \in NetCallers
        PROVE  \/ ncall'[d] = NoNetCall
               \/ \E o \in Orders : \E t \in Left(o) : ncall'[d] = [op |-> o, todo |-> t]
    <3>1. CASE d = c
      BY <1>2, <1>3, <3>1
    <3>2. CASE d # c
      BY <1>1, <1>3, <3>2 DEF NetTyped
    <3>3. QED BY <3>1, <3>2
  <2>2. mishap' \in BOOLEAN
    BY <1>1, Zenon DEF NetTyped, Opposed
  <2>3. \A o : Left(o)' = Left(o)
    BY DEF Left
  <2>4. QED BY <1>1, <1>3, <2>1, <2>2, <2>3 DEF NetTyped
<1> HIDE DEF j
<1>5. ASSUME platform = "linux", ~mishap'
      PROVE  /\ \A a, d \in NetCallers : ncall'[a].op = "isolate" => ncall'[d].op # "restore"
             /\ \A d \in NetCallers : Kept(ncall[d].todo)'
             /\ fw.drop => Own(fw.chain) = Whitelist
  <2>1. ~mishap /\ ~Opposed(op)
    BY <1>1, <1>5, Zenon DEF NetTyped
  <2>2. /\ \A a, d \in NetCallers : ncall[a].op = "isolate" => ncall[d].op # "restore"
        /\ \A d \in NetCallers : Kept(ncall[d].todo)
        /\ fw.drop => Own(fw.chain) = Whitelist
    BY <1>5, <2>1 DEF NetInv
  <2>3. \A d \in NetCallers : ncall[d].op \in {"none", op}
    BY <2>1 DEF Opposed
  <2>4. \A d \in NetCallers : ncall'[d].op \in {"none", op}
    BY <1>2, <1>3, <2>3
  <2>5. Script(op) = IF op = "isolate" THEN Isolate3 ELSE Restore2
    BY <1>5, Zenon DEF Script, Isolate3, Restore2
  <2>6. Kept(Script(op))
    BY <2>5, Scripts DEF Kept
  <2>7. \A d \in NetCallers : Kept(ncall'[d].todo)
    BY <1>2, <1>3, <2>2, <2>6
  <2>8. \A d \in NetCallers : Kept(ncall[d].todo)'
    BY <1>1, <2>7 DEF Kept
  <2>9. QED BY <2>2, <2>4, <2>8 DEF Orders
<1>6. QED BY <1>1, <1>4, <1>5 DEF NetInv

LEMMA EffectOf ==
  ASSUME fw \in Firewall
  PROVE  /\ \A cmd \in Whitelist : /\ Effect(cmd) \in Firewall /\ Effect(cmd).drop = fw.drop
                                   /\ Own(Effect(cmd).chain) = Own(fw.chain) \cup {cmd}
         /\ Effect("drop") \in Firewall /\ Own(Effect("drop").chain) = Own(fw.chain)
         /\ Effect("accept") \in Firewall /\ ~Effect("accept").drop
         /\ Effect("flush") \in Firewall /\ Effect("flush").drop = fw.drop
         /\ Effect("enable") \in Firewall /\ Effect("disable") \in Firewall
<1>1. \A cmd \in Whitelist : cmd \notin {"drop", "accept", "flush", "enable", "disable"}
  BY DEF Whitelist
<1>2. \A cmd \in {"drop", "accept", "flush", "enable", "disable"} : cmd \notin Whitelist
  BY DEF Whitelist
<1>3. ASSUME NEW cmd \in Whitelist
      PROVE  /\ Effect(cmd) \in Firewall /\ Effect(cmd).drop = fw.drop
             /\ Own(Effect(cmd).chain) = Own(fw.chain) \cup {cmd}
  <2> DEFINE r == LetThrough(cmd)  longer == Append(fw.chain, r)
  <2>1. Effect(cmd) = IF Holds(r) THEN fw ELSE [fw EXCEPT !.chain = longer]
    BY <1>1, Zenon DEF Effect
  <2>2. CASE Holds(r)
    BY <2>1, <2>2 DEF Holds, Own
  <2>3. CASE ~Holds(r)
    <3>0. Effect(cmd) = [fw EXCEPT !.chain = longer]
      BY <2>1, <2>3
    <3>1. r \in Rule
      BY DEF LetThrough, Rule, Traffic
    <3>2. /\ fw.chain \in Seq(Rule) /\ longer \in Seq(Rule)
          /\ DOMAIN fw.chain = 1 .. Len(fw.chain) /\ DOMAIN longer = 1 .. Len(fw.chain) + 1
          /\ longer[Len(fw.chain) + 1] = r /\ Len(fw.chain) \in Nat
          /\ \A i \in 1 .. Len(fw.chain) : longer[i] = fw.chain[i]
      BY <3>1 DEF Firewall
    <3> HIDE DEF longer
    <3>3. Effect(cmd) \in Firewall /\ Effect(cmd).drop = fw.drop /\ Effect(cmd).chain = longer
      BY <3>0, <3>2 DEF Firewall
    <3>4. ASSUME NEW t \in Whitelist
          PROVE  (\E i \in DOMAIN longer : longer[i] = LetThrough(t))
                   <=> t = cmd \/ \E i \in DOMAIN fw.chain : fw.chain[i] = LetThrough(t)
      <4>1. LetThrough(t) = r => t = cmd
        BY DEF LetThrough
      <4>2. \A i : i \in DOMAIN longer <=> i \in DOMAIN fw.chain \/ i = Len(fw.chain) + 1
        BY <3>2
      <4> HIDE DEF r
      <4>3. r = LetThrough(cmd)
        BY DEF r
      <4>4. QED BY <3>2, <4>1, <4>2, <4>3
    <3>5. Own(longer) = Own(fw.chain) \cup {cmd}
      BY <3>4 DEF Own
    <3>6. QED BY <3>3, <3>5
  <2>4. QED BY <2>2, <2>3
<1>4. Effect("drop") = [fw EXCEPT !.drop = TRUE]
  BY <1>2, Zenon DEF Effect
<1>5. Effect("accept") = [fw EXCEPT !.drop = FALSE]
  BY <1>2, Zenon DEF Effect
<1>6. Effect("flush") = [fw EXCEPT !.chain = <<>>]
  BY <1>2, Zenon DEF Effect
<1>7. Effect("enable") = fw
  BY <1>2, Zenon DEF Effect
<1>8. Effect("disable") = fw
  BY <1>2, Zenon DEF Effect
<1>9. Effect("drop") \in Firewall /\ Own(Effect("drop").chain) = Own(fw.chain)
  BY <1>4 DEF Firewall
<1>10. Effect("accept") \in Firewall /\ ~Effect("accept").drop
  BY <1>5 DEF Firewall
<1>11. Effect("flush") \in Firewall /\ Effect("flush").drop = fw.drop
  <2>1. <<>> \in Seq(Rule)
    OBVIOUS
  <2>2. QED BY <1>6, <2>1 DEF Firewall
<1>12. QED BY <1>3, <1>7, <1>8, <1>9, <1>10, <1>11

(* A command that is not the last one. *)
LEMMA LeftAfter ==
  ASSUME NEW op \in Orders, NEW t \in Left(op), Len(t) # 1
  PROVE  /\ Tail(t) \in Left(op) /\ platform = "linux"
         /\ \/ op = "isolate" /\ t = Isolate3 /\ Head(t) = "agent port" /\ Tail(t) = Isolate2
            \/ op = "isolate" /\ t = Isolate2 /\ Head(t) = "loopback" /\ Tail(t) = Isolate1
            \/ op = "restore" /\ t = Restore2 /\ Head(t) = "accept" /\ Tail(t) = Restore1
<1>1. platform = "linux"
  BY Scripts DEF Left
<1>2. CASE op = "isolate"
  BY <1>1, <1>2, Scripts DEF Left
<1>3. CASE op = "restore"
  <2>1. t \in {Restore2, Restore1}
    BY <1>1, <1>3 DEF Left
  <2>2. t = Restore2
    BY <2>1, Scripts
  <2>3. QED BY <1>1, <1>3, <2>1, <2>2, Scripts DEF Left
<1>4. QED BY <1>2, <1>3 DEF Orders

LEMMA LeftLast ==
  ASSUME NEW op \in Orders, NEW t \in Left(op), Len(t) = 1, platform = "linux"
  PROVE  \/ op = "isolate" /\ t = Isolate1 /\ Head(t) = "drop"
         \/ op = "restore" /\ t = Restore1 /\ Head(t) = "flush"
<1>1. CASE op = "isolate"
  <2>1. t \in {Isolate3, Isolate2, Isolate1}
    BY <1>1 DEF Left
  <2>2. t = Isolate1 /\ Head(Isolate1) = "drop"
    BY <2>1, Scripts
  <2>3. QED BY <1>1, <2>2
<1>2. CASE op = "restore"
  <2>1. t \in {Restore2, Restore1}
    BY <1>2 DEF Left
  <2>2. t = Restore1 /\ Head(Restore1) = "flush"
    BY <2>1, Scripts
  <2>3. QED BY <1>2, <2>2
<1>3. QED BY <1>1, <1>2 DEF Orders

LEMMA HeadKnown ==
  ASSUME NEW op \in Orders, NEW t \in Left(op)
  PROVE  Head(t) \in Whitelist \cup {"drop", "accept", "flush", "enable", "disable"}
BY Scripts DEF Left, Orders, Whitelist

LEMMA EffectTyped ==
  ASSUME fw \in Firewall, NEW cmd \in Whitelist \cup {"drop", "accept", "flush", "enable", "disable"}
  PROVE  Effect(cmd) \in Firewall
BY EffectOf

LEMMA NetStep ==
  ASSUME NetInv, UNCHANGED platform, NEW c \in NetCallers, NEW ok \in BOOLEAN, NetCommand(c, ok)
  PROVE  NetInv'
<1> DEFINE rest == Tail(ncall[c].todo)  cmd == Head(ncall[c].todo)
           j == IF NetEnds(c) THEN NoNetCall ELSE [op |-> ncall[c].op, todo |-> rest]
<1>1. /\ ncall[c] # NoNetCall /\ fw' = (IF ok THEN Effect(cmd) ELSE fw)
      /\ mishap' = (mishap \/ (~ok /\ ~NetEnds(c))) /\ ncall' = [ncall EXCEPT ![c] = j]
      /\ NetTyped
  BY DEF NetCommand, NetInv
<1>2. PICK op \in Orders : \E t \in Left(op) : ncall[c] = [op |-> op, todo |-> t]
  BY <1>1 DEF NetTyped
<1>3. PICK t \in Left(op) : ncall[c] = [op |-> op, todo |-> t]
  BY <1>2
<1>4. ncall[c].op = op /\ ncall[c].todo = t /\ cmd = Head(t) /\ rest = Tail(t)
  BY <1>3
<1>5. /\ NetEnds(c) => Len(t) = 1 /\ j = NoNetCall /\ j.todo = <<>>
      /\ ~NetEnds(c) => Len(t) # 1 /\ j = [op |-> op, todo |-> Tail(t)] /\ j.todo = Tail(t)
  <2>1. NoNetCall.todo = <<>>
    BY DEF NoNetCall
  <2>2. NetEnds(c) <=> Len(t) = 1
    BY <1>4 DEF NetEnds
  <2>3. CASE NetEnds(c)
    BY <2>1, <2>2, <2>3
  <2>4. CASE ~NetEnds(c)
    <3>1. j = [op |-> op, todo |-> Tail(t)]
      BY <1>4, <2>4
    <3>2. QED BY <2>2, <2>4, <3>1
  <2>5. QED BY <2>3, <2>4
<1>6. DOMAIN ncall' = NetCallers /\ ncall'[c] = j /\ \A d \in NetCallers \ {c} : ncall'[d] = ncall[d]
  BY <1>1 DEF NetTyped
<1>7. fw' \in Firewall
  <2>1. Effect(cmd) \in Firewall
    BY <1>1, <1>4, HeadKnown, EffectTyped DEF NetTyped
  <2>2. QED BY <1>1, <2>1 DEF NetTyped
<1> HIDE DEF j, rest, cmd
<1>8. NetTyped'
  <2>1. ASSUME NEW d \in NetCallers
        PROVE  \/ ncall'[d] = NoNetCall
               \/ \E o \in Orders : \E u \in Left(o) : ncall'[d] = [op |-> o, todo |-> u]
    <3>1. CASE d = c
      <4>1. CASE NetEnds(c)
        BY <1>5, <1>6, <3>1, <4>1
      <4>2. CASE ~NetEnds(c)
        <5>1. Tail(t) \in Left(op) /\ ncall'[d] = [op |-> op, todo |-> Tail(t)]
          BY <1>5, <1>6, <3>1, <4>2, LeftAfter
        <5>2. QED BY <5>1
      <4>3. QED BY <4>1, <4>2
    <3>2. CASE d # c
      BY <1>1, <1>6, <3>2 DEF NetTyped
    <3>3. QED BY <3>1, <3>2
  <2>2. mishap' \in BOOLEAN
    BY <1>1, Zenon DEF NetTyped
  <2>3. \A o : Left(o)' = Left(o)
    BY DEF Left
  <2>4. QED BY <1>1, <1>6, <1>7, <2>1, <2>2, <2>3 DEF NetTyped
<1>9. ASSUME platform = "linux", ~mishap'
      PROVE  /\ \A a, d \in NetCallers : ncall'[a].op = "isolate" => ncall'[d].op # "restore"
             /\ \A d \in NetCallers : Kept(ncall[d].todo)'
             /\ fw'.drop => Own(fw'.chain) = Whitelist
  <2>1. ~mishap /\ (ok \/ NetEnds(c))
    BY <1>1, <1>9, Zenon DEF NetTyped
  <2>2. /\ \A a, d \in NetCallers : ncall[a].op = "isolate" => ncall[d].op # "restore"
        /\ \A d \in NetCallers : Kept(ncall[d].todo)
        /\ fw.drop => Own(fw.chain) = Whitelist
    BY <1>9, <2>1 DEF NetInv
  <2>3. \A d \in NetCallers : ncall'[d].op \in {"none", ncall[d].op}
    <3>1. NoNetCall.op = "none"
      BY DEF NoNetCall
    <3>2. j.op \in {"none", op}
      BY <1>5, <3>1
    <3>3. QED BY <1>4, <1>6, <3>2
  <2>4. \A a, d \in NetCallers : ncall'[a].op = "isolate" => ncall'[d].op # "restore"
    BY <2>2, <2>3
  <2>5. ASSUME NEW d \in NetCallers, d # c
        PROVE  \/ ncall[d].op = op /\ ncall[d].todo \in Left(op)
               \/ ncall[d].todo = <<>>
    <3>1. CASE ncall[d] = NoNetCall
      BY <3>1 DEF NoNetCall
    <3>2. CASE ncall[d] # NoNetCall
      <4>1. PICK o \in Orders : \E u \in Left(o) : ncall[d] = [op |-> o, todo |-> u]
        BY <1>1, <3>2 DEF NetTyped
      <4>2. PICK u \in Left(o) : ncall[d] = [op |-> o, todo |-> u]
        BY <4>1
      <4>3. ncall[d].op = o /\ ncall[d].todo = u
        BY <4>2
      <4>4. o = op
        BY <1>4, <2>2, <4>3 DEF Orders
      <4>5. QED BY <4>3, <4>4
    <3>3. QED BY <3>1, <3>2
  <2>6. ASSUME fw'.drop = fw.drop, Own(fw'.chain) = Own(fw.chain), NetEnds(c)
        PROVE  /\ \A d \in NetCallers : Kept(ncall[d].todo)'
               /\ fw'.drop => Own(fw'.chain) = Whitelist
    <3>1. \A d \in NetCallers \ {c} : Kept(ncall[d].todo)'
      BY <1>6, <2>2, <2>6 DEF Kept
    <3>2. Kept(ncall[c].todo)'
      BY <1>5, <1>6, <2>6, Scripts DEF Kept
    <3>3. QED BY <2>2, <2>6, <3>1, <3>2
  <2>7. CASE ~ok
    BY <1>1, <2>1, <2>4, <2>6, <2>7
  <2>8. CASE ok /\ op = "isolate"
    <3>1. \A d \in NetCallers \ {c} : ncall[d].todo \in {<<>>, Isolate3, Isolate2, Isolate1}
      BY <1>9, <2>5, <2>8 DEF Left
    <3>2. \/ t = Isolate3 /\ cmd = "agent port" /\ ncall'[c].todo = Isolate2
          \/ t = Isolate2 /\ cmd = "loopback" /\ ncall'[c].todo = Isolate1
          \/ t = Isolate1 /\ cmd = "drop" /\ ncall'[c].todo = <<>>
      <4>1. CASE NetEnds(c)
        BY <1>4, <1>5, <1>6, <1>9, <2>8, <4>1, LeftLast
      <4>2. CASE ~NetEnds(c)
        BY <1>4, <1>5, <1>6, <2>8, <4>2, LeftAfter
      <4>3. QED BY <4>1, <4>2
    <3>3. Own(fw.chain) \subseteq Whitelist /\ Kept(t)
      BY <1>1, <1>4, <2>2 DEF NetTyped, Firewall, Own
    <3>4. /\ Own(fw.chain) \subseteq Own(fw'.chain) /\ Own(fw'.chain) \subseteq Whitelist
          /\ fw'.drop => Own(fw'.chain) = Whitelist
          /\ ncall'[c].todo = Isolate2 => "agent port" \in Own(fw'.chain)
          /\ ncall'[c].todo = Isolate1 => Own(fw'.chain) = Whitelist
          /\ ncall'[c].todo # Restore1
      <4>1. fw' = Effect(cmd) /\ fw \in Firewall
        BY <1>1, <2>8 DEF NetTyped
      <4>2. CASE t = Isolate3 /\ cmd = "agent port" /\ ncall'[c].todo = Isolate2
        <5>1. fw'.drop = fw.drop /\ Own(fw'.chain) = Own(fw.chain) \cup {"agent port"}
          BY <4>1, <4>2, EffectOf DEF Whitelist
        <5>2. QED BY <2>2, <3>3, <4>2, <5>1, Scripts DEF Whitelist
      <4>3. CASE t = Isolate2 /\ cmd = "loopback" /\ ncall'[c].todo = Isolate1
        <5>1. fw'.drop = fw.drop /\ Own(fw'.chain) = Own(fw.chain) \cup {"loopback"}
          BY <4>1, <4>3, EffectOf DEF Whitelist
        <5>2. QED BY <2>2, <3>3, <4>3, <5>1, Scripts DEF Whitelist, Kept
      <4>4. CASE t = Isolate1 /\ cmd = "drop" /\ ncall'[c].todo = <<>>
        <5>1. Own(fw'.chain) = Own(fw.chain)
          BY <4>1, <4>4, EffectOf
        <5>2. QED BY <2>2, <3>3, <4>4, <5>1, Scripts DEF Kept
      <4>5. QED BY <3>2, <4>2, <4>3, <4>4
    <3>5. \A d \in NetCallers : Kept(ncall[d].todo)'
      <4>1. ASSUME NEW d \in NetCallers, d # c PROVE Kept(ncall[d].todo)'
        <5>1. ncall'[d].todo = ncall[d].todo /\ Kept(ncall[d].todo)
          BY <1>6, <2>2, <4>1
        <5>2. ncall'[d].todo # Restore1
          BY <3>1, <4>1, <5>1, Scripts
        <5>3. QED BY <3>4, <5>1, <5>2 DEF Kept
      <4>2. Kept(ncall[c].todo)'
        BY <3>4 DEF Kept
      <4>3. QED BY <4>1, <4>2
    <3>6. QED BY <2>4, <3>4, <3>5
  <2>9. CASE ok /\ op = "restore"
    <3>1. \A d \in NetCallers \ {c} : ncall[d].todo \in {<<>>, Restore2, Restore1}
      BY <1>9, <2>5, <2>9 DEF Left
    <3>2. \/ t = Restore2 /\ cmd = "accept" /\ ncall'[c].todo = Restore1
          \/ t = Restore1 /\ cmd = "flush" /\ ncall'[c].todo = <<>>
      <4>1. CASE NetEnds(c)
        BY <1>4, <1>5, <1>6, <1>9, <2>9, <4>1, LeftLast
      <4>2. CASE ~NetEnds(c)
        BY <1>4, <1>5, <1>6, <2>9, <4>2, LeftAfter
      <4>3. QED BY <4>1, <4>2
    <3>3. ~fw'.drop
      <4>1. fw' = Effect(cmd) /\ fw \in Firewall /\ Kept(t)
        BY <1>1, <1>4, <2>2, <2>9 DEF NetTyped
      <4>2. CASE t = Restore2 /\ cmd = "accept"
        BY <4>1, <4>2, EffectOf
      <4>3. CASE t = Restore1 /\ cmd = "flush"
        BY <4>1, <4>3, EffectOf DEF Kept
      <4>4. QED BY <3>2, <4>2, <4>3
    <3>4. \A d \in NetCallers : ncall'[d].todo \in {<<>>, Restore2, Restore1}
      BY <1>6, <3>1, <3>2
    <3>5. \A d \in NetCallers : Kept(ncall[d].todo)'
      BY <3>3, <3>4, Scripts DEF Kept
    <3>6. QED BY <2>4, <3>3, <3>5
  <2>10. QED BY <2>7, <2>8, <2>9 DEF Orders
<1>10. QED BY <1>8, <1>9 DEF NetInv

-----------------------------------------------------------------------------
Idle(c) == qcall[c] = NoQuarantine

(* A call that is under way, a file that was removed. *)
QCall   == [at : {"read", "open", "written"}, path : Paths, data : 1 .. contents, id : 1 .. quarantines,
            shared : BOOLEAN]
Removal == [id : 1 .. quarantines, base : Bases, data : 1 .. contents, held : 1 .. contents,
            shared : BOOLEAN]

QTyped ==
  /\ contents \in Nat /\ quarantines \in Nat
  /\ file \in [Paths -> 1 .. contents \cup {Absent}]
  /\ vault \in [Bases -> 1 .. contents \cup {Absent, Cut}]
  /\ lastWriter \in [Bases -> 0 .. quarantines]
  /\ removed \subseteq Removal
  /\ DOMAIN qcall = QCallers /\ \A c \in QCallers : Idle(c) \/ qcall[c] \in QCall

(* A call has an id of its own. *)
OwnId ==
  \A c \in QCallers : ~Idle(c) =>
    /\ \A d \in QCallers : ~Idle(d) /\ qcall[d].id = qcall[c].id => d = c
    /\ \A r \in removed : r.id # qcall[c].id

(* A file that a call has read is gone, or holds that or something later. *)
NoOlder ==
  \A c \in QCallers : ~Idle(c) =>
    file[qcall[c].path] = Absent \/ file[qcall[c].path] >= qcall[c].data

(* What a call wrote is in the vault until another one writes there. *)
Written ==
  \A c \in QCallers : ~Idle(c) /\ qcall[c].at = "written" =>
    \/ vault[VaultFile(c)] = qcall[c].data
    \/ qcall[c].shared \/ lastWriter[VaultFile(c)] # qcall[c].id

QInv == QTyped /\ OwnId /\ NoOlder /\ Written /\ QuarantineKeeps

LEMMA QIdle == NoQuarantine.at = "idle" /\ \A q \in QCall : q # NoQuarantine /\ q.at # "idle"
<1>1. NoQuarantine.at = "idle"
  BY DEF NoQuarantine
<1>2. \A q \in QCall : q.at # "idle"
  BY DEF QCall
<1>3. QED BY <1>1, <1>2

LEMMA QInvOK == QInv => QuarantineTypeOK /\ QuarantineKeeps
<1> SUFFICES ASSUME QInv PROVE QuarantineTypeOK
  BY DEF QInv
<1>1. QTyped
  BY DEF QInv
<1>2. \A c \in QCallers : qcall[c].at \in {"idle", "read", "open", "written"}
  <2>1. ASSUME NEW c \in QCallers PROVE qcall[c].at \in {"idle", "read", "open", "written"}
    <3>1. CASE Idle(c)
      BY <3>1, QIdle DEF Idle
    <3>2. CASE qcall[c] \in QCall
      BY <3>2 DEF QCall
    <3>3. QED BY <1>1, <3>1, <3>2 DEF QTyped
  <2>2. QED BY <2>1
<1>3. file \in [Paths -> Nat \cup {Absent}] /\ vault \in [Bases -> Nat \cup {Absent, Cut}]
  <2>1. 1 .. contents \subseteq Nat
    BY <1>1 DEF QTyped
  <2>2. QED BY <1>1, <2>1 DEF QTyped
<1>4. QED BY <1>1, <1>2, <1>3 DEF QTyped, QuarantineTypeOK

LEMMA QInitInv == QInit => QInv
<1> SUFFICES ASSUME QInit PROVE QInv
  OBVIOUS
<1>1. \A c \in QCallers : Idle(c)
  BY DEF QInit, Idle
<1>2. removed = {}
  BY DEF QInit
<1>3. QTyped
  BY <1>1, <1>2 DEF QInit, QTyped
<1>4. QED BY <1>1, <1>2, <1>3 DEF QInv, OwnId, NoOlder, Written, QuarantineKeeps

(* The calls are over, and nothing else has changed. *)
LEMMA QDies ==
  ASSUME QInv, QuarantineCrash PROVE QInv'
<1>1. /\ DOMAIN qcall' = QCallers /\ \A c \in QCallers : Idle(c)'
      /\ UNCHANGED <<file, vault, contents, quarantines, lastWriter, removed>>
  BY DEF QuarantineCrash, Idle
<1>2. QTyped' /\ QuarantineKeeps'
  BY <1>1 DEF QInv, QTyped, QuarantineKeeps, Removal
<1>3. QED BY <1>1, <1>2 DEF QInv, OwnId, NoOlder, Written

LEMMA QStutter == ASSUME QInv, UNCHANGED qVars PROVE QInv'
<1>1. \A c : Idle(c)' = Idle(c) /\ VaultFile(c)' = VaultFile(c)
  BY DEF qVars, Idle, VaultFile
<1>2. QCall' = QCall /\ Removal' = Removal
  BY DEF qVars, QCall, Removal
<1>3. QTyped'
  BY <1>1, <1>2 DEF QInv, QTyped, qVars
<1>4. QED BY <1>1, <1>3 DEF QInv, OwnId, NoOlder, Written, QuarantineKeeps, qVars

LEMMA QSource == ASSUME QInv, NEW p \in Paths, WriteSource(p) PROVE QInv'
<1> DEFINE n == contents + 1
<1>1. /\ contents' = n /\ file' = [file EXCEPT ![p] = n]
      /\ UNCHANGED <<vault, qcall, quarantines, lastWriter, removed>>
      /\ QTyped /\ contents \in Nat /\ n \in Nat
  BY DEF WriteSource, QInv, QTyped
<1>2. 1 .. contents \subseteq 1 .. n /\ n \in 1 .. n /\ \A i \in 1 .. contents : n >= i
  BY <1>1
<1>3. QCall \subseteq QCall' /\ Removal \subseteq Removal'
  BY <1>1, <1>2 DEF QCall, Removal
<1> HIDE DEF n
<1>4. \A c : Idle(c)' = Idle(c) /\ VaultFile(c)' = VaultFile(c)
  BY <1>1 DEF Idle, VaultFile
<1>5. QTyped'
  <2>1. file' \in [Paths -> 1 .. n \cup {Absent}]
    BY <1>1, <1>2 DEF QTyped
  <2>2. vault' \in [Bases -> 1 .. n \cup {Absent, Cut}]
    BY <1>1, <1>2 DEF QTyped
  <2>3. QED BY <1>1, <1>3, <1>4, <2>1, <2>2 DEF QTyped
<1>6. NoOlder'
  <2>1. ASSUME NEW c \in QCallers, ~Idle(c)
        PROVE  file'[qcall[c].path] = Absent \/ file'[qcall[c].path] >= qcall[c].data
    <3>1. qcall[c] \in QCall /\ qcall[c].path \in Paths /\ n >= qcall[c].data
      BY <1>1, <1>2, <2>1 DEF QTyped, QCall
    <3>2. CASE qcall[c].path = p
      BY <1>1, <3>1, <3>2 DEF QTyped
    <3>3. CASE qcall[c].path # p
      BY <1>1, <2>1, <3>1, <3>3 DEF QTyped, QInv, NoOlder
    <3>4. QED BY <3>2, <3>3
  <2>2. QED BY <1>1, <1>4, <2>1 DEF NoOlder
<1>7. OwnId' /\ Written' /\ QuarantineKeeps'
  BY <1>1, <1>4 DEF QInv, OwnId, Written, QuarantineKeeps
<1>8. QED BY <1>5, <1>6, <1>7 DEF QInv

LEMMA QBegin == ASSUME QInv, NEW c \in QCallers, NEW p \in Paths, BeginQuarantine(c, p) PROVE QInv'
<1> DEFINE n == quarantines + 1
           q == [at |-> "read", path |-> p, data |-> file[p], id |-> n, shared |-> FALSE]
<1>1. /\ quarantines' = n /\ qcall' = [qcall EXCEPT ![c] = q] /\ Idle(c) /\ file[p] # Absent
      /\ UNCHANGED <<file, vault, contents, lastWriter, removed>>
      /\ QTyped /\ quarantines \in Nat /\ n \in Nat
  BY DEF BeginQuarantine, QInv, QTyped, Idle
<1>2. 1 .. quarantines \subseteq 1 .. n /\ 0 .. quarantines \subseteq 0 .. n /\ n \in 1 .. n /\ n \notin 0 .. quarantines
      /\ n \notin 1 .. quarantines
  BY <1>1
<1>3. QCall \subseteq QCall' /\ Removal \subseteq Removal'
  BY <1>1, <1>2 DEF QCall, Removal
<1>4. file[p] \in 1 .. contents
  BY <1>1 DEF QTyped
<1>5. q \in QCall' /\ q.id = n /\ q.path = p /\ q.data = file[p] /\ q.at = "read"
  BY <1>1, <1>2, <1>4 DEF QCall
<1> HIDE DEF n, q
<1>6. /\ DOMAIN qcall' = QCallers /\ qcall'[c] = q
      /\ \A d \in QCallers \ {c} : qcall'[d] = qcall[d] /\ Idle(d)' = Idle(d) /\ VaultFile(d)' = VaultFile(d)
  BY <1>1 DEF QTyped, Idle, VaultFile
<1>7. QTyped'
  <2>1. lastWriter' \in [Bases -> 0 .. n]
    BY <1>1, <1>2 DEF QTyped
  <2>2. \A d \in QCallers : Idle(d)' \/ qcall'[d] \in QCall'
    BY <1>1, <1>3, <1>5, <1>6 DEF QTyped
  <2>3. QED BY <1>1, <1>3, <1>6, <2>1, <2>2 DEF QTyped
<1>8. \A d \in QCallers \ {c} : ~Idle(d) => qcall[d].id \in 1 .. quarantines
  BY <1>1 DEF QTyped, QCall
<1>9. \A r \in removed : r.id \in 1 .. quarantines
  BY <1>1 DEF QTyped, Removal
<1>10. OwnId'
  <2>1. ASSUME NEW d \in QCallers, ~Idle(d)'
        PROVE  /\ \A e \in QCallers : ~Idle(e)' /\ qcall'[e].id = qcall'[d].id => e = d
               /\ \A r \in removed : r.id # qcall'[d].id
    <3>1. CASE d = c
      BY <1>2, <1>5, <1>6, <1>8, <1>9, <3>1
    <3>2. CASE d # c
      <4>1. \A r \in removed : r.id # qcall'[d].id
        BY <1>6, <2>1, <3>2 DEF QInv, OwnId
      <4>2. ASSUME NEW e \in QCallers, ~Idle(e)', qcall'[e].id = qcall'[d].id PROVE e = d
        <5>1. CASE e = c
          BY <1>2, <1>5, <1>6, <1>8, <2>1, <3>2, <4>2, <5>1
        <5>2. CASE e # c
          BY <1>6, <2>1, <3>2, <4>2, <5>2 DEF QInv, OwnId
        <5>3. QED BY <5>1, <5>2
      <4>3. QED BY <4>1, <4>2
    <3>3. QED BY <3>1, <3>2
  <2>2. QED BY <1>1, <2>1 DEF OwnId
<1>11. NoOlder'
  <2>1. ASSUME NEW d \in QCallers, ~Idle(d)'
        PROVE  file[qcall'[d].path] = Absent \/ file[qcall'[d].path] >= qcall'[d].data
    <3>1. CASE d = c
      BY <1>4, <1>5, <1>6, <3>1
    <3>2. CASE d # c
      BY <1>6, <2>1, <3>2 DEF QInv, NoOlder
    <3>3. QED BY <3>1, <3>2
  <2>2. QED BY <1>1, <2>1 DEF NoOlder
<1>12. Written'
  <2>1. ASSUME NEW d \in QCallers, ~Idle(d)', qcall'[d].at = "written"
        PROVE  \/ vault[VaultFile(d)'] = qcall'[d].data
               \/ qcall'[d].shared \/ lastWriter[VaultFile(d)'] # qcall'[d].id
    <3>1. d # c
      BY <1>5, <1>6, <2>1
    <3>2. QED BY <1>6, <2>1, <3>1 DEF QInv, Written
  <2>2. QED BY <1>1, <2>1 DEF Written
<1>13. QuarantineKeeps'
  BY <1>1 DEF QInv, QuarantineKeeps
<1>14. QED BY <1>7, <1>10, <1>11, <1>12, <1>13 DEF QInv

LEMMA QFails == ASSUME QInv, NEW c \in QCallers, QuarantineFails(c) PROVE QInv'
<1>1. /\ DOMAIN qcall' = QCallers /\ qcall'[c] = NoQuarantine
      /\ \A d \in QCallers \ {c} : qcall'[d] = qcall[d]
      /\ UNCHANGED <<file, vault, contents, quarantines, lastWriter, removed>> /\ QTyped
  BY DEF QuarantineFails, QInv, QTyped
<1>2. /\ Idle(c)'
      /\ \A d \in QCallers : ~Idle(d)' => d # c /\ ~Idle(d) /\ qcall'[d] = qcall[d] /\ VaultFile(d)' = VaultFile(d)
      /\ QCall' = QCall /\ Removal' = Removal
  BY <1>1 DEF Idle, VaultFile, QCall, Removal
<1>3. QTyped'
  BY <1>1, <1>2 DEF QTyped
<1>4. OwnId' /\ NoOlder' /\ Written' /\ QuarantineKeeps'
  BY <1>1, <1>2 DEF QInv, OwnId, NoOlder, Written, QuarantineKeeps
<1>5. QED BY <1>3, <1>4 DEF QInv

(* A call has put something into the vault: whole if nobody else did meanwhile. *)
LEMMA QTouches ==
  ASSUME QInv, NEW c \in QCallers, ~Idle(c), NEW at \in {"open", "written", "idle"}, Touch(c, at),
         NEW v, vault' = [vault EXCEPT ![VaultFile(c)] = v],
         v = Cut \/ v = qcall[c].data, at = "written" => v = qcall[c].data \/ qcall[c].shared
  PROVE  QInv'
<1> DEFINE b == VaultFile(c)  q == qcall[c]
           moved == IF at = "idle" THEN NoQuarantine ELSE [q EXCEPT !.at = at]
           told(d) == IF qcall[d].at = "open" /\ VaultFile(d) = b
                      THEN [qcall[d] EXCEPT !.shared = TRUE] ELSE qcall[d]
<1>1. /\ qcall' = [d \in QCallers |-> IF d = c THEN moved ELSE told(d)]
      /\ lastWriter' = [lastWriter EXCEPT ![b] = q.id]
      /\ UNCHANGED <<file, contents, quarantines, removed>>
      /\ QTyped /\ q \in QCall
  BY DEF Touch, QInv, QTyped
<1>2. /\ q.path \in Paths /\ q.data \in 1 .. contents /\ q.id \in 1 .. quarantines /\ b \in Bases
      /\ b = BaseOf[q.path] /\ q.id \in 0 .. quarantines
  BY <1>1, QuarantineAssumption DEF QCall, VaultFile, QTyped
<1>3. at # "idle" => /\ moved \in QCall /\ moved.at = at /\ moved.path = q.path /\ moved.data = q.data
                     /\ moved.id = q.id /\ moved.shared = q.shared
  <2> HIDE DEF q
  <2>1. QED BY <1>1 DEF QCall
<1>4. ASSUME NEW d \in QCallers \ {c}
      PROVE  /\ Idle(d) => told(d) = qcall[d]
             /\ ~Idle(d) => /\ told(d) \in QCall /\ told(d).at = qcall[d].at /\ told(d).path = qcall[d].path
                            /\ told(d).data = qcall[d].data /\ told(d).id = qcall[d].id
                            /\ qcall[d].shared => told(d).shared
  <2>1. CASE Idle(d)
    BY <2>1, QIdle DEF Idle
  <2>2. CASE ~Idle(d)
    <3> DEFINE u == qcall[d]
    <3>1. u \in QCall
      BY <1>1, <2>2 DEF QTyped
    <3> HIDE DEF u
    <3>2. /\ [u EXCEPT !.shared = TRUE] \in QCall /\ [u EXCEPT !.shared = TRUE].at = u.at
          /\ [u EXCEPT !.shared = TRUE].path = u.path /\ [u EXCEPT !.shared = TRUE].data = u.data
          /\ [u EXCEPT !.shared = TRUE].id = u.id /\ [u EXCEPT !.shared = TRUE].shared
      BY <3>1 DEF QCall
    <3>3. told(d) = u \/ told(d) = [u EXCEPT !.shared = TRUE]
      BY DEF u
    <3>4. QED BY <2>2, <3>1, <3>2, <3>3 DEF u
  <2>3. QED BY <2>1, <2>2
<1>5. /\ DOMAIN qcall' = QCallers /\ qcall'[c] = moved /\ \A d \in QCallers \ {c} : qcall'[d] = told(d)
  BY <1>1
<1> HIDE DEF moved, told
<1>6. /\ Idle(c)' <=> at = "idle"
      /\ \A d \in QCallers \ {c} : Idle(d)' = Idle(d)
  <2>1. Idle(c)' <=> at = "idle"
    BY <1>3, <1>5, QIdle DEF Idle, moved
  <2>2. ASSUME NEW d \in QCallers \ {c} PROVE Idle(d)' = Idle(d)
    <3>1. CASE Idle(d)
      BY <1>4, <1>5, <3>1 DEF Idle
    <3>2. CASE ~Idle(d)
      BY <1>4, <1>5, <3>2, QIdle DEF Idle
    <3>3. QED BY <3>1, <3>2
  <2>3. QED BY <2>1, <2>2
<1>7. /\ ~Idle(c)' => /\ qcall'[c].at = at /\ qcall'[c].path = q.path /\ qcall'[c].data = q.data
                      /\ qcall'[c].id = q.id /\ qcall'[c].shared = q.shared /\ VaultFile(c)' = b
      /\ \A d \in QCallers \ {c} : ~Idle(d) =>
           /\ qcall'[d].at = qcall[d].at /\ qcall'[d].path = qcall[d].path /\ qcall'[d].data = qcall[d].data
           /\ qcall'[d].id = qcall[d].id /\ VaultFile(d)' = VaultFile(d)
           /\ qcall[d].shared => qcall'[d].shared
  BY <1>2, <1>3, <1>4, <1>5, <1>6 DEF VaultFile
<1>8. \A d \in QCallers : ~Idle(d)' => ~Idle(d) /\ qcall'[d].id = qcall[d].id /\ qcall'[d].path = qcall[d].path
                                      /\ qcall'[d].data = qcall[d].data
  BY <1>6, <1>7
<1>9. QTyped'
  <2>1. vault' \in [Bases -> 1 .. contents \cup {Absent, Cut}]
    BY <1>1, <1>2 DEF QTyped
  <2>2. lastWriter' \in [Bases -> 0 .. quarantines]
    BY <1>1, <1>2 DEF QTyped
  <2>3. QCall' = QCall /\ Removal' = Removal
    BY <1>1 DEF QCall, Removal
  <2>4. \A d \in QCallers : Idle(d)' \/ qcall'[d] \in QCall
    BY <1>3, <1>4, <1>5, <1>6
  <2>5. QED BY <1>1, <1>5, <2>1, <2>2, <2>3, <2>4 DEF QTyped
<1>10. OwnId'
  BY <1>1, <1>8 DEF QInv, OwnId
<1>11. NoOlder'
  BY <1>1, <1>8 DEF QInv, NoOlder
<1>12. /\ vault'[b] = v /\ \A e \in Bases : e # b => vault'[e] = vault[e] /\ lastWriter'[e] = lastWriter[e]
       /\ lastWriter'[b] = q.id
  BY <1>1, <1>2 DEF QTyped
<1>13. Written'
  <2>1. ASSUME NEW d \in QCallers, ~Idle(d)', qcall'[d].at = "written"
        PROVE  \/ vault'[VaultFile(d)'] = qcall'[d].data
               \/ qcall'[d].shared \/ lastWriter'[VaultFile(d)'] # qcall'[d].id
    <3>1. CASE d = c
      BY <1>7, <1>12, <2>1, <3>1
    <3>2. CASE d # c
      <4>1. ~Idle(d) /\ qcall[d] \in QCall
        BY <1>1, <1>6, <2>1, <3>2 DEF QTyped
      <4>2. VaultFile(d) \in Bases
        BY <4>1, QuarantineAssumption DEF VaultFile, QCall
      <4>3. CASE VaultFile(d) = b
        BY <1>7, <1>12, <3>2, <4>1, <4>3 DEF QInv, OwnId
      <4>4. CASE VaultFile(d) # b
        BY <1>7, <1>12, <2>1, <3>2, <4>1, <4>2, <4>4 DEF QInv, Written
      <4>5. QED BY <4>3, <4>4
    <3>3. QED BY <3>1, <3>2
  <2>2. QED BY <2>1 DEF Written
<1>14. QuarantineKeeps'
  <2>1. ASSUME NEW r \in removed
        PROVE  r.held >= r.data /\ (vault'[r.base] = r.data \/ r.shared \/ lastWriter'[r.base] # r.id)
    <3>1. r.held >= r.data /\ (vault[r.base] = r.data \/ r.shared \/ lastWriter[r.base] # r.id)
      BY DEF QInv, QuarantineKeeps
    <3>2. r.base \in Bases
      BY <1>1 DEF QTyped, Removal
    <3>3. r.id # q.id
      BY DEF QInv, OwnId
    <3>4. QED BY <1>12, <3>1, <3>2, <3>3
  <2>2. QED BY <1>1, <2>1 DEF QuarantineKeeps
<1>15. QED BY <1>9, <1>10, <1>11, <1>13, <1>14 DEF QInv

LEMMA QActive == ASSUME QInv, NEW c \in QCallers, qcall[c].at # "idle" PROVE ~Idle(c) /\ qcall[c] \in QCall
BY QIdle DEF QInv, QTyped, Idle

LEMMA QVault ==
  ASSUME QInv, NEW c \in QCallers, OpenVault(c) \/ WriteVault(c) \/ WriteFails(c) PROVE QInv'
<1>1. CASE OpenVault(c)
  <2>1. Touch(c, "open") /\ vault' = [vault EXCEPT ![VaultFile(c)] = Cut] /\ ~Idle(c)
    BY <1>1, QActive DEF OpenVault
  <2>2. QED BY <2>1, QTouches
<1>2. CASE WriteVault(c)
  <2>1. Touch(c, "written") /\ ~Idle(c) /\ qcall[c] \in QCall
    BY <1>2, QActive DEF WriteVault
  <2>2. PICK v \in {qcall[c].data} \cup (IF qcall[c].shared THEN {Cut} ELSE {}) :
          vault' = [vault EXCEPT ![VaultFile(c)] = v]
    BY <1>2 DEF WriteVault
  <2>3. (v = Cut \/ v = qcall[c].data) /\ (v = qcall[c].data \/ qcall[c].shared)
    BY <2>2
  <2>4. QED BY <2>1, <2>2, <2>3, QTouches
<1>3. CASE WriteFails(c)
  <2>1. Touch(c, "idle") /\ vault' = [vault EXCEPT ![VaultFile(c)] = Cut] /\ ~Idle(c)
    BY <1>3, QActive DEF WriteFails
  <2>2. QED BY <2>1, QTouches
<1>4. QED BY <1>1, <1>2, <1>3

LEMMA QRemove == ASSUME QInv, NEW c \in QCallers, RemoveSource(c) PROVE QInv'
<1> DEFINE q == qcall[c]  b == VaultFile(c)
           s == [id |-> q.id, base |-> b, data |-> q.data, held |-> file[q.path], shared |-> q.shared]
<1>1. /\ removed' = removed \cup {s} /\ file' = [file EXCEPT ![q.path] = Absent] /\ file[q.path] # Absent
      /\ qcall' = [qcall EXCEPT ![c] = NoQuarantine] /\ q.at = "written"
      /\ UNCHANGED <<vault, contents, quarantines, lastWriter>>
      /\ QTyped /\ q \in QCall /\ ~Idle(c)
  BY QActive DEF RemoveSource, Stored, QInv
<1>2. /\ q.path \in Paths /\ q.data \in 1 .. contents /\ q.id \in 1 .. quarantines /\ b \in Bases
      /\ q.shared \in BOOLEAN
  BY <1>1, QuarantineAssumption DEF QCall, VaultFile
<1>3. file[q.path] \in 1 .. contents
  BY <1>1, <1>2 DEF QTyped
<1>4. /\ s \in Removal /\ s.id = q.id /\ s.base = b /\ s.data = q.data /\ s.held = file[q.path]
      /\ s.shared = q.shared
  BY <1>2, <1>3 DEF Removal
<1> HIDE DEF s
<1>5. /\ DOMAIN qcall' = QCallers /\ Idle(c)'
      /\ \A d \in QCallers : ~Idle(d)' => d # c /\ ~Idle(d) /\ qcall'[d] = qcall[d] /\ VaultFile(d)' = VaultFile(d)
      /\ \A d \in QCallers : d # c => qcall'[d] = qcall[d] /\ Idle(d)' = Idle(d)
      /\ QCall' = QCall /\ Removal' = Removal
  BY <1>1 DEF QTyped, Idle, VaultFile, QCall, Removal
<1>6. QTyped'
  BY <1>1, <1>4, <1>5 DEF QTyped
<1>7. OwnId'
  <2>1. ASSUME NEW d \in QCallers, ~Idle(d)'
        PROVE  /\ \A e \in QCallers : ~Idle(e)' /\ qcall'[e].id = qcall'[d].id => e = d
               /\ \A r \in removed' : r.id # qcall'[d].id
    <3>1. d # c /\ ~Idle(d) /\ qcall'[d] = qcall[d]
      BY <1>5, <2>1
    <3>2. s.id # qcall[d].id
      BY <1>1, <1>4, <3>1 DEF QInv, OwnId
    <3>3. \A r \in removed : r.id # qcall[d].id
      BY <3>1 DEF QInv, OwnId
    <3>4. \A e \in QCallers : ~Idle(e)' /\ qcall'[e].id = qcall'[d].id => e = d
      BY <1>5, <3>1 DEF QInv, OwnId
    <3>5. QED BY <1>1, <3>1, <3>2, <3>3, <3>4
  <2>2. QED BY <2>1 DEF OwnId
<1>8. NoOlder'
  <2>1. ASSUME NEW d \in QCallers, ~Idle(d)'
        PROVE  file'[qcall'[d].path] = Absent \/ file'[qcall'[d].path] >= qcall'[d].data
    <3>1. ~Idle(d) /\ qcall'[d] = qcall[d] /\ qcall[d].path \in Paths
      BY <1>1, <1>5, <2>1 DEF QTyped, QCall
    <3>2. file'[qcall[d].path] = Absent \/ file'[qcall[d].path] = file[qcall[d].path]
      BY <1>1, <3>1 DEF QTyped
    <3>3. QED BY <3>1, <3>2 DEF QInv, NoOlder
  <2>2. QED BY <2>1 DEF NoOlder
<1>9. Written'
  BY <1>1, <1>5 DEF QInv, Written
<1>10. QuarantineKeeps'
  <2>1. s.held >= s.data
    BY <1>1, <1>2, <1>3, <1>4 DEF QInv, NoOlder
  <2>2. vault[s.base] = s.data \/ s.shared \/ lastWriter[s.base] # s.id
    BY <1>1, <1>4 DEF QInv, Written
  <2>3. QED BY <1>1, <2>1, <2>2 DEF QInv, QuarantineKeeps
<1>11. QED BY <1>6, <1>7, <1>8, <1>9, <1>10 DEF QInv

-----------------------------------------------------------------------------
(* The calls to KillTree at their beginning, at a crash and when nothing happens. *)
LEMMA TreeIdle ==
  ASSUME NEW P, Family(P), \A x \in 1 .. Len(P) : Lines(P)[x] \subseteq 1 .. x
  PROVE  Base(P, NoKill) /\ Tracked(P, NoKill)
<1>1. NoKill.stack = <<>> /\ NoKill.root = 0 /\ Len(NoKill.stack) = 0
  BY DEF NoKill
<1>2. NoKill \in CallOf(Len(P))
  <2>1. Len(P) \in Nat /\ <<>> \in Seq(FrameOf(Len(P)))
    BY FamilyFacts
  <2>2. QED BY <2>1 DEF NoKill, CallOf
<1>3. \A x \in 1 .. Len(P) : 0 \notin Lines(P)[x]
  <2>1. Len(P) \in Nat /\ \A x \in 1 .. Len(P) : 0 \notin 1 .. x
    BY FamilyFacts
  <2>2. QED BY <2>1
<1>4. Escaped(P, NoKill)
  BY <1>1, <1>3 DEF Escaped
<1>5. QED BY <1>1, <1>2, <1>4 DEF Base, Tracked, FramesAsk

LEMMA TreeLines == ASSUME NEW P, Family(P), NEW x \in 1 .. Len(P) PROVE Lines(P)[x] \subseteq 1 .. x
<1>1. Ordered(P) /\ x \in 0 .. Len(P)
  BY FamilyFacts
<1>2. QED BY <1>1, LineRange

LEMMA TreeInit == KillInit => TreeInv
<1> SUFFICES ASSUME KillInit PROVE TreeInv
  OBVIOUS
<1>1. PICK p \in KillPids : procs = <<[pid |-> p, born |-> 0, parent |-> 0, alive |-> TRUE]>>
  BY DEF KillInit
<1> DEFINE r == [pid |-> p, born |-> 0, parent |-> 0, alive |-> TRUE]
<1>2. r \in HostProcess /\ procs = <<r>> /\ r.born = 0
  BY <1>1 DEF HostProcess
<1>3. procs \in Seq(HostProcess) /\ Len(procs) = 1 /\ procs[1].born = 0
  BY <1>2
<1>4. \A x \in 1 .. Len(procs) : x = 1
  BY <1>3
<1>5. Family(procs)
  BY <1>3, <1>4 DEF Family
<1>6. Base(procs, NoKill) /\ Tracked(procs, NoKill)
  BY <1>5, TreeIdle, TreeLines
<1>7. DOMAIN kcall = KillCallers /\ \A c \in KillCallers : kcall[c] = NoKill
  BY DEF KillInit
<1>8. QED BY <1>5, <1>6, <1>7 DEF TreeInv

LEMMA TreeCrash ==
  ASSUME TreeInv, UNCHANGED <<platform, procs>>, kcall' = [c \in KillCallers |-> NoKill]
  PROVE  TreeInv'
<1>1. Family(procs)
  BY DEF TreeInv
<1>2. Base(procs, NoKill) /\ Tracked(procs, NoKill)
  BY <1>1, TreeIdle, TreeLines
<1>3. DOMAIN kcall' = KillCallers /\ \A c \in KillCallers : kcall'[c] = NoKill
  OBVIOUS
<1>4. QED BY <1>1, <1>2, <1>3 DEF TreeInv

LEMMA TreeStutter == ASSUME TreeInv, UNCHANGED <<platform, procs, kcall>> PROVE TreeInv'
BY DEF TreeInv

LEMMA TreeProcess ==
  ASSUME TreeInv, UNCHANGED platform, ProcessStep PROVE TreeInv'
<1>1. PICK x \in DOMAIN procs : Fork(x) \/ Exit(x)
  BY DEF ProcessStep
<1>2. CASE Fork(x)
  BY <1>2, TreeFork
<1>3. CASE Exit(x)
  BY <1>3, TreeExit
<1>4. QED BY <1>1, <1>2, <1>3

LEMMA TreeStep ==
  ASSUME TreeInv, UNCHANGED platform, NEW c \in KillCallers, KillStep(c) \/ Signal(c) PROVE TreeInv'
<1>1. CASE ListChildren(c)
  BY <1>1, TreeList
<1>2. CASE Descend(c)
  BY <1>2, TreeDescend
<1>3. CASE Signal(c)
  BY <1>3, TreeSignal
<1>4. QED BY <1>1, <1>2, <1>3 DEF KillStep

LEMMA TreeInvOK == TreeInv => KillTypeOK /\ SurvivorsEscaped
<1> SUFFICES ASSUME TreeInv PROVE KillTypeOK /\ SurvivorsEscaped
  OBVIOUS
<1>1. Family(procs) /\ DOMAIN procs = 1 .. Len(procs)
  BY FamilyFacts DEF TreeInv
<1>2. KillTypeOK
  <2>1. \A x, y \in DOMAIN procs : procs[x].alive /\ procs[y].alive /\ procs[x].pid = procs[y].pid => x = y
    BY <1>1 DEF Family
  <2>2. ASSUME NEW c \in KillCallers
        PROVE  kcall[c].root \in 0 .. Len(procs) /\ kcall[c].listed \cup kcall[c].excused \subseteq DOMAIN procs
    <3> DEFINE k == kcall[c]
    <3>1. Base(procs, k)
      BY DEF TreeInv
    <3> HIDE DEF k
    <3>2. k.root \in 0 .. Len(procs) /\ k.listed \subseteq 1 .. Len(procs) /\ k.excused \subseteq 1 .. Len(procs)
      BY <1>1, <3>1, CallFacts
    <3>3. QED BY <1>1, <3>2 DEF k
  <2>3. QED BY <2>1, <2>2 DEF KillTypeOK
<1>3. SurvivorsEscaped
  <2>1. ASSUME platform # "windows", NEW c \in KillCallers, ~Killing(c),
               NEW x \in DOMAIN procs, procs[x].alive, kcall[c].root \in Line(x)
        PROVE  Line(x) \cap kcall[c].excused # {}
    <3>1. Tracked(procs, kcall[c]) /\ kcall[c].stack = <<>>
      BY <2>1 DEF TreeInv, Killing
    <3>2. Escaped(procs, kcall[c])
      BY <3>1 DEF Tracked
    <3>3. QED BY <1>1, <2>1, <3>2 DEF Escaped, Line
  <2>2. QED BY <2>1 DEF SurvivorsEscaped
<1>4. QED BY <1>2, <1>3

(* Nobody but its caller starts or ends a call to KillTree. *)
LEMMA TreeOthers ==
  ASSUME TreeInv, NEW c \in KillCallers,
         (\E pid \in KillPids : BeginKill(c, pid)) \/ KillStep(c) \/ Signal(c), NEW d \in KillCallers \ {c}
  PROVE  kcall'[d].stack = kcall[d].stack
<1>0. DOMAIN kcall = KillCallers
  BY DEF TreeInv
<1>1. CASE \E pid \in KillPids : BeginKill(c, pid)
  BY <1>0, <1>1 DEF BeginKill
<1>2. CASE ListChildren(c)
  <2>1. PICK s : \/ \E l : kcall' = [kcall EXCEPT ![c].stack = s, ![c].listed = l]
                 \/ \E l : kcall' = [kcall EXCEPT ![c].stack = s, ![c].excused = l]
    BY <1>2 DEF ListChildren
  <2>2. kcall'[d] = kcall[d]
    BY <1>0, <2>1
  <2>3. QED BY <2>2
<1>3. CASE Descend(c)
  <2>1. PICK s : kcall' = [kcall EXCEPT ![c].stack = s]
    BY <1>3 DEF Descend
  <2>2. QED BY <1>0, <2>1
<1>4. CASE Signal(c)
  <2>1. ASSUME NEW E, kcall' = [[kcall EXCEPT ![c].excused = E] EXCEPT ![c].stack = SubSeq(@, 1, Depth(c) - 1)]
        PROVE  kcall'[d].stack = kcall[d].stack
    BY <1>0, <2>1
  <2>2. ASSUME NEW x \in Holder(Top(c).pid),
               kcall' = [(IF x \in Top(c).meant THEN [Gone(x) EXCEPT ![c].excused = kcall[c].excused] ELSE Gone(x))
                           EXCEPT ![c].stack = SubSeq(@, 1, Depth(c) - 1)]
        PROVE  kcall'[d].stack = kcall[d].stack
    <3> DEFINE G == Gone(x)
    <3>1. DOMAIN G = KillCallers /\ G[d].stack = kcall[d].stack
      BY DEF Gone
    <3> HIDE DEF G
    <3>2. kcall'[d] = G[d]
      BY <2>2, <3>1 DEF G
    <3>3. QED BY <3>1, <3>2
  <2>3. \/ \E E : kcall' = [[kcall EXCEPT ![c].excused = E] EXCEPT ![c].stack = SubSeq(@, 1, Depth(c) - 1)]
        \/ \E x \in Holder(Top(c).pid) :
             kcall' = [(IF x \in Top(c).meant THEN [Gone(x) EXCEPT ![c].excused = kcall[c].excused] ELSE Gone(x))
                         EXCEPT ![c].stack = SubSeq(@, 1, Depth(c) - 1)]
    BY <1>4 DEF Signal
  <2>4. QED BY <2>1, <2>2, <2>3
<1>5. QED BY <1>1, <1>2, <1>3, <1>4 DEF KillStep

LEMMA TreeReturns ==
  ASSUME TreeInv, NEW c \in KillCallers, NEW ok, KillReturns(c, ok) PROVE ~Killing(c)'
<1>0. DOMAIN kcall = KillCallers /\ Depth(c) = 1
  BY DEF TreeInv, KillReturns
<1>1. \A st : SubSeq(st, 1, 1 - 1) = <<>>
  OBVIOUS
<1>2. ASSUME NEW E, kcall' = [[kcall EXCEPT ![c].excused = E] EXCEPT ![c].stack = SubSeq(@, 1, Depth(c) - 1)]
      PROVE  ~Killing(c)'
  <2> DEFINE t == [kcall EXCEPT ![c].excused = E]
  <2>1. "stack" \in DOMAIN kcall[c]
    BY DEF TreeInv, Base, CallOf
  <2>2. c \in DOMAIN t /\ "stack" \in DOMAIN t[c]
    BY <1>0, <2>1
  <2> HIDE DEF t
  <2>3. kcall'[c].stack = SubSeq(t[c].stack, 1, Depth(c) - 1)
    BY <1>2, <2>2 DEF t
  <2>4. QED BY <1>0, <1>1, <2>3 DEF Killing
<1>3. ASSUME NEW x,
             kcall' = [(IF x \in Top(c).meant THEN [Gone(x) EXCEPT ![c].excused = kcall[c].excused] ELSE Gone(x))
                         EXCEPT ![c].stack = SubSeq(@, 1, Depth(c) - 1)]
      PROVE  ~Killing(c)'
  <2> DEFINE G == Gone(x)  H == IF x \in Top(c).meant THEN [G EXCEPT ![c].excused = kcall[c].excused] ELSE G
  <2>1. DOMAIN G = KillCallers /\ DOMAIN G[c] = DOMAIN kcall[c]
    BY DEF Gone
  <2>2. "stack" \in DOMAIN kcall[c]
    BY DEF TreeInv, Base, CallOf
  <2> HIDE DEF G
  <2>3. c \in DOMAIN H /\ "stack" \in DOMAIN H[c]
    BY <2>1, <2>2
  <2>4. kcall' = [H EXCEPT ![c].stack = SubSeq(@, 1, Depth(c) - 1)]
    BY <1>3 DEF G
  <2> HIDE DEF H
  <2>5. kcall'[c].stack = SubSeq(H[c].stack, 1, Depth(c) - 1)
    BY <2>3, <2>4
  <2>6. QED BY <1>0, <1>1, <2>5 DEF Killing
<1>4. \/ \E E : kcall' = [[kcall EXCEPT ![c].excused = E] EXCEPT ![c].stack = SubSeq(@, 1, Depth(c) - 1)]
      \/ \E x : kcall' = [(IF x \in Top(c).meant THEN [Gone(x) EXCEPT ![c].excused = kcall[c].excused] ELSE Gone(x))
                            EXCEPT ![c].stack = SubSeq(@, 1, Depth(c) - 1)]
  BY DEF KillReturns, Signal
<1>5. QED BY <1>2, <1>3, <1>4

-----------------------------------------------------------------------------
(* A caller is in one engine at a time: that of the first action it has left. *)
Serving ==
  \A c \in Responders :
    /\ ncall[c] # NoNetCall => todo[c] # <<>> /\ Now(c).name \in {"isolate", "restore"}
    /\ Killing(c) => todo[c] # <<>> /\ Now(c).name = "kill"
    /\ ~Idle(c) => todo[c] # <<>> /\ Now(c).name = "quarantine"

Planning == todo \in [Responders -> Seq(Action)]

ResponseInv == NetInv /\ TreeInv /\ QInv /\ Planning /\ Serving

LEMMA ServingOnly ==
  ASSUME ResponseInv, NEW c \in Responders
  PROVE  /\ ncall[c] # NoNetCall => ~Killing(c) /\ Idle(c)
         /\ Killing(c) => ncall[c] = NoNetCall /\ Idle(c)
         /\ ~Idle(c) => ncall[c] = NoNetCall /\ ~Killing(c)
BY DEF ResponseInv, Serving

LEMMA OverPlanning ==
  ASSUME Planning, NEW c \in Responders, todo[c] # <<>>, NEW ok, Over(c, ok)
  PROVE  Planning' /\ \A d \in Responders \ {c} : todo'[d] = todo[d]
<1> DEFINE t == todo[c]
<1>1. t \in Seq(Action) /\ t # <<>>
  BY DEF Planning
<1> HIDE DEF t
<1>2. Tail(t) \in Seq(Action) /\ <<>> \in Seq(Action)
  BY <1>1
<1>3. todo' = [todo EXCEPT ![c] = IF ok THEN Tail(t) ELSE <<>>]
  BY DEF Over, t
<1>4. QED BY <1>2, <1>3 DEF Planning

(* The engine that the caller was in is done, and the others are as they were. *)
LEMMA OverServing ==
  ASSUME ResponseInv, NEW c \in Responders, NEW ok, Over(c, ok), todo[c] # <<>>,
         ncall'[c] = NoNetCall, ~Killing(c)', Idle(c)',
         \A d \in Responders \ {c} : ncall'[d] = ncall[d] /\ (Killing(d)' => Killing(d)) /\ (Idle(d) => Idle(d)')
  PROVE  Planning' /\ Serving'
<1>1. Planning' /\ \A d \in Responders \ {c} : todo'[d] = todo[d]
  BY OverPlanning DEF ResponseInv
<1>2. \A d \in Responders \ {c} : Now(d)' = Now(d)
  BY <1>1 DEF Now
<1>3. QED BY <1>1, <1>2 DEF ResponseInv, Serving

LEMMA KeepServing ==
  ASSUME ResponseInv, UNCHANGED todo,
         \A d \in Responders : /\ ncall'[d] # NoNetCall => ncall[d] # NoNetCall
                               /\ Killing(d)' => Killing(d)
                               /\ Idle(d) => Idle(d)'
  PROVE  Planning' /\ Serving'
BY DEF ResponseInv, Serving, Planning, Now

LEMMA BeginServing ==
  ASSUME ResponseInv, UNCHANGED todo, NEW c \in Responders, ~Busy(c), todo[c] # <<>>,
         ncall'[c] # NoNetCall => Now(c).name \in {"isolate", "restore"},
         Killing(c)' => Now(c).name = "kill",
         ~Idle(c)' => Now(c).name = "quarantine",
         \A d \in Responders \ {c} : /\ ncall'[d] = ncall[d] /\ (Killing(d)' => Killing(d))
                                     /\ (Idle(d) => Idle(d)')
  PROVE  Planning' /\ Serving'
BY DEF ResponseInv, Serving, Planning, Now

-----------------------------------------------------------------------------
LEMMA NowAction ==
  ASSUME Planning, NEW c \in Responders, todo[c] # <<>>
  PROVE  /\ Now(c) \in Action
         /\ Now(c).name = "kill" => Now(c).pid \in KillPids
         /\ Now(c).name = "quarantine" => Now(c).path \in Paths
<1>1. Now(c) \in Action
  <2> DEFINE t == todo[c]
  <2>1. t \in Seq(Action) /\ t # <<>>
    BY DEF Planning
  <2> HIDE DEF t
  <2>2. Head(t) \in Action
    BY <2>1
  <2>3. QED BY <2>2 DEF Now, t
<1>2. QED BY <1>1 DEF Action

(* Somebody asks for a response. *)
LEMMA StepAnswer ==
  ASSUME ResponseInv, NEW c \in Responders, NEW actions \in Seq(Action), Answer(c, actions)
  PROVE  ResponseInv'
<1>1. /\ todo[c] = <<>> /\ todo' = [todo EXCEPT ![c] = actions]
      /\ UNCHANGED platform /\ UNCHANGED <<fw, ncall, mishap>> /\ UNCHANGED <<procs, kcall>> /\ UNCHANGED qVars
  BY DEF Answer, engineVars, netVars, killVars
<1>2. NetInv' /\ TreeInv' /\ QInv'
  BY <1>1, NetStutter, TreeStutter, QStutter DEF ResponseInv
<1>3. Planning' /\ \A d \in Responders \ {c} : todo'[d] = todo[d]
  BY <1>1 DEF ResponseInv, Planning
<1>4. \A d : ncall'[d] = ncall[d] /\ Killing(d)' = Killing(d) /\ Idle(d)' = Idle(d)
  BY <1>1 DEF Killing, Idle, qVars
<1>5. ncall[c] = NoNetCall /\ ~Killing(c) /\ Idle(c)
  BY <1>1 DEF ResponseInv, Serving
<1>6. \A d \in Responders \ {c} : Now(d)' = Now(d)
  BY <1>3 DEF Now
<1>7. Serving'
  BY <1>3, <1>4, <1>5, <1>6 DEF ResponseInv, Serving
<1>8. QED BY <1>2, <1>3, <1>7 DEF ResponseInv

LEMMA StepTrigger == ASSUME ResponseInv, NEW c \in Responders, TriggerResponse(c) PROVE ResponseInv'
<1>1. \A a \in Action : <<a>> \in Seq(Action)
  OBVIOUS
<1>2. <<>> \in Seq(Action)
  OBVIOUS
<1>3. CASE \E pid \in KillPids : Answer(c, <<[name |-> "kill", pid |-> pid]>>)
  <2>1. PICK pid \in KillPids : Answer(c, <<[name |-> "kill", pid |-> pid]>>)
    BY <1>3
  <2>2. [name |-> "kill", pid |-> pid] \in Action
    BY DEF Action
  <2>3. QED BY <1>1, <2>1, <2>2, StepAnswer
<1>4. CASE \E op \in {"isolate", "restore"} : Answer(c, <<[name |-> op]>>)
  <2>1. PICK op \in {"isolate", "restore"} : Answer(c, <<[name |-> op]>>)
    BY <1>4
  <2>2. [name |-> op] \in Action
    BY DEF Action
  <2>3. QED BY <1>1, <2>1, <2>2, StepAnswer
<1>5. CASE \E p \in Paths : Answer(c, <<[name |-> "quarantine", path |-> p]>>)
  <2>1. PICK p \in Paths : Answer(c, <<[name |-> "quarantine", path |-> p]>>)
    BY <1>5
  <2>2. [name |-> "quarantine", path |-> p] \in Action
    BY DEF Action
  <2>3. QED BY <1>1, <2>1, <2>2, StepAnswer
<1>6. CASE Answer(c, <<>>)
  BY <1>2, <1>6, StepAnswer
<1>7. QED BY <1>3, <1>4, <1>5, <1>6 DEF TriggerResponse

LEMMA StepEvaluate ==
  ASSUME ResponseInv, NEW c \in Responders, NEW score, NEW d \in Details, EvaluateAndMitigate(c, score, d)
  PROVE  ResponseInv'
<1>1. Chosen(d)[Len(Configured.actions)] \in Seq(Action) /\ <<>> \in Seq(Action)
  BY ChosenActions
<1>2. CASE Configured.auto /\ score >= Configured.threshold
  <2>1. Answer(c, Chosen(d)[Len(Configured.actions)])
    BY <1>2 DEF EvaluateAndMitigate
  <2>2. QED BY <1>1, <2>1, StepAnswer
<1>3. CASE ~(Configured.auto /\ score >= Configured.threshold)
  <2>1. Answer(c, <<>>)
    BY <1>3 DEF EvaluateAndMitigate
  <2>2. QED BY <1>1, <2>1, StepAnswer
<1>4. QED BY <1>2, <1>3

LEMMA StepIsolating == ASSUME ResponseInv, NEW c \in Responders, Isolating(c) PROVE ResponseInv'
<1>1. /\ UNCHANGED platform /\ UNCHANGED <<procs, kcall>> /\ UNCHANGED qVars /\ c \in NetCallers
      /\ DOMAIN ncall = NetCallers
  BY ResponseAssumption DEF Isolating, killVars, ResponseInv, NetInv, NetTyped
<1>2. TreeInv' /\ QInv'
  BY <1>1, TreeStutter, QStutter DEF ResponseInv
<1>3. \A d : Killing(d)' = Killing(d) /\ Idle(d)' = Idle(d)
  BY <1>1 DEF Killing, Idle, qVars
<1>4. CASE \E op \in Orders : Ready(c, op) /\ BeginNet(c, op) /\ UNCHANGED todo
  <2>1. PICK op \in Orders : Ready(c, op) /\ BeginNet(c, op) /\ UNCHANGED todo
    BY <1>4
  <2>2. NetInv'
    BY <1>1, <2>1, NetBegin DEF ResponseInv
  <2>3. \A d \in Responders \ {c} : ncall'[d] = ncall[d]
    BY <1>1, <2>1, ResponseAssumption DEF BeginNet
  <2>4. ~Busy(c) /\ todo[c] # <<>> /\ Now(c).name \in {"isolate", "restore"} /\ ~Killing(c) /\ Idle(c)
    BY <2>1 DEF Ready, Busy, Orders, Idle
  <2>5. Planning' /\ Serving'
    BY <1>3, <2>1, <2>3, <2>4, BeginServing
  <2>6. QED BY <1>2, <2>2, <2>5 DEF ResponseInv
<1>5. ASSUME NEW ok \in BOOLEAN, NetCommand(c, ok), IF NetEnds(c) THEN Over(c, ok) ELSE UNCHANGED todo
      PROVE  ResponseInv'
  <2>1. NetInv'
    BY <1>1, <1>5, NetStep DEF ResponseInv
  <2>2. ncall[c] # NoNetCall /\ \A d \in Responders \ {c} : ncall'[d] = ncall[d]
    BY <1>1, <1>5, ResponseAssumption DEF NetCommand
  <2>3. CASE NetEnds(c)
    <3>1. ncall'[c] = NoNetCall /\ Over(c, ok)
      BY <1>1, <1>5, <2>3 DEF NetCommand
    <3>2. todo[c] # <<>> /\ ~Killing(c)' /\ Idle(c)'
      BY <1>3, <2>2, ServingOnly DEF ResponseInv, Serving
    <3>3. Planning' /\ Serving'
      BY <1>3, <2>2, <3>1, <3>2, OverServing
    <3>4. QED BY <1>2, <2>1, <3>3 DEF ResponseInv
  <2>4. CASE ~NetEnds(c)
    <3>1. \A d \in Responders : ncall'[d] # NoNetCall => ncall[d] # NoNetCall
      BY <2>2
    <3>2. Planning' /\ Serving'
      BY <1>3, <1>5, <2>4, <3>1, KeepServing
    <3>3. QED BY <1>2, <2>1, <3>2 DEF ResponseInv
  <2>5. QED BY <2>3, <2>4
<1>6. QED BY <1>4, <1>5 DEF Isolating, Orders

LEMMA StepKilling == ASSUME ResponseInv, NEW c \in Responders, KillingTree(c) PROVE ResponseInv'
<1>1. /\ UNCHANGED platform /\ UNCHANGED <<fw, ncall, mishap>> /\ UNCHANGED qVars
      /\ c \in KillCallers /\ KillCallers = Responders
  BY ResponseAssumption DEF KillingTree, netVars
<1>2. NetInv' /\ QInv'
  BY <1>1, NetStutter, QStutter DEF ResponseInv
<1>3. \A d : ncall'[d] = ncall[d] /\ Idle(d)' = Idle(d)
  BY <1>1 DEF Idle, qVars
<1>4. ASSUME (\E pid \in KillPids : BeginKill(c, pid)) \/ KillStep(c) \/ Signal(c)
      PROVE  \A d \in Responders \ {c} : Killing(d)' => Killing(d)
  BY <1>1, <1>4, TreeOthers DEF ResponseInv, Killing
<1>5. CASE Ready(c, "kill") /\ BeginKill(c, Now(c).pid) /\ UNCHANGED todo
  <2>1. ~Busy(c) /\ todo[c] # <<>> /\ Now(c).name = "kill" /\ ncall[c] = NoNetCall /\ Idle(c)
    BY <1>5 DEF Ready, Busy, Idle
  <2>2. Now(c).pid \in KillPids
    BY <2>1, NowAction DEF ResponseInv
  <2>3. TreeInv'
    BY <1>1, <1>5, <2>2, TreeBegin DEF ResponseInv
  <2>4. Planning' /\ Serving'
    BY <1>3, <1>4, <1>5, <2>1, <2>2, BeginServing
  <2>5. QED BY <1>2, <2>3, <2>4 DEF ResponseInv
<1>6. ASSUME NEW ok \in BOOLEAN, KillReturns(c, ok), Over(c, ok) PROVE ResponseInv'
  <2>1. Signal(c) /\ Killing(c) /\ ~Killing(c)'
    BY <1>1, <1>6, TreeReturns DEF KillReturns, Signal, ResponseInv
  <2>2. TreeInv'
    BY <1>1, <2>1, TreeStep DEF ResponseInv
  <2>3. todo[c] # <<>> /\ ncall'[c] = NoNetCall /\ Idle(c)'
    BY <1>3, <2>1, ServingOnly DEF ResponseInv, Serving
  <2>4. Planning' /\ Serving'
    BY <1>3, <1>4, <1>6, <2>1, <2>3, OverServing
  <2>5. QED BY <1>2, <2>2, <2>4 DEF ResponseInv
<1>7. CASE KillStep(c) /\ UNCHANGED todo
  <2>1. TreeInv'
    BY <1>1, <1>7, TreeStep DEF ResponseInv
  <2>2. Killing(c)
    BY <1>7 DEF KillStep, ListChildren, Descend, Signal
  <2>3. \A d \in Responders : Killing(d)' => Killing(d)
    BY <1>4, <1>7, <2>2
  <2>4. Planning' /\ Serving'
    BY <1>3, <1>7, <2>3, KeepServing
  <2>5. QED BY <1>2, <2>1, <2>4 DEF ResponseInv
<1>8. QED BY <1>5, <1>6, <1>7 DEF KillingTree

LEMMA StepQuarantining == ASSUME ResponseInv, NEW c \in Responders, Quarantining(c) PROVE ResponseInv'
<1>1. /\ UNCHANGED platform /\ UNCHANGED <<fw, ncall, mishap>> /\ UNCHANGED <<procs, kcall>>
      /\ c \in QCallers /\ QCallers = Responders /\ QInv /\ DOMAIN qcall = QCallers
  BY ResponseAssumption DEF Quarantining, netVars, killVars, ResponseInv, QInv, QTyped
<1>2. NetInv' /\ TreeInv'
  BY <1>1, NetStutter, TreeStutter DEF ResponseInv
<1>3. \A d : ncall'[d] = ncall[d] /\ Killing(d)' = Killing(d)
  BY <1>1 DEF Killing
<1>4. CASE Ready(c, "quarantine") /\ BeginQuarantine(c, Now(c).path) /\ UNCHANGED todo
  <2>1. ~Busy(c) /\ todo[c] # <<>> /\ Now(c).name = "quarantine" /\ ncall[c] = NoNetCall /\ ~Killing(c)
    BY <1>4 DEF Ready, Busy
  <2>2. Now(c).path \in Paths
    BY <2>1, NowAction DEF ResponseInv
  <2>3. QInv'
    BY <1>1, <1>4, <2>2, QBegin
  <2>4. \A d \in Responders \ {c} : Idle(d) => Idle(d)'
    BY <1>1, <1>4 DEF BeginQuarantine, Idle
  <2>5. Planning' /\ Serving'
    BY <1>3, <1>4, <2>1, <2>4, BeginServing
  <2>6. QED BY <1>2, <2>3, <2>5 DEF ResponseInv
<1>5. CASE Ready(c, "quarantine") /\ Over(c, FALSE) /\ UNCHANGED qVars
  <2>1. QInv' /\ \A d : Idle(d)' = Idle(d)
    BY <1>1, <1>5, QStutter DEF Idle, qVars
  <2>2. todo[c] # <<>> /\ ncall[c] = NoNetCall /\ ~Killing(c) /\ Idle(c)
    BY <1>5 DEF Ready, Busy, Idle
  <2>3. Planning' /\ Serving'
    BY <1>3, <1>5, <2>1, <2>2, OverServing
  <2>4. QED BY <1>2, <2>1, <2>3 DEF ResponseInv
<1>6. ASSUME ~Idle(c) PROVE todo[c] # <<>> /\ ncall'[c] = NoNetCall /\ ~Killing(c)'
  BY <1>3, <1>6, ServingOnly DEF ResponseInv, Serving
<1>7. ASSUME NEW at, Touch(c, at), NEW d \in Responders \ {c} PROVE Idle(d) => Idle(d)'
  <2>1. NoQuarantine.at # "open"
    BY QIdle
  <2>2. QED BY <1>1, <1>7, <2>1 DEF Touch, Idle
<1>8. CASE (OpenVault(c) \/ WriteVault(c)) /\ UNCHANGED todo
  <2>1. QInv' /\ ~Idle(c)
    BY <1>1, <1>8, QVault, QActive DEF OpenVault, WriteVault
  <2>2. \A d \in Responders : Idle(d) => Idle(d)'
    BY <1>7, <1>8, <2>1 DEF OpenVault, WriteVault
  <2>3. Planning' /\ Serving'
    BY <1>3, <1>8, <2>2, KeepServing
  <2>4. QED BY <1>2, <2>1, <2>3 DEF ResponseInv
<1>9. CASE QuarantineFails(c) /\ Over(c, FALSE)
  <2>1. QInv' /\ ~Idle(c) /\ Idle(c)' /\ \A d \in Responders \ {c} : Idle(d) => Idle(d)'
    BY <1>1, <1>9, QFails, QActive DEF QuarantineFails, Idle
  <2>2. Planning' /\ Serving'
    BY <1>3, <1>6, <1>9, <2>1, OverServing
  <2>3. QED BY <1>2, <2>1, <2>2 DEF ResponseInv
<1>10. CASE WriteFails(c) /\ Over(c, FALSE)
  <2>1. QInv' /\ ~Idle(c)
    BY <1>1, <1>10, QVault, QActive DEF WriteFails
  <2>2. Idle(c)' /\ \A d \in Responders \ {c} : Idle(d) => Idle(d)'
    BY <1>1, <1>7, <1>10 DEF WriteFails, Touch, Idle
  <2>3. Planning' /\ Serving'
    BY <1>3, <1>6, <1>10, <2>1, <2>2, OverServing
  <2>4. QED BY <1>2, <2>1, <2>3 DEF ResponseInv
<1>11. CASE RemoveSource(c) /\ Over(c, TRUE)
  <2>1. QInv' /\ ~Idle(c) /\ Idle(c)' /\ \A d \in Responders \ {c} : Idle(d) => Idle(d)'
    BY <1>1, <1>11, QRemove, QActive DEF RemoveSource, Stored, Idle
  <2>2. Planning' /\ Serving'
    BY <1>3, <1>6, <1>11, <2>1, OverServing
  <2>3. QED BY <1>2, <2>1, <2>2 DEF ResponseInv
<1>12. QED BY <1>4, <1>5, <1>8, <1>9, <1>10, <1>11 DEF Quarantining

LEMMA StepCrash == ASSUME ResponseInv, ResponseCrash PROVE ResponseInv'
<1>1. /\ QuarantineCrash /\ UNCHANGED platform /\ UNCHANGED <<fw, mishap>> /\ UNCHANGED procs
      /\ ncall' = [c \in NetCallers |-> NoNetCall] /\ kcall' = [c \in KillCallers |-> NoKill]
      /\ todo' = [c \in Responders |-> <<>>]
  BY ResponseAssumption DEF ResponseCrash
<1>2. NetInv' /\ TreeInv' /\ QInv'
  BY <1>1, NetStutter, TreeCrash, QDies DEF ResponseInv
<1>3. <<>> \in Seq(Action)
  OBVIOUS
<1>4. Planning'
  BY <1>1, <1>3 DEF Planning
<1>5. \A c \in Responders : ncall'[c] = NoNetCall /\ ~Killing(c)' /\ Idle(c)'
  BY <1>1, ResponseAssumption DEF Killing, NoKill, Idle, QuarantineCrash
<1>6. QED BY <1>2, <1>4, <1>5 DEF ResponseInv, Serving

LEMMA StepEnvironment == ASSUME ResponseInv, Environment PROVE ResponseInv'
<1>1. CASE ProcessStep /\ UNCHANGED <<platform, netVars, qVars, todo, responses>>
  <2>1. /\ UNCHANGED platform /\ UNCHANGED <<fw, ncall, mishap>> /\ UNCHANGED qVars /\ UNCHANGED todo
    BY <1>1 DEF netVars
  <2>2. NetInv' /\ QInv' /\ TreeInv'
    BY <1>1, <2>1, NetStutter, QStutter, TreeProcess DEF ResponseInv
  <2>3. ASSUME NEW d \in Responders PROVE Killing(d)' => Killing(d)
    <3>1. PICK x \in DOMAIN procs : Fork(x) \/ Exit(x)
      BY <1>1 DEF ProcessStep
    <3>2. PICK E : kcall'[d] = kcall[d] \/ kcall'[d] = [kcall[d] EXCEPT !.excused = E]
      BY <3>1, ResponseAssumption, Zenon DEF Fork, Exit, Gone
    <3> DEFINE k == kcall[d]
    <3>3. k \in CallOf(Len(procs))
      BY ResponseAssumption DEF ResponseInv, TreeInv, Base
    <3> HIDE DEF k
    <3>4. [k EXCEPT !.excused = E].stack = k.stack
      BY <3>3 DEF CallOf
    <3>5. kcall'[d].stack = k.stack
      BY <3>2, <3>4 DEF k
    <3>6. QED BY <3>5 DEF Killing, k
  <2>4. \A d : ncall'[d] = ncall[d] /\ Idle(d)' = Idle(d)
    BY <2>1 DEF Idle, qVars
  <2>5. Planning' /\ Serving'
    BY <2>1, <2>3, <2>4, KeepServing
  <2>6. QED BY <2>2, <2>5 DEF ResponseInv
<1>2. CASE (\E p \in Paths : WriteSource(p)) /\ UNCHANGED <<platform, netVars, killVars, todo, responses>>
  <2>1. /\ UNCHANGED platform /\ UNCHANGED <<fw, ncall, mishap>> /\ UNCHANGED <<procs, kcall>>
        /\ UNCHANGED todo /\ UNCHANGED qcall
    BY <1>2 DEF netVars, killVars, WriteSource
  <2>2. NetInv' /\ TreeInv' /\ QInv'
    BY <1>2, <2>1, NetStutter, TreeStutter, QSource DEF ResponseInv
  <2>3. \A d : ncall'[d] = ncall[d] /\ Killing(d)' = Killing(d) /\ Idle(d)' = Idle(d)
    BY <2>1 DEF Killing, Idle
  <2>4. Planning' /\ Serving'
    BY <2>1, <2>3, KeepServing
  <2>5. QED BY <2>2, <2>4 DEF ResponseInv
<1>3. QED BY <1>1, <1>2 DEF Environment

LEMMA ResponseInitInv == ResponseInit => ResponseInv
<1> SUFFICES ASSUME ResponseInit PROVE ResponseInv
  OBVIOUS
<1>1. NetInv /\ TreeInv /\ QInv
  BY NetInit, TreeInit, QInitInv DEF ResponseInit
<1>2. <<>> \in Seq(Action)
  OBVIOUS
<1>3. Planning
  BY <1>2 DEF ResponseInit, Planning
<1>4. \A c \in Responders : ncall[c] = NoNetCall /\ ~Killing(c) /\ Idle(c)
  BY ResponseAssumption DEF ResponseInit, IsolationInit, KillInit, QInit, Killing, NoKill, Idle
<1>5. QED BY <1>1, <1>3, <1>4 DEF ResponseInv, Serving

LEMMA ResponseStep == ResponseInv /\ [ResponseNext]_responseVars => ResponseInv'
<1> SUFFICES ASSUME ResponseInv, [ResponseNext]_responseVars PROVE ResponseInv'
  OBVIOUS
<1>1. CASE Environment
  BY <1>1, StepEnvironment
<1>2. CASE ResponseCrash
  BY <1>2, StepCrash
<1>3. ASSUME NEW c \in Responders,
             \/ TriggerResponse(c)
             \/ \E score \in Scores, d \in Details : EvaluateAndMitigate(c, score, d)
             \/ Isolating(c) \/ KillingTree(c) \/ Quarantining(c)
      PROVE  ResponseInv'
  BY <1>3, StepTrigger, StepEvaluate, StepIsolating, StepKilling, StepQuarantining
<1>4. CASE UNCHANGED responseVars
  <2>1. /\ UNCHANGED platform /\ UNCHANGED <<fw, ncall, mishap>> /\ UNCHANGED <<procs, kcall>>
        /\ UNCHANGED qVars /\ UNCHANGED todo
    BY <1>4 DEF responseVars, engineVars, netVars, killVars
  <2>2. NetInv' /\ TreeInv' /\ QInv'
    BY <2>1, NetStutter, TreeStutter, QStutter DEF ResponseInv
  <2>3. \A d : ncall'[d] = ncall[d] /\ Killing(d)' = Killing(d) /\ Idle(d)' = Idle(d)
    BY <2>1 DEF Killing, Idle, qVars
  <2>4. Planning' /\ Serving'
    BY <2>1, <2>3, KeepServing
  <2>5. QED BY <2>2, <2>4 DEF ResponseInv
<1>5. QED BY <1>1, <1>2, <1>3, <1>4 DEF ResponseNext

LEMMA ResponseTyped == ResponseInv => ResponseTypeOK
<1>1. ASSUME ResponseInv PROVE \A c \in Responders : Busy(c) => todo[c] # <<>>
  BY <1>1 DEF ResponseInv, Serving, Busy, Idle
<1>2. ASSUME ResponseInv PROVE IsolationTypeOK /\ KillTypeOK /\ QuarantineTypeOK /\ Planning
  BY <1>2, NetInvOK, TreeInvOK, QInvOK DEF ResponseInv
<1>3. QED BY <1>1, <1>2 DEF ResponseTypeOK, Planning

(* The invariant of the response engines: what every engine keeps, and that a caller of   *)
(* TriggerResponse or EvaluateAndMitigate is in the engine of the first action it has     *)
(* left, and in no other.                                                                 *)
THEOREM ResponseInvariant == ResponseSpec => []ResponseInv
BY ResponseInitInv, ResponseStep, PTL DEF ResponseSpec

(* The firewall, the processes, the files and the vault, and what TriggerResponse and     *)
(* EvaluateAndMitigate have left to do, keep their types.                                 *)
THEOREM ResponseTypeOKAlways == ResponseSpec => []ResponseTypeOK
BY ResponseTyped, ResponseInvariant, PTL

(* Whatever the order in which IsolateHost and RestoreHost run their commands: a Linux    *)
(* host that drops its output lets the agent's port and the loopback through, unless a     *)
(* rule of its own refuses them, an error was ignored or an isolation met a restoration.  *)
THEOREM WhitelistKept == ResponseSpec => []WhitelistUnlessRaced
<1>1. ResponseInv => WhitelistUnlessRaced
  BY NetInvOK DEF ResponseInv
<1>2. QED BY <1>1, ResponseInvariant, PTL

(* However processes fork and exit while KillTree walks their tree: a descendant of its   *)
(* target that outlives it got away at a fork or a death that KillTree could not see, a   *)
(* pgrep that failed, or a signal that was refused or did nothing.                        *)
THEOREM SurvivorsExplained == ResponseSpec => []SurvivorsEscaped
<1>1. ResponseInv => SurvivorsEscaped
  BY TreeInvOK DEF ResponseInv
<1>2. QED BY <1>1, ResponseInvariant, PTL

(* Whichever step of QuarantineFile fails, races or is cut off by a crash: a file that it *)
(* removed is whole in the vault until somebody else writes there, and was not older than *)
(* what it had read.                                                                      *)
THEOREM QuarantineKept == ResponseSpec => []QuarantineKeeps
<1>1. ResponseInv => QuarantineKeeps
  BY DEF ResponseInv, QInv
<1>2. QED BY <1>1, ResponseInvariant, PTL

-----------------------------------------------------------------------------
(* The responses beside the policies and the detection, one of them moving. *)

MCInv == ResponseInv /\ PolicyInv /\ DetectInv

LEMMA MCStep == MCInv /\ [MCNext]_<<part, responseVars, policyVars, detectVars>> => MCInv'
<1> SUFFICES ASSUME MCInv, [MCNext]_<<part, responseVars, policyVars, detectVars>> PROVE MCInv'
  OBVIOUS
<1>1. [ResponseNext]_responseVars /\ [PolicyNext]_policyVars /\ [DetectNext]_detectVars
  BY DEF MCNext, MCResponding
<1>2. QED BY <1>1, ResponseStep, PolicyStep, DetectStep DEF MCInv

(* The state of the responses, the policies and the detection has its type, whichever of *)
(* them moves.                                                                           *)
THEOREM MCTypeOKAlways == MCSpec => []MCTypeOK
<1>1. MCInit => MCInv
  BY ResponseInitInv, PolicyInitOK, DetectInitOK DEF MCInit, MCInv
<1>2. ResponseInv => ResponseTypeOK
  BY ResponseTyped
<1>3. MCInv => MCTypeOK
  BY <1>2, DetectInvOK DEF MCInv, MCTypeOK, PolicyInv
<1>4. QED BY <1>1, MCStep, <1>3, PTL DEF MCSpec
=============================================================================
