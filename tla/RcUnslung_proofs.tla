--------------------------- MODULE RcUnslung_proofs ---------------------------
(* Proofs about RcUnslung, for any scripts, requests and runs.             *)
EXTENDS RcUnslung, RcFunc_proofs, SequenceTheorems

(* sort is given all executable scripts, each once.                        *)
LEMMA SortedAll ==
    ASSUME NEW reverse \in BOOLEAN, NEW list \in Sorted(reverse)
    PROVE  /\ list \in Seq(Services) /\ ToSet(list) = Executable
           /\ \A i, j \in DOMAIN list : i # j => list[i] # list[j]
           /\ \A i, j \in DOMAIN list : i < j =>
                 IF reverse THEN Before(list[j], list[i]) ELSE Before(list[i], list[j])
<1> DEFINE N == Cardinality(Executable)
<1>1. IsFiniteSet(Executable) /\ Executable \subseteq Services
  BY RcUnslungAssumption
<1>2. N \in Nat
  BY <1>1, FS_CardinalityType
<1>3. list \in [1 .. N -> Executable] /\ \A i, j \in 1 .. N : i # j => list[i] # list[j]
  BY DEF Sorted, SetToSeqs
<1>4. IsFiniteSet(1 .. N) /\ Cardinality(1 .. N) = N
  BY <1>2, FS_Interval
<1>5. list \in Injection(1 .. N, Executable)
  BY <1>3 DEF Injection, IsInjective
<1>6. list \in Surjection(1 .. N, Executable)
  BY <1>1, <1>4, <1>5, FS_Injection
<1>7. \A s \in Executable : \E i \in 1 .. N : list[i] = s
  BY <1>6 DEF Surjection
<1> HIDE DEF N
<1>8. list \in Seq(Services) /\ ToSet(list) = Executable
  BY <1>1, <1>2, <1>3, <1>7 DEF ToSet
<1>9. \A i, j \in DOMAIN list : i < j =>
         IF reverse THEN Before(list[j], list[i]) ELSE Before(list[i], list[j])
  BY <1>2, <1>3 DEF Sorted
<1> QED
  BY <1>3, <1>8, <1>9

LEMMA RunSortedAll ==
    ASSUME NEW r, RunUnslung(r)
    PROVE  /\ todo' \in Seq(Services) /\ ToSet(todo') = Executable
           /\ \A i, j \in DOMAIN todo' : i < j =>
                 IF ORDER(r.action) THEN Before(todo'[j], todo'[i])
                 ELSE Before(todo'[i], todo'[j])
<1>1. ORDER(r.action) \in BOOLEAN /\ todo' \in Sorted(ORDER(r.action))
  BY DEF ORDER, RunUnslung
<1>2. \A reverse \in BOOLEAN : \A list \in Sorted(reverse) :
         /\ list \in Seq(Services) /\ ToSet(list) = Executable
         /\ \A i, j \in DOMAIN list : i < j =>
               IF reverse THEN Before(list[j], list[i]) ELSE Before(list[i], list[j])
  BY SortedAll
<1> QED
  BY <1>1, <1>2

LEMMA NameType ==
    ASSUME NEW s \in Services
    PROVE  /\ Digits[s] \in Seq(0 .. 9) /\ Len(Digits[s]) >= 1 /\ Name(s) \in Seq(Int)
           /\ Len(Name(s)) >= Len(Digits[s])
           /\ \A i \in 1 .. Len(Digits[s]) : Name(s)[i] = Digits[s][i]
<1>1. Digits[s] \in Seq(0 .. 9) \ {<<>>} /\ Rest[s] \in Seq(Int)
  BY RcUnslungAssumption
<1>2. Digits[s] \in Seq(Int)
  BY <1>1, SeqMonotonic, 0 .. 9 \subseteq Int
<1> DEFINE d == Digits[s]
           r == Rest[s]
<1>3. d \in Seq(Int) /\ r \in Seq(Int)
  BY <1>1, <1>2
<1>4. Len(d) \in Nat /\ Len(d) >= 1
  BY <1>1, EmptySeq
<1> HIDE DEF d, r
<1>5. /\ d \o r \in Seq(Int) /\ Len(d \o r) >= Len(d)
      /\ \A i \in 1 .. Len(d) : (d \o r)[i] = d[i]
  BY <1>3, ConcatProperties, LenProperties
<1> QED
  BY <1>1, <1>4, <1>5 DEF Name, d, r

LEMMA BeforeStrict ==
    ASSUME NEW s \in Services, NEW t \in Services, Before(s, t), Before(t, s)
    PROVE  FALSE
<1> DEFINE a == Name(s)
           b == Name(t)
<1>1. a \in Seq(Int) /\ b \in Seq(Int)
  BY NameType
<1>2. /\ \/ \E i \in DOMAIN a \intersect DOMAIN b :
               a[i] < b[i] /\ \A j \in 1 .. i - 1 : a[j] = b[j]
         \/ IsStrictPrefix(a, b)
      /\ \/ \E i \in DOMAIN b \intersect DOMAIN a :
               b[i] < a[i] /\ \A j \in 1 .. i - 1 : b[j] = a[j]
         \/ IsStrictPrefix(b, a)
  BY DEF Before
<1> HIDE DEF a, b
<1>3. ASSUME NEW u \in Seq(Int), NEW v \in Seq(Int), IsStrictPrefix(u, v)
      PROVE  Len(u) < Len(v) /\ \A i \in DOMAIN u : u[i] = v[i]
  <2>1. /\ Len(u) <= Len(v) /\ u # v
        /\ SubSeq(u, 1, Len(u)) = SubSeq(v, 1, Len(u))
    BY <1>3 DEF IsStrictPrefix, IsPrefix
  <2>2. Len(u) \in Nat /\ Len(v) \in Nat /\ DOMAIN u = 1 .. Len(u)
    BY LenProperties
  <2>3. \A i \in 1 .. Len(u) : SubSeq(u, 1, Len(u))[i] = u[i]
    BY <2>2
  <2>4. \A i \in 1 .. Len(u) : SubSeq(v, 1, Len(u))[i] = v[i]
    BY <2>1, <2>2
  <2>5. \A i \in 1 .. Len(u) : u[i] = v[i]
    BY <2>1, <2>3, <2>4
  <2>6. Len(u) # Len(v)
    BY <2>1, <2>5, SeqEqual
  <2>7. Len(u) < Len(v)
    BY <2>1, <2>2, <2>6
  <2> QED
    BY <2>2, <2>5, <2>7
<1>4. CASE IsStrictPrefix(a, b) /\ IsStrictPrefix(b, a)
  BY <1>1, <1>3, <1>4
<1>5. CASE IsStrictPrefix(a, b) /\ ~IsStrictPrefix(b, a)
  BY <1>1, <1>2, <1>3, <1>5
<1>6. CASE ~IsStrictPrefix(a, b) /\ IsStrictPrefix(b, a)
  BY <1>1, <1>2, <1>3, <1>6
<1>7. CASE ~IsStrictPrefix(a, b) /\ ~IsStrictPrefix(b, a)
  <2>1. PICK i \in DOMAIN a \intersect DOMAIN b :
           a[i] < b[i] /\ \A j \in 1 .. i - 1 : a[j] = b[j]
    BY <1>2, <1>7
  <2>2. PICK k \in DOMAIN a \intersect DOMAIN b :
           b[k] < a[k] /\ \A j \in 1 .. k - 1 : b[j] = a[j]
    BY <1>2, <1>7
  <2>3. i \in Nat /\ k \in Nat /\ i >= 1 /\ k >= 1
        /\ a[i] \in Int /\ b[i] \in Int /\ a[k] \in Int /\ b[k] \in Int
    <3>1. /\ DOMAIN a = 1 .. Len(a) /\ \A j \in 1 .. Len(a) : a[j] \in Int
          /\ DOMAIN b = 1 .. Len(b) /\ \A j \in 1 .. Len(b) : b[j] \in Int
      BY <1>1
    <3> QED
      BY <3>1
  <2>4. CASE i = k
    BY <2>1, <2>2, <2>3, <2>4
  <2>5. CASE i < k
    BY <2>1, <2>2, <2>3, <2>5
  <2>6. CASE k < i
    BY <2>1, <2>2, <2>3, <2>6
  <2> QED
    BY <2>3, <2>4, <2>5, <2>6
<1> QED
  BY <1>4, <1>5, <1>6, <1>7

(* Numbers of equally many digits sort as strings, whatever the rest of    *)
(* the names is: the sort decides at the highest digit that differs.       *)
LEMMA LowerBefore ==
    ASSUME NEW s \in Services, NEW t \in Services,
           Len(Digits[s]) = Len(Digits[t]), Lower(s, t)
    PROVE  Before(s, t)
<1> DEFINE n == Len(Digits[s])
<1>1. n \in Nat /\ n >= 1
  BY NameType
<1>2. PICK k \in 0 .. n - 1 :
         /\ DigitAt(s, k) < DigitAt(t, k)
         /\ \A m \in k + 1 .. n + n : DigitAt(s, m) = DigitAt(t, m)
  BY DEF Lower
<1>3. \A m \in 0 .. n - 1 : /\ DigitAt(s, m) = Name(s)[n - m]
                            /\ DigitAt(t, m) = Name(t)[n - m]
  <2>1. ASSUME NEW m \in 0 .. n - 1
        PROVE  n - m \in 1 .. n /\ m < n
    BY <1>1
  <2> QED
    BY <2>1, NameType DEF DigitAt
<1>4. n - k \in DOMAIN Name(s) \intersect DOMAIN Name(t)
  BY <1>1, NameType
<1>5. Name(s)[n - k] < Name(t)[n - k]
  BY <1>2, <1>3
<1>6. ASSUME NEW j \in 1 .. (n - k) - 1
      PROVE  Name(s)[j] = Name(t)[j]
  <2>1. n - j \in k + 1 .. n - 1 /\ n - j \in k + 1 .. n + n /\ n - (n - j) = j
    BY <1>1
  <2>2. n - j \in 0 .. n - 1
    BY <1>1
  <2> QED
    BY <1>2, <1>3, <2>1, <2>2
<1> QED
  BY <1>4, <1>5, <1>6 DEF Before

-----------------------------------------------------------------------------
(* What a step of the composition is to rc.func.                           *)
RcFuncStep ==
    \/ \E c \in Callers : Shell(c)
    \/ \E c \in Callers, s \in Services :
          \E r \in Requests \union Runs : Invoke(c, s, r)
    \/ \E p \in Pids : Process(p)
    \/ UNCHANGED vars

LEMMA ToRcFunc == UTypeOK /\ [UNext]_uvars => RcFuncStep
<1> SUFFICES ASSUME UTypeOK, [UNext]_uvars PROVE RcFuncStep
  OBVIOUS
<1>1. Boot \in Callers
  BY RcUnslungAssumption
<1>2. CASE RunScript
  <2>1. Head(todo) \in Services /\ boot \in Runs
    BY <1>2 DEF RunScript, UTypeOK
  <2> QED
    BY <1>1, <1>2, <2>1 DEF RunScript, RcFuncStep
<1>3. CASE UNCHANGED uvars
  BY <1>3 DEF uvars, vars, RcFuncStep
<1> QED
  BY <1>1, <1>2, <1>3
  DEF UNext, RunUnslung, BootShell, EndUnslung, Single, Request, RcFuncStep

LEMMA RcFuncStepType == TypeOK /\ RcFuncStep => TypeOK'
<1> SUFFICES ASSUME TypeOK, RcFuncStep PROVE TypeOK'
  OBVIOUS
<1>1. ASSUME NEW c \in Callers, NEW s \in Services, NEW r \in Requests \union Runs,
             Invoke(c, s, r)
      PROVE  TypeOK'
  <2>1. r.action \in Actions /\ r.who \in STRING
    BY RcFuncAssumption, RcUnslungAssumption
  <2> QED
    BY <1>1, <2>1, InvokeType
<1>2. CASE UNCHANGED vars
  BY <1>2 DEF vars, TypeOK, At
<1> QED
  BY <1>1, <1>2, ShellKeepsType, ProcessMoves DEF RcFuncStep

LEMMA RcFuncStepInv ==
    ASSUME Timely
    PROVE  RcInv /\ Disjoint /\ RcFuncStep => RcInv'
<1> SUFFICES ASSUME RcInv, Disjoint, RcFuncStep PROVE RcInv'
  OBVIOUS
<1>1. ASSUME NEW c \in Callers, NEW s \in Services, NEW r \in Requests \union Runs,
             Invoke(c, s, r)
      PROVE  RcInv'
  <2>1. r.action \in Actions /\ r.who \in STRING
    BY RcFuncAssumption, RcUnslungAssumption
  <2> QED
    BY <1>1, <2>1, InvokeStep
<1> QED
  BY <1>1, ShellStep, ProcessStep, StutterStep DEF RcFuncStep

-----------------------------------------------------------------------------
(* What a step of another shell or of a process is to the run.             *)
Elsewhere ==
    /\ UNCHANGED runner
    /\ boot # Off => sh'[Boot] = sh[Boot]

LEMMA RunSteps ==
    ASSUME UTypeOK, [UNext]_uvars
    PROVE  \/ \E r \in Runs : RunUnslung(r)
           \/ RunScript \/ BootShell \/ EndUnslung \/ Elsewhere
<1>0. TypeOK /\ Boot \in Callers
  BY RcUnslungAssumption DEF UTypeOK
<1>1. ASSUME NEW c \in Callers, Single(c)
      PROVE  Elsewhere
  BY <1>0, <1>1, ShellFrame DEF Single, Elsewhere
<1>2. ASSUME NEW c \in Callers, NEW s \in Services, NEW r \in Requests, Request(c, s, r)
      PROVE  Elsewhere
  BY <1>0, <1>2 DEF Request, Invoke, Elsewhere, TypeOK
<1>3. ASSUME NEW p \in Pids, Process(p), UNCHANGED runner
      PROVE  Elsewhere
  BY <1>0, <1>3, ProcessMoves DEF Elsewhere
<1>4. CASE UNCHANGED uvars
  BY <1>4 DEF uvars, runner, Elsewhere
<1> QED
  BY <1>1, <1>2, <1>3, <1>4 DEF UNext

LEMMA UTypeStep == UTypeOK /\ [UNext]_uvars => UTypeOK'
<1> SUFFICES ASSUME UTypeOK, [UNext]_uvars PROVE UTypeOK'
  OBVIOUS
<1>1. TypeOK'
  BY ToRcFunc, RcFuncStepType DEF UTypeOK
<1>2. CASE \E r \in Runs : RunUnslung(r)
  <2>1. PICK r \in Runs : RunUnslung(r)
    BY <1>2
  <2>2. todo' \in Seq(Services)
    BY <2>1, RunSortedAll
  <2> QED
    BY <1>1, <2>1, <2>2 DEF RunUnslung, UTypeOK
<1>3. CASE RunScript
  <2>1. Head(todo) \in Services /\ Tail(todo) \in Seq(Services) /\ <<>> \in Seq(Services)
    BY <1>3 DEF RunScript, UTypeOK
  <2>2. todo' \in Seq(Services)
    BY <1>3, <2>1 DEF RunScript
  <2> QED
    BY <1>1, <1>3, <2>1, <2>2 DEF RunScript, UTypeOK
<1>4. CASE BootShell
  BY <1>1, <1>4 DEF BootShell, UTypeOK
<1>5. CASE EndUnslung
  BY <1>1, <1>5 DEF EndUnslung, UTypeOK
<1>6. CASE Elsewhere
  BY <1>1, <1>6 DEF Elsewhere, runner, UTypeOK
<1> QED
  BY <1>2, <1>3, <1>4, <1>5, <1>6, RunSteps

LEMMA TailOf ==
    ASSUME NEW S, NEW list \in Seq(S), list # <<>>
    PROVE  /\ ToSet(list) = {Head(list)} \union ToSet(Tail(list))
           /\ Head(list) = list[1] /\ Len(Tail(list)) = Len(list) - 1
           /\ \A i \in DOMAIN Tail(list) :
                 i + 1 \in DOMAIN list /\ Tail(list)[i] = list[i + 1]
<1>1. /\ Head(list) = list[1] /\ Len(Tail(list)) = Len(list) - 1
      /\ Len(list) \in Nat /\ Len(list) >= 1 /\ Tail(list) \in Seq(S)
      /\ \A i \in 1 .. Len(list) - 1 : Tail(list)[i] = list[i + 1]
  OBVIOUS
<1>2. DOMAIN list = 1 .. Len(list) /\ DOMAIN Tail(list) = 1 .. Len(list) - 1
  BY <1>1
<1>3. ASSUME NEW i \in DOMAIN list, i # 1
      PROVE  i - 1 \in DOMAIN Tail(list) /\ Tail(list)[i - 1] = list[i]
  BY <1>1, <1>2, <1>3
<1>4. ToSet(list) \subseteq {Head(list)} \union ToSet(Tail(list))
  <2>1. ASSUME NEW i \in DOMAIN list
        PROVE  list[i] = Head(list) \/ \E j \in DOMAIN Tail(list) : Tail(list)[j] = list[i]
    BY <1>1, <1>3
  <2> QED
    BY <2>1 DEF ToSet
<1>5. 1 \in DOMAIN list /\ \A i \in DOMAIN Tail(list) :
         i + 1 \in DOMAIN list /\ Tail(list)[i] = list[i + 1]
  BY <1>1, <1>2
<1>6. {Head(list)} \union ToSet(Tail(list)) \subseteq ToSet(list)
  BY <1>1, <1>5 DEF ToSet
<1> QED
  BY <1>1, <1>4, <1>5, <1>6

LEMMA CoversStep == UTypeOK /\ RunCovers /\ [UNext]_uvars => RunCovers'
<1> SUFFICES ASSUME UTypeOK, RunCovers, [UNext]_uvars PROVE RunCovers'
  OBVIOUS
<1>0. TypeOK /\ Boot \in Callers
  BY RcUnslungAssumption DEF UTypeOK
<1>1. CASE \E r \in Runs : RunUnslung(r)
  <2>1. PICK r \in Runs : RunUnslung(r)
    BY <1>1
  <2>2. ToSet(todo') = Executable
    BY <2>1, RunSortedAll
  <2> QED
    BY <2>1, <2>2 DEF RunUnslung, RunCovers, vars, At
<1>2. CASE RunScript
  <2>1. /\ boot # Off /\ todo # <<>> /\ todo \in Seq(Services) /\ boot' = boot
        /\ visited' = visited \union {Head(todo)}
        /\ visited \union ToSet(todo) = Executable
    BY <1>2 DEF RunScript, UTypeOK, RunCovers
  <2>2. visited' \union ToSet(Tail(todo)) = Executable /\ Head(todo) \in visited'
    BY <2>1, TailOf
  <2>3. CASE Head(todo) \notin Missing
    <3>1. sh'[Boot].svc = Head(todo) /\ sh'[Boot].action = boot.action
          /\ sh'[Boot].who = boot.who /\ todo' = Tail(todo)
      BY <1>0, <1>2, <2>3 DEF RunScript, Invoke, TypeOK
    <3> QED
      BY <2>1, <2>2, <3>1 DEF RunCovers
  <2>4. CASE Head(todo) \in Missing
    <3>1. sh' = sh /\ At(Boot, "idle")
      BY <1>2, <2>4 DEF RunScript, vars
    <3>2. CASE Head(todo) \in Sourced
      BY <1>2, <2>1, <2>2, <2>4, <3>1, <3>2 DEF RunScript, RunCovers, Aborted, At
    <3>3. CASE Head(todo) \notin Sourced
      BY <1>2, <2>1, <2>2, <2>4, <3>1, <3>3 DEF RunScript, RunCovers, At
    <3> QED
      BY <3>2, <3>3
  <2> QED
    BY <2>3, <2>4
<1>3. CASE BootShell
  <2>1. /\ boot # Off /\ ~At(Boot, "idle") /\ boot' = boot /\ visited' = visited
        /\ visited \union ToSet(todo) = Executable
        /\ sh[Boot].svc \in visited /\ sh[Boot].action = boot.action
        /\ sh[Boot].who = boot.who
    BY <1>0, <1>3, ShellFrame DEF BootShell, RunCovers
  <2>2. \/ At(Boot, "exit") /\ At(Boot, "idle")' /\ sh'[Boot].status = sh[Boot].status
        \/ ~At(Boot, "exit") /\ ~At(Boot, "idle")' /\ sh'[Boot].svc = sh[Boot].svc
           /\ sh'[Boot].action = sh[Boot].action /\ sh'[Boot].who = sh[Boot].who
    BY <1>0, <1>3, ShellFrame
    DEF BootShell, Shell, At, Case, NextProc, StartTest, Spawn, StartWait, Started, Check,
        Stop, StopWait, Stopped, Reconfigure
  <2>3. CASE /\ At(Boot, "exit") /\ sh[Boot].svc \in Sourced
             /\ sh[Boot].action = "?" \/ sh[Boot].status = 2
    BY <1>3, <2>1, <2>2, <2>3 DEF BootShell, RunCovers, Aborted, At
  <2>4. CASE ~(/\ At(Boot, "exit") /\ sh[Boot].svc \in Sourced
               /\ sh[Boot].action = "?" \/ sh[Boot].status = 2)
    <3>1. todo' = todo
      BY <1>3, <2>4 DEF BootShell
    <3> QED
      BY <2>1, <2>2, <3>1 DEF RunCovers, At
  <2> QED
    BY <2>3, <2>4
<1>4. CASE EndUnslung
  BY <1>4 DEF EndUnslung, RunCovers
<1>5. CASE Elsewhere
  BY <1>5 DEF Elsewhere, runner, RunCovers, Aborted, At
<1> QED
  BY <1>1, <1>2, <1>3, <1>4, <1>5, RunSteps

LEMMA SortedStep == UTypeOK /\ RunSorted /\ [UNext]_uvars => RunSorted'
<1> SUFFICES ASSUME UTypeOK, RunSorted, [UNext]_uvars PROVE RunSorted'
  OBVIOUS
<1>0. TypeOK /\ Boot \in Callers
  BY RcUnslungAssumption DEF UTypeOK
<1>1. CASE \E r \in Runs : RunUnslung(r)
  <2>1. PICK r \in Runs : RunUnslung(r)
    BY <1>1
  <2>2. \A i, j \in DOMAIN todo' : i < j =>
           IF ORDER(r.action) THEN Before(todo'[j], todo'[i]) ELSE Before(todo'[i], todo'[j])
    BY <2>1, RunSortedAll
  <2> QED
    BY <2>1, <2>2 DEF RunUnslung, RunSorted, Precedes, vars, At
<1>2. CASE RunScript
  <2>0. todo \in Seq(Services) /\ todo # <<>> /\ boot' = boot /\ boot # Off
    BY <1>2 DEF RunScript, UTypeOK
  <2> SUFFICES /\ \A i, j \in DOMAIN todo' : i < j => Precedes(todo'[i], todo'[j])
               /\ ~At(Boot, "idle")' =>
                     \A i \in DOMAIN todo' : Precedes(sh'[Boot].svc, todo'[i])
    BY <2>0 DEF RunSorted, Precedes
  <2>1. \A i, j \in DOMAIN todo : i < j => Precedes(todo[i], todo[j])
    BY <2>0 DEF RunSorted
  <2>2. /\ \A i, j \in DOMAIN Tail(todo) : i < j => Precedes(Tail(todo)[i], Tail(todo)[j])
        /\ \A i \in DOMAIN Tail(todo) : Precedes(Head(todo), Tail(todo)[i])
    <3>1. DOMAIN Tail(todo) \subseteq Nat \ {0} /\ 1 \in DOMAIN todo
      BY <2>0
    <3>2. /\ Head(todo) = todo[1]
          /\ \A i \in DOMAIN Tail(todo) :
                i + 1 \in DOMAIN todo /\ Tail(todo)[i] = todo[i + 1]
      BY <2>0, TailOf
    <3> QED
      BY <2>1, <3>1, <3>2
  <2>3. CASE Head(todo) \notin Missing
    <3>1. todo' = Tail(todo) /\ sh'[Boot].svc = Head(todo)
      BY <1>0, <1>2, <2>3 DEF RunScript, Invoke, TypeOK
    <3> QED
      BY <2>2, <3>1
  <2>4. CASE Head(todo) \in Missing
    <3>1. At(Boot, "idle")' /\ todo' \in {<<>>, Tail(todo)}
      BY <1>2, <2>4 DEF RunScript, vars, At
    <3>2. DOMAIN <<>> = {}
      OBVIOUS
    <3> QED
      BY <2>2, <3>1, <3>2
  <2> QED
    BY <2>3, <2>4
<1>3. CASE BootShell
  <2>1. boot' = boot /\ boot # Off /\ ~At(Boot, "idle") /\ todo' \in {<<>>, todo}
    BY <1>0, <1>3, ShellFrame DEF BootShell
  <2>2. ~At(Boot, "idle")' => sh'[Boot].svc = sh[Boot].svc
    BY <1>0, <1>3, ShellFrame DEF BootShell
  <2> QED
    BY <2>1, <2>2 DEF RunSorted, Precedes, At
<1>4. CASE EndUnslung
  BY <1>4 DEF EndUnslung, RunSorted
<1>5. CASE Elsewhere
  BY <1>5 DEF Elsewhere, runner, RunSorted, Precedes, At
<1> QED
  BY <1>1, <1>2, <1>3, <1>4, <1>5, RunSteps

-----------------------------------------------------------------------------
(* The variables of the composition keep their types, whatever overlaps.   *)
THEOREM UTypeCorrect == USpec => []UTypeOK
<1>1. UInit => UTypeOK
  <2>1. <<>> \in Seq(Services) /\ {} \subseteq Services /\ FALSE \in BOOLEAN
    OBVIOUS
  <2> QED
    BY <2>1, InitInv DEF UInit, UTypeOK, RcInv
<1> QED
  BY <1>1, UTypeStep, PTL DEF USpec

LEMMA Coverage == USpec => [](UTypeOK /\ RunCovers /\ RunSorted)
<1>1. UInit => RunCovers /\ RunSorted
  BY DEF UInit, RunCovers, RunSorted
<1> QED
  BY <1>1, UTypeCorrect, CoversStep, SortedStep, PTL DEF USpec

(* A run gets to every script, whatever the scripts do and whatever other  *)
(* shells do meanwhile, unless a sourced one exits.                        *)
THEOREM EveryScriptVisited == USpec => RunVisitsAll
<1>1. UTypeOK /\ RunCovers /\ [UNext]_uvars =>
         (boot # Off /\ boot' = Off => visited = Executable \/ Aborted)
  <2> SUFFICES ASSUME UTypeOK, RunCovers, [UNext]_uvars, boot # Off, boot' = Off
               PROVE  visited = Executable \/ Aborted
    OBVIOUS
  <2>1. EndUnslung
    <3>1. boot # Off => ~(\E r \in Runs : RunUnslung(r))
      BY DEF RunUnslung
    <3> QED
      BY <3>1, RunSteps DEF RunScript, BootShell, Elsewhere, runner
  <2>2. visited \union ToSet(<<>>) = Executable \/ Aborted
    BY <2>1 DEF EndUnslung, RunCovers
  <2>3. ToSet(<<>>) = {}
    BY DEF ToSet
  <2> QED
    BY <2>2, <2>3
<1> QED
  BY <1>1, Coverage, PTL DEF RunVisitsAll, USpec

(* A run that is not asked to restart starts the scripts in the order of   *)
(* their numbers, if these have equally many digits, as in all names of    *)
(* the repository; the rest of the names and equal numbers do not matter.  *)
THEOREM NumericalOrder ==
    ASSUME \A r \in Runs : r.action # "restart",
           \A s, t \in Executable : Len(Digits[s]) = Len(Digits[t])
    PROVE  USpec => StartedInOrder
<1>1. UTypeOK /\ RunCovers /\ RunSorted /\ [UNext]_uvars =>
         \A s \in Executable :
            /\ boot # Off /\ ~At(Boot, "start") /\ At(Boot, "start")'
            /\ s # sh[Boot].svc /\ Lower(s, sh[Boot].svc)
            => s \in visited
  <2> SUFFICES ASSUME UTypeOK, RunCovers, RunSorted, [UNext]_uvars,
                      NEW s \in Executable, boot # Off,
                      ~At(Boot, "start"), At(Boot, "start")', s # sh[Boot].svc,
                      Lower(s, sh[Boot].svc), s \notin visited
               PROVE  FALSE
    OBVIOUS
  <2>0. TypeOK /\ Boot \in Callers /\ boot \in Runs /\ boot.action # "restart"
    BY RcUnslungAssumption DEF UTypeOK
  <2>1. Shell(Boot)
    <3>1. sh'[Boot] # sh[Boot]
      BY DEF At
    <3>2. RunScript => At(Boot, "start")' = FALSE
      BY <2>0 DEF RunScript, Invoke, vars, At, TypeOK
    <3> QED
      BY <3>1, <3>2, RunSteps DEF RunUnslung, BootShell, EndUnslung, Elsewhere, vars
  <2>2. ~At(Boot, "idle") /\ sh[Boot].action = boot.action /\ sh[Boot].svc \in visited
    BY <2>0, <2>1, ShellFrame DEF RunCovers
  <2>3. boot.action = "start"
    <3>1. CASE Case(Boot)
      BY <2>0, <2>2, <3>1, ShellMoves, ShellEnds
      DEF Case, Moves, At, Locations, Statuses
    <3>2. CASE Check(Boot) \/ Stopped(Boot)
      BY <2>0, <2>2, <3>2, ShellMoves DEF Check, Stopped, Moves, At, Locations, Statuses
    <3>3. CASE Exit(Boot)
      BY <2>0, <3>3 DEF Exit, Idle, At, TypeOK
    <3>4. CASE NextProc(Boot) \/ StartTest(Boot) \/ Started(Boot) \/ Reconfigure(Boot)
      BY <2>0, <2>2, <3>4, ShellMoves, ShellTurns
      DEF NextProc, StartTest, Started, Reconfigure, Refused, Moves, At, Locations, Statuses
    <3>5. CASE Spawn(Boot)
      <4>1. CASE Wait(Boot, "startwait")
        BY <2>0, <2>2, <4>1, ShellMoves DEF Moves, At, Locations
      <4>2. CASE sh' = [sh EXCEPT ![Boot].pc = "exit", ![Boot].status = 2]
        <5>1. 2 \in Statuses
          BY DEF Statuses
        <5>2. sh'[Boot].pc = "exit"
          BY <2>0, <2>2, <4>2, <5>1, ShellEnds DEF Moves
        <5> QED
          BY <5>2 DEF At
      <4> QED
        BY <3>5, <4>1, <4>2 DEF Spawn
    <3>7. CASE Stop(Boot)
      BY <2>0, <2>2, <3>7, ShellMoves DEF Stop, Moves, At, Locations
    <3>6. CASE StartWait(Boot) \/ StopWait(Boot)
      BY <2>0, <2>2, <3>6, ShellMoves DEF StartWait, StopWait, SleepOne, Moves, At, Locations
    <3> QED
      BY <2>1, <3>1, <3>2, <3>3, <3>4, <3>5, <3>6, <3>7 DEF Shell
  <2>4. /\ ~ORDER(boot.action)
        /\ \A i \in DOMAIN todo : Before(sh[Boot].svc, todo[i])
    BY <2>2, <2>3 DEF RunSorted, Precedes, ORDER
  <2>5. visited \union ToSet(todo) = Executable
    BY <2>2 DEF RunCovers
  <2>6. Before(sh[Boot].svc, s) /\ s \in Services /\ sh[Boot].svc \in Executable
    BY <2>2, <2>4, <2>5, RcUnslungAssumption DEF ToSet
  <2>7. Before(s, sh[Boot].svc) /\ sh[Boot].svc \in Services
    BY <2>6, LowerBefore, RcUnslungAssumption
  <2> QED
    BY <2>6, <2>7, BeforeStrict
<1> QED
  BY <1>1, Coverage, PTL DEF StartedInOrder, USpec

-----------------------------------------------------------------------------
(* Scripts that overlap only for different daemons, which come up and go   *)
(* down in time: rc.unslung keeps what single scripts keep, also while     *)
(* other shells run scripts.                                               *)
THEOREM UInvariance ==
    ASSUME Timely
    PROVE  USpec /\ []Disjoint => []UnslungInv
<1>1. UInit => RcInv
  BY InitInv DEF UInit
<1>2. RcInv /\ UTypeOK /\ Disjoint /\ [UNext]_uvars => RcInv'
  BY ToRcFunc, RcFuncStepInv
<1> QED
  BY <1>1, <1>2, Coverage, PTL DEF USpec, UnslungInv

(* No sequence of runs and scripts leads to two processes of a daemon.     *)
THEOREM UOneInstance ==
    ASSUME Timely
    PROVE  USpec /\ []Disjoint => []AtMostOneInstance
<1>1. UnslungInv => AtMostOneInstance
  BY InvOneInstance DEF UnslungInv
<1> QED
  BY <1>1, UInvariance, PTL

(* What the exit statuses of stop, kill and restart promise holds, too,    *)
(* for the scripts that rc.unslung runs.                                   *)
THEOREM UExits ==
    ASSUME Timely
    PROVE  USpec /\ []Disjoint => StopLeavesNone /\ RestartReplaces /\ RefusedRestartStops
<1>1. UnslungInv =>
         /\ \A c \in Callers :
               Ends(c, {"stop", "kill"}, {0}) => LastOf(sh[c].svc) = {}
         /\ \A c \in Callers :
               Ends(c, {"restart"}, {0}) => old[c] \intersect ProcessesOf(sh[c].svc) = {}
         /\ \A c \in Callers :
               Ends(c, {"restart"}, {7, 8}) => ProcessesOf(sh[c].svc) = {}
  BY InvExits DEF UnslungInv, Ends
<1> QED
  BY <1>1, UInvariance, PTL DEF StopLeavesNone, RestartReplaces, RefusedRestartStops

-----------------------------------------------------------------------------
(* When the services can keep their order at all: one shell, launches and  *)
(* shutdowns in time, every script enabled and with its binary, names of   *)
(* processes that tell the services apart, room for a process of each, and *)
(* numbers of equally many digits.                                         *)
AllEnabled == /\ Executable = Services /\ Enabled = Services /\ Missing = {}
              /\ \A r \in Runs : r.who # "cron"
OwnNames   == \A s, t \in Services : s # t =>
                 \A i \in DOMAIN Procs[s], j \in DOMAIN Procs[t] : Procs[s][i] # Procs[t][j]
EnoughPids == IsFiniteSet(Names) /\ Cardinality(Names) <= Cardinality(Pids)
EqualDigits == \A s, t \in Services : Len(Digits[s]) = Len(Digits[t])
Setting == OneCaller /\ Timely /\ AllEnabled /\ OwnNames /\ EnoughPids /\ EqualDigits

LEMMA SameProc ==
    ASSUME proc' = proc
    PROVE  /\ Ordered' = Ordered
           /\ \A n : /\ Visible(n)' = Visible(n) /\ Processes(n)' = Processes(n)
                     /\ pidof(n)' = pidof(n)
           /\ \A s : ProcessesOf(s)' = ProcessesOf(s) /\ AllUp(s)' = AllUp(s)
<1>1. \A n : /\ Visible(n)' = Visible(n) /\ Processes(n)' = Processes(n)
             /\ pidof(n)' = pidof(n)
  BY DEF Processes, Visible, Unborn, pidof
<1>2. \A s : ProcessesOf(s)' = ProcessesOf(s) /\ AllUp(s)' = AllUp(s)
  BY <1>1 DEF ProcessesOf, AllUp
<1>3. Ordered' = Ordered
  BY <1>1, <1>2 DEF Ordered
<1> QED
  BY <1>1, <1>2, <1>3

(* A slot is free for the process that a name lacks.                       *)
LEMMA SlotFree ==
    ASSUME TypeOK, OneEach, EnoughPids, NEW n \in Names, Processes(n) = {}
    PROVE  \E p \in Pids : proc[p] = Free
<1> SUFFICES ASSUME \A p \in Pids : proc[p] # Free PROVE FALSE
  OBVIOUS
<1> DEFINE f == [p \in Pids |-> proc[p].name]
<1>1. ASSUME NEW p \in Pids
      PROVE  proc[p].name \in Names \ {n}
  <2>1. proc[p].state \in {"forked", "up", "dying"} /\ proc[p].name \in Names
    BY DEF TypeOK
  <2> QED
    BY <2>1 DEF Processes, Visible, Unborn
<1>2. f \in Injection(Pids, Names \ {n})
  BY <1>1 DEF Injection, IsInjective, OneEach
<1>3. IsFiniteSet(Names \ {n}) /\ Cardinality(Names \ {n}) = Cardinality(Names) - 1
  BY FS_RemoveElement DEF EnoughPids
<1>4. Cardinality(Pids) <= Cardinality(Names) - 1
  BY <1>2, <1>3, FS_Injection
<1>5. Cardinality(Pids) \in Nat /\ Cardinality(Names) \in Nat
  BY RcFuncAssumption, FS_CardinalityType DEF EnoughPids
<1> QED
  BY <1>4, <1>5 DEF EnoughPids

LEMMA AloneSteps ==
    ASSUME OneCaller, UTypeOK, boot # Off, [UNext]_uvars
    PROVE  \/ RunScript \/ BootShell \/ EndUnslung
           \/ \E p \in Pids : Process(p) /\ UNCHANGED runner
           \/ UNCHANGED uvars
<1>1. \A c \in Callers : c = Boot
  BY RcUnslungAssumption DEF OneCaller
<1> QED
  BY <1>1 DEF UNext, RunUnslung, Single, Request

(* What a run of the whole system knows of its shell.                      *)
LEMMA BootBusy ==
    ASSUME Setting, UnslungInv, boot # Off, ~At(Boot, "idle")
    PROVE  /\ sh[Boot] \in Busy /\ sh[Boot].action = boot.action
           /\ Refused(Boot) = 0 /\ sh[Boot].svc \in visited /\ PROC(Boot) \in Names
           /\ sh[Boot].idx \in Nat /\ Len(Procs[sh[Boot].svc]) \in Nat
           /\ sh[Boot].idx \in 1 .. Len(Procs[sh[Boot].svc])
           /\ DOMAIN Procs[sh[Boot].svc] = 1 .. Len(Procs[sh[Boot].svc])
           /\ \A s \in Services : s \in visited \/ Precedes(sh[Boot].svc, s)
<1>1. /\ TypeOK /\ Boot \in Callers /\ UTypeOK /\ boot \in Runs
  BY RcUnslungAssumption DEF UnslungInv, UTypeOK
<1>2. /\ sh[Boot] \in Busy /\ sh[Boot].idx \in DOMAIN Procs[sh[Boot].svc]
      /\ PROC(Boot) \in Names
  BY <1>1, BusyShell
<1>3. /\ sh[Boot].svc \in visited /\ sh[Boot].action = boot.action
      /\ sh[Boot].who = boot.who /\ visited \union ToSet(todo) = Executable
  BY DEF UnslungInv, RunCovers
<1>4. \A i \in DOMAIN todo : Precedes(sh[Boot].svc, todo[i])
  BY DEF UnslungInv, RunSorted
<1>5. \A s \in Services : s \in visited \/ Precedes(sh[Boot].svc, s)
  BY <1>3, <1>4 DEF Setting, AllEnabled, ToSet
<1>6. sh[Boot].svc \in Services /\ Procs[sh[Boot].svc] \in Seq(STRING)
  BY <1>2, RcFuncAssumption DEF Busy
<1>7. Refused(Boot) = 0
  BY <1>1, <1>3, <1>6 DEF Refused, Setting, AllEnabled
<1> QED
  BY <1>2, <1>3, <1>5, <1>6, <1>7 DEF Busy

(* A step of the shell of a run of start that leaves the processes alone.  *)
LEMMA StartQuiet ==
    ASSUME StartInv, Ordered, ~At(Boot, "idle"),
           proc' = proc, visited' = visited, NEW loc, NEW idx, NEW counter, NEW st,
           Moves(Boot, loc, idx, counter, st),
           loc \in {"case", "start", "spawn", "startwait", "started", "next", "exit"},
           loc = "startwait" => At(Boot, "startwait") /\ idx = sh[Boot].idx,
           \A i \in DOMAIN Procs[sh[Boot].svc] :
              i < idx \/ (i = idx /\ loc \in {"started", "next", "exit"}) =>
                 \/ Passed(i, {"started", "next", "exit"})
                 \/ pidof(Procs[sh[Boot].svc][i]),
           loc = "exit" => idx = Len(Procs[sh[Boot].svc])
    PROVE  StartInv' /\ Ordered'
<1>1. Ordered' /\ \A n : pidof(n)' = pidof(n) /\ Processes(n)' = Processes(n)
  BY SameProc
<1>2. \A s : AllUp(s)' = AllUp(s)
  BY SameProc
<1>3. /\ sh'[Boot].pc = loc /\ sh'[Boot].idx = idx /\ sh'[Boot].svc = sh[Boot].svc
      /\ loc # "idle"
  BY DEF Moves
<1>4. \A i \in DOMAIN Procs[sh[Boot].svc] :
         Passed(i, {"started", "next", "exit"})' => pidof(Procs[sh[Boot].svc][i])
  BY <1>3 DEF StartInv, Passed
<1>5. At(Boot, "startwait")' => Processes(PROC(Boot))' # {}
  BY <1>1, <1>3 DEF StartInv, At, PROC, Processes, Visible, Unborn
<1>6. \A s \in visited : AllUp(s) \/ s = sh[Boot].svc
  BY DEF StartInv
<1>7. \A i \in DOMAIN Procs[sh[Boot].svc] :
         Passed(i, {"started", "next", "exit"})' => pidof(Procs[sh[Boot].svc][i])'
  BY <1>3, <1>4 DEF pidof, Visible
<1>8. \A s \in visited' : AllUp(s)' \/ (~At(Boot, "idle")' /\ s = sh'[Boot].svc)
  BY <1>2, <1>3, <1>6 DEF At
<1> QED
  BY <1>1, <1>3, <1>5, <1>7, <1>8 DEF StartInv, At, pidof, Visible

LEMMA StartShell ==
    ASSUME Setting, UnslungInv, InOrder("start"), StartInv, Ordered, BootShell
    PROVE  StartInv' /\ Ordered'
<1>0. /\ TypeOK /\ Boot \in Callers /\ boot # Off /\ Shell(Boot) /\ visited' = visited
      /\ ~At(Boot, "idle")
  BY ShellFrame, RcUnslungAssumption DEF UnslungInv, UTypeOK, BootShell
<1>b. /\ sh[Boot] \in Busy /\ sh[Boot].action = "start" /\ Refused(Boot) = 0
      /\ sh[Boot].svc \in visited /\ PROC(Boot) \in Names
      /\ sh[Boot].idx \in Nat /\ Len(Procs[sh[Boot].svc]) \in Nat
      /\ sh[Boot].idx \in 1 .. Len(Procs[sh[Boot].svc])
      /\ DOMAIN Procs[sh[Boot].svc] = 1 .. Len(Procs[sh[Boot].svc])
  BY <1>0, BootBusy DEF InOrder
<1>f. \A p \in Pids : proc[p].state = "forked" =>
         At(Boot, "startwait") /\ sh[Boot].counter <= LIMIT
  <2>1. \A c \in Callers : c = Boot
    BY <1>0 DEF Setting, OneCaller
  <2> QED
    BY <2>1 DEF UnslungInv, RcInv, LaunchesAwaited, Awaits
<1>p. sh[Boot].pc \in {"case", "start", "spawn", "startwait", "started", "next", "exit"}
  BY <1>0 DEF StartInv
<1>1. CASE Case(Boot)
  <2>1. proc' = proc /\ At(Boot, "case") /\ Goto(Boot, "start")
    BY <1>b, <1>1 DEF Case, ProcsSame
  <2>2. Moves(Boot, "start", sh[Boot].idx, sh[Boot].counter, sh[Boot].status)
    BY <1>0, <2>1, ShellMoves DEF Locations
  <2> QED
    BY <1>0, <1>b, <2>1, <2>2, StartQuiet DEF Passed
<1>2. CASE NextProc(Boot)
  <2>1. proc' = proc /\ At(Boot, "next")
    BY <1>2 DEF NextProc, ProcsSame
  <2>2. CASE sh[Boot].idx < Len(Procs[sh[Boot].svc])
    <3>1. Moves(Boot, "case", sh[Boot].idx + 1, sh[Boot].counter, sh[Boot].status)
      BY <1>0, <1>2, <2>2, ShellTurns DEF NextProc
    <3> QED
      BY <1>0, <1>b, <2>1, <3>1, StartQuiet DEF Passed, At
  <2>3. CASE sh[Boot].idx = Len(Procs[sh[Boot].svc])
    <3>1. Moves(Boot, "exit", sh[Boot].idx, sh[Boot].counter, sh[Boot].status)
      BY <1>0, <1>2, <1>b, <2>3, ShellMoves DEF NextProc, Locations
    <3> QED
      BY <1>0, <1>b, <2>1, <2>3, <3>1, StartQuiet DEF Passed, At
  <2> QED
    BY <1>b, <2>2, <2>3
<1>3. CASE StartTest(Boot)
  <2>1. proc' = proc /\ At(Boot, "start")
        /\ \/ pidof(PROC(Boot)) /\ Return(Boot, 0)
           \/ Goto(Boot, "spawn")
    BY <1>b, <1>3 DEF StartTest, ProcsSame
  <2>2. CASE pidof(PROC(Boot)) /\ Return(Boot, 0)
    <3>1. Moves(Boot, "next", sh[Boot].idx, sh[Boot].counter, 0)
      BY <1>0, <2>2, ShellMoves DEF Statuses
    <3> QED
      BY <1>0, <1>b, <2>1, <2>2, <3>1, StartQuiet DEF Passed, PROC
  <2>3. CASE Goto(Boot, "spawn")
    <3>1. Moves(Boot, "spawn", sh[Boot].idx, sh[Boot].counter, sh[Boot].status)
      BY <1>0, <2>3, ShellMoves DEF Locations
    <3> QED
      BY <1>0, <1>b, <2>1, <3>1, StartQuiet DEF Passed
  <2> QED
    BY <2>1, <2>2, <2>3
<1>4. CASE StartWait(Boot)
  <2>1. proc' = proc /\ At(Boot, "startwait") /\ sh[Boot].counter \in Nat /\ LIMIT \in Nat
    BY <1>b, <1>4, RcFuncAssumption DEF StartWait, ProcsSame, Busy
  <2>2. CASE ~pidof(PROC(Boot)) /\ sh[Boot].counter <= LIMIT
    <3>1. Moves(Boot, "startwait", sh[Boot].idx, sh[Boot].counter + 1, sh[Boot].status)
      BY <1>0, <1>4, <2>1, <2>2, ShellMoves DEF StartWait, At
    <3> QED
      BY <1>0, <1>b, <2>1, <3>1, StartQuiet DEF Passed
  <2>3. CASE ~(~pidof(PROC(Boot)) /\ sh[Boot].counter <= LIMIT)
    <3>1. Moves(Boot, "started", sh[Boot].idx, sh[Boot].counter, sh[Boot].status)
      BY <1>0, <1>4, <2>3, ShellMoves DEF StartWait, Locations
    <3>2. pidof(PROC(Boot))
      <4>1. Processes(PROC(Boot)) # {}
        BY <1>0, <2>1 DEF StartInv
      <4> QED
        BY <1>f, <2>1, <2>3, <4>1 DEF Processes, Unborn, pidof
    <3> QED
      BY <1>0, <1>b, <2>1, <3>1, <3>2, StartQuiet DEF Passed, PROC
  <2> QED
    BY <2>2, <2>3
<1>5. CASE Started(Boot)
  <2>1. proc' = proc /\ At(Boot, "started") /\ \E st \in Statuses : Return(Boot, st)
    BY <1>5 DEF Started, ProcsSame, Statuses
  <2>2. PICK st : Moves(Boot, "next", sh[Boot].idx, sh[Boot].counter, st)
    BY <1>0, <2>1, ShellMoves
  <2> QED
    BY <1>0, <1>b, <2>1, <2>2, StartQuiet DEF Passed, At
<1>6. CASE Exit(Boot)
  <2>1. proc' = proc /\ At(Boot, "exit") /\ At(Boot, "idle")'
    BY <1>0, <1>6 DEF Exit, ProcsSame, Idle, At, TypeOK
  <2>2. AllUp(sh[Boot].svc)
    BY <1>0, <1>b, <2>1 DEF StartInv, Passed, AllUp, At
  <2>3. \A s \in visited : AllUp(s)'
    BY <2>1, <2>2, SameProc DEF StartInv
  <2> QED
    BY <1>0, <2>1, <2>3, SameProc DEF StartInv
<1>7. CASE Spawn(Boot)
  <2>1. At(Boot, "spawn") /\ Processes(PROC(Boot)) = {} /\ OneEach
    BY <1>0, <1>7 DEF Spawn, UnslungInv, RcInv, ShellInv, SpawnsAlone
  <2>2. \E q \in Pids : proc[q] = Free
    BY <1>0, <1>b, <2>1, SlotFree DEF Setting
  <2>3. PICK p \in Pids :
           /\ proc[p] = Free
           /\ proc' = [proc EXCEPT ![p] = [state |-> "forked", name |-> PROC(Boot)]]
           /\ Wait(Boot, "startwait")
    BY <1>7, <2>2 DEF Spawn
  <2>4. Moves(Boot, "startwait", sh[Boot].idx, 0, sh[Boot].status)
    BY <1>0, <2>3, ShellMoves DEF Locations
  <2>5. /\ proc'[p].state = "forked" /\ proc'[p].name = PROC(Boot)
        /\ \A q \in Pids : q # p => proc'[q] = proc[q]
        /\ proc[p].state = "free"
    BY <1>0, <2>3 DEF TypeOK, Free
  <2>6. /\ \A n : Visible(n)' = Visible(n)
        /\ \A n : n # PROC(Boot) => Processes(n)' = Processes(n)
        /\ Processes(PROC(Boot))' # {}
    <3>1. PROC(Boot)' = PROC(Boot)
      BY <2>4 DEF Moves, PROC
    <3> QED
      BY <2>5, <3>1 DEF Processes, Visible, Unborn
  <2>7. \A n : pidof(n)' = pidof(n)
    BY <2>6 DEF pidof
  <2>8. \A s : AllUp(s)' = AllUp(s)
    BY <2>7 DEF AllUp
  <2>9. StartInv'
    <3>1. \A q \in Pids : proc'[q].state # "dying"
      BY <2>5 DEF StartInv
    <3>2. \A s \in visited' : AllUp(s)' \/ (~At(Boot, "idle")' /\ s = sh'[Boot].svc)
      BY <1>0, <2>4, <2>8 DEF StartInv, Moves, At
    <3>3. \A i \in DOMAIN Procs[sh[Boot].svc] :
             Passed(i, {"started", "next", "exit"})' => pidof(Procs[sh[Boot].svc][i])'
      BY <1>0, <2>4, <2>7 DEF StartInv, Passed, Moves
    <3>4. /\ At(Boot, "startwait")' /\ sh'[Boot].svc = sh[Boot].svc
          /\ PROC(Boot)' = PROC(Boot) /\ sh'[Boot].pc = "startwait"
      BY <2>4 DEF Moves, At, PROC
    <3>5. Processes(PROC(Boot))' # {}
      BY <2>6
    <3> QED
      BY <3>1, <3>2, <3>3, <3>4, <3>5 DEF StartInv, At, pidof, Visible
  <2>10. Ordered'
    <3> SUFFICES ASSUME NEW s \in Services, NEW t \in Services, Lower(s, t),
                        ProcessesOf(t)' # {}
                 PROVE  AllUp(s)
      BY <2>7 DEF Ordered, AllUp
    <3>1. CASE ProcessesOf(t) # {}
      BY <3>1 DEF Ordered, AllUp
    <3>2. CASE ProcessesOf(t) = {}
      <4>1. t = sh[Boot].svc
        <5>1. PICK i \in DOMAIN Procs[t] : Processes(Procs[t][i])' # {}
          BY DEF ProcessesOf, Processes, Visible, Unborn
        <5>2. Processes(Procs[t][i]) = {}
          BY <3>2 DEF ProcessesOf
        <5>3. Procs[t][i] = PROC(Boot)
          BY <2>6, <5>1, <5>2 DEF Processes, Visible, Unborn
        <5> QED
          BY <1>b, <5>3 DEF Setting, OwnNames, PROC, Busy
      <4>2. Before(s, t)
        BY LowerBefore DEF Setting, EqualDigits
      <4>3. s # t /\ ~Before(t, s)
        BY <4>2, BeforeStrict
      <4>4. s \in visited
        BY <1>0, <4>1, <4>3, BootBusy DEF Precedes, ORDER, InOrder
      <4> QED
        BY <4>1, <4>3, <4>4 DEF StartInv
    <3> QED
      BY <3>1, <3>2
  <2> QED
    BY <2>9, <2>10
<1> QED
  BY <1>0, <1>p, <1>1, <1>2, <1>3, <1>4, <1>5, <1>6, <1>7
  DEF Shell, At, Check, Stop, StopWait, Stopped, Reconfigure

(* A script of the list begins, in a run of start or of stop.              *)
LEMMA ScriptBegins ==
    ASSUME Setting, UnslungInv, RunScript
    PROVE  /\ proc' = proc /\ visited' = visited \union {Head(todo)}
           /\ At(Boot, "idle") /\ sh'[Boot].pc = "case" /\ sh'[Boot].idx = 1
           /\ sh'[Boot].svc = Head(todo) /\ crashes' = crashes
           /\ \A i \in DOMAIN Procs[Head(todo)] : i \in Nat /\ i >= 1
<1>1. /\ Head(todo) \in Services /\ Boot \in Callers /\ sh \in [Callers -> ShellStates]
  BY RcUnslungAssumption DEF UnslungInv, UTypeOK, TypeOK, RunScript
<1>2. Invoke(Boot, Head(todo), boot) /\ At(Boot, "idle") /\ visited' = visited \union {Head(todo)}
  BY <1>1 DEF RunScript, Setting, AllEnabled
<1>3. Procs[Head(todo)] \in Seq(STRING)
  BY <1>1, RcFuncAssumption
<1>4. \A i \in DOMAIN Procs[Head(todo)] : i \in Nat /\ i >= 1
  BY <1>3
<1> QED
  BY <1>1, <1>2, <1>4 DEF Invoke, ProcsSame

LEMMA StartScript ==
    ASSUME Setting, UnslungInv, StartInv, Ordered, RunScript
    PROVE  StartInv' /\ Ordered'
<1>1. /\ proc' = proc /\ visited' = visited \union {Head(todo)}
      /\ At(Boot, "idle") /\ sh'[Boot].pc = "case" /\ sh'[Boot].idx = 1
      /\ sh'[Boot].svc = Head(todo)
      /\ \A i \in DOMAIN Procs[Head(todo)] : i \in Nat /\ i >= 1
  BY ScriptBegins
<1>2. \A s \in visited : AllUp(s)'
  BY <1>1, SameProc DEF StartInv
<1>3. \A s \in visited' : AllUp(s)' \/ (~At(Boot, "idle")' /\ s = sh'[Boot].svc)
  BY <1>1, <1>2 DEF At
<1>4. \A i \in DOMAIN Procs[sh'[Boot].svc] : ~Passed(i, {"started", "next", "exit"})'
  BY <1>1 DEF Passed
<1> QED
  BY <1>1, <1>3, <1>4, SameProc DEF StartInv, At

LEMMA StartProcess ==
    ASSUME UnslungInv, StartInv, Ordered, crashes' = crashes, visited' = visited,
           NEW p \in Pids, Process(p)
    PROVE  StartInv' /\ Ordered'
<1>1. Exec(p)
  <2>1. ~Gone(p)
    BY DEF Gone, StartInv
  <2>2. ~Crash(p)
    BY DEF Crash, UnslungInv, RcInv, TypeOK
  <2> QED
    BY <2>1, <2>2 DEF Process
<1>2. /\ sh' = sh /\ proc[p].state = "forked"
      /\ proc'[p].state = "up" /\ proc'[p].name = proc[p].name
      /\ \A q \in Pids : q # p => proc'[q] = proc[q]
  BY <1>1 DEF Exec, UnslungInv, RcInv, TypeOK
<1>3. \A n : pidof(n) => pidof(n)'
  BY <1>2 DEF pidof, Visible
<1>4. \A n : Processes(n)' = Processes(n)
  BY <1>2 DEF Processes, Visible, Unborn
<1>5. \A s : (AllUp(s) => AllUp(s)') /\ ProcessesOf(s)' = ProcessesOf(s)
  BY <1>3, <1>4 DEF AllUp, ProcessesOf
<1>6. Ordered'
  <2>1. \A s, t \in Services :
           Lower(s, t) /\ ProcessesOf(t)' # {} => AllUp(s)'
    BY <1>5 DEF Ordered, AllUp
  <2> QED
    BY <2>1 DEF Ordered, AllUp
<1>7. /\ At(Boot, "startwait") => Processes(PROC(Boot))' # {}
      /\ \A i \in DOMAIN Procs[sh[Boot].svc] :
            pidof(Procs[sh[Boot].svc][i]) => pidof(Procs[sh[Boot].svc][i])'
  <2>1. PROC(Boot)' = PROC(Boot)
    BY <1>2 DEF PROC
  <2>2. ~At(Boot, "idle") => (At(Boot, "startwait") => Processes(PROC(Boot)) # {})
    BY DEF StartInv
  <2> QED
    BY <1>2, <1>3, <1>4, <2>1, <2>2 DEF pidof, Visible, Processes, Unborn, At
<1>8. \A q \in Pids : proc'[q].state # "dying"
  BY <1>2 DEF StartInv
<1>9. \A s \in visited' : AllUp(s)' \/ (~At(Boot, "idle")' /\ s = sh'[Boot].svc)
  BY <1>2, <1>5 DEF StartInv, At
<1> QED
  BY <1>2, <1>6, <1>7, <1>8, <1>9 DEF StartInv, Passed, At

-----------------------------------------------------------------------------
(* The same for a run of stop.                                             *)
LEMMA StopQuiet ==
    ASSUME StopInv, Ordered, ~At(Boot, "idle"),
           proc' = proc, visited' = visited, NEW loc, NEW idx, NEW counter, NEW st,
           Moves(Boot, loc, idx, counter, st),
           loc \in {"case", "check", "stop", "stopwait", "stopped", "next", "exit"},
           \A i \in DOMAIN Procs[sh[Boot].svc] :
              i < idx \/ (i = idx /\ loc \in {"stopped", "next", "exit"}) =>
                 \/ Passed(i, {"stopped", "next", "exit"})
                 \/ Processes(Procs[sh[Boot].svc][i]) = {},
           loc = "exit" => idx = Len(Procs[sh[Boot].svc])
    PROVE  StopInv' /\ Ordered'
<1>1. Ordered' /\ \A s : ProcessesOf(s)' = ProcessesOf(s)
  BY SameProc
<1>3. /\ sh'[Boot].pc = loc /\ sh'[Boot].idx = idx /\ sh'[Boot].svc = sh[Boot].svc
      /\ loc # "idle"
  BY DEF Moves
<1>4. \A i \in DOMAIN Procs[sh[Boot].svc] :
         Passed(i, {"stopped", "next", "exit"})' => Processes(Procs[sh[Boot].svc][i]) = {}
  BY <1>3 DEF StopInv, Passed
<1>5. \A i \in DOMAIN Procs[sh[Boot].svc] :
         Passed(i, {"stopped", "next", "exit"})' => Processes(Procs[sh[Boot].svc][i])' = {}
  BY <1>3, <1>4 DEF Processes, Visible, Unborn
<1>6. \A s \in visited' : ProcessesOf(s)' = {} \/ (~At(Boot, "idle")' /\ s = sh'[Boot].svc)
  BY <1>1, <1>3 DEF StopInv, At
<1>7. \A p \in Pids : proc'[p].state = "dying" =>
         ~At(Boot, "idle")' /\ p \in ProcessesOf(sh[Boot].svc)'
  <2>1. ProcessesOf(sh[Boot].svc)' = ProcessesOf(sh[Boot].svc)
    BY <1>3 DEF ProcessesOf, Processes, Visible, Unborn
  <2> QED
    BY <1>3, <2>1 DEF StopInv, At
<1> QED
  BY <1>1, <1>3, <1>5, <1>6, <1>7 DEF StopInv, At

LEMMA StopShell ==
    ASSUME Setting, UnslungInv, InOrder("stop"), StopInv, Ordered, BootShell
    PROVE  StopInv' /\ Ordered'
<1>0. /\ TypeOK /\ Boot \in Callers /\ boot # Off /\ Shell(Boot) /\ visited' = visited
      /\ ~At(Boot, "idle")
  BY ShellFrame, RcUnslungAssumption DEF UnslungInv, UTypeOK, BootShell
<1>b. /\ sh[Boot] \in Busy /\ sh[Boot].action = "stop"
      /\ sh[Boot].svc \in visited /\ PROC(Boot) \in Names
      /\ sh[Boot].idx \in Nat /\ Len(Procs[sh[Boot].svc]) \in Nat
      /\ sh[Boot].idx \in 1 .. Len(Procs[sh[Boot].svc])
      /\ DOMAIN Procs[sh[Boot].svc] = 1 .. Len(Procs[sh[Boot].svc])
  BY <1>0, BootBusy DEF InOrder
<1>p. sh[Boot].pc \in {"case", "check", "stop", "stopwait", "stopped", "next", "exit"}
  BY <1>0 DEF StopInv
<1>f. \A p \in Pids : proc[p].state # "forked"
  <2>1. \A c \in Callers : c = Boot
    BY <1>0 DEF Setting, OneCaller
  <2> QED
    BY <1>p, <2>1 DEF UnslungInv, RcInv, LaunchesAwaited, Awaits, At
<1>g. \A n : ~pidof(n) => Processes(n) = {}
  BY <1>f DEF pidof, Processes, Unborn
<1>1. CASE Case(Boot)
  <2>1. proc' = proc /\ At(Boot, "case") /\ Goto(Boot, "check")
    BY <1>b, <1>1 DEF Case, ProcsSame
  <2>2. Moves(Boot, "check", sh[Boot].idx, sh[Boot].counter, sh[Boot].status)
    BY <1>0, <2>1, ShellMoves DEF Locations
  <2> QED
    BY <1>0, <1>b, <2>1, <2>2, StopQuiet DEF Passed
<1>2. CASE NextProc(Boot)
  <2>1. proc' = proc /\ At(Boot, "next")
    BY <1>2 DEF NextProc, ProcsSame
  <2>2. CASE sh[Boot].idx < Len(Procs[sh[Boot].svc])
    <3>1. Moves(Boot, "case", sh[Boot].idx + 1, sh[Boot].counter, sh[Boot].status)
      BY <1>0, <1>2, <2>2, ShellTurns DEF NextProc
    <3> QED
      BY <1>0, <1>b, <2>1, <3>1, StopQuiet DEF Passed, At
  <2>3. CASE sh[Boot].idx = Len(Procs[sh[Boot].svc])
    <3>1. Moves(Boot, "exit", sh[Boot].idx, sh[Boot].counter, sh[Boot].status)
      BY <1>0, <1>2, <1>b, <2>3, ShellMoves DEF NextProc, Locations
    <3> QED
      BY <1>0, <1>b, <2>1, <2>3, <3>1, StopQuiet DEF Passed, At
  <2> QED
    BY <1>b, <2>2, <2>3
<1>3. CASE Check(Boot)
  <2>1. proc' = proc /\ At(Boot, "check")
        /\ \/ ~pidof(PROC(Boot)) /\ Return(Boot, 1)
           \/ Goto(Boot, "stop")
    BY <1>b, <1>3 DEF Check, ProcsSame
  <2>2. CASE ~pidof(PROC(Boot)) /\ Return(Boot, 1)
    <3>1. Moves(Boot, "next", sh[Boot].idx, sh[Boot].counter, 1)
      BY <1>0, <2>2, ShellMoves DEF Statuses
    <3> QED
      BY <1>0, <1>b, <1>g, <2>1, <2>2, <3>1, StopQuiet DEF Passed, PROC
  <2>3. CASE Goto(Boot, "stop")
    <3>1. Moves(Boot, "stop", sh[Boot].idx, sh[Boot].counter, sh[Boot].status)
      BY <1>0, <2>3, ShellMoves DEF Locations
    <3> QED
      BY <1>0, <1>b, <2>1, <3>1, StopQuiet DEF Passed
  <2> QED
    BY <2>1, <2>2, <2>3
<1>4. CASE StopWait(Boot)
  <2>1. proc' = proc /\ At(Boot, "stopwait") /\ sh[Boot].counter \in Nat /\ LIMIT \in Nat
    BY <1>b, <1>4, RcFuncAssumption DEF StopWait, ProcsSame, Busy
  <2>2. CASE pidof(PROC(Boot)) /\ sh[Boot].counter <= LIMIT
    <3>1. Moves(Boot, "stopwait", sh[Boot].idx, sh[Boot].counter + 1, sh[Boot].status)
      BY <1>0, <1>4, <2>1, <2>2, ShellMoves DEF StopWait, At
    <3> QED
      BY <1>0, <1>b, <2>1, <3>1, StopQuiet DEF Passed
  <2>3. CASE ~(pidof(PROC(Boot)) /\ sh[Boot].counter <= LIMIT)
    <3>1. Moves(Boot, "stopped", sh[Boot].idx, sh[Boot].counter, sh[Boot].status)
      BY <1>0, <1>4, <2>3, ShellMoves DEF StopWait, Locations
    <3>2. ~pidof(PROC(Boot))
      BY <1>0, <2>1, <2>3 DEF UnslungInv, RcInv, ShellInv, StopsComplete, pidof
    <3> QED
      BY <1>0, <1>b, <1>g, <2>1, <3>1, <3>2, StopQuiet DEF Passed, PROC
  <2> QED
    BY <2>2, <2>3
<1>5. CASE Stopped(Boot)
  <2>1. proc' = proc /\ At(Boot, "stopped") /\ \E st \in Statuses : Return(Boot, st)
    BY <1>b, <1>5 DEF Stopped, ProcsSame, Statuses
  <2>2. PICK st : Moves(Boot, "next", sh[Boot].idx, sh[Boot].counter, st)
    BY <1>0, <2>1, ShellMoves
  <2> QED
    BY <1>0, <1>b, <2>1, <2>2, StopQuiet DEF Passed, At
<1>6. CASE Exit(Boot)
  <2>1. proc' = proc /\ At(Boot, "exit") /\ At(Boot, "idle")'
    BY <1>0, <1>6 DEF Exit, ProcsSame, Idle, At, TypeOK
  <2>2. ProcessesOf(sh[Boot].svc) = {}
    <3>1. sh[Boot].idx = Len(Procs[sh[Boot].svc]) /\ sh[Boot].pc = "exit"
      BY <1>0, <2>1 DEF StopInv, At
    <3>2. \A i \in DOMAIN Procs[sh[Boot].svc] : Passed(i, {"stopped", "next", "exit"})
      BY <1>b, <3>1 DEF Passed
    <3>3. \A i \in DOMAIN Procs[sh[Boot].svc] : Processes(Procs[sh[Boot].svc][i]) = {}
      BY <1>0, <3>2 DEF StopInv
    <3> QED
      BY <3>3 DEF ProcessesOf
  <2>3. \A s \in visited : ProcessesOf(s)' = {}
    BY <2>1, <2>2, SameProc DEF StopInv
  <2>4. \A p \in Pids : proc'[p].state # "dying"
    BY <2>1, <2>2 DEF StopInv
  <2> QED
    BY <1>0, <2>1, <2>3, <2>4, SameProc DEF StopInv
<1>7. CASE Stop(Boot)
  <2>1. At(Boot, "stop") /\ Moves(Boot, "stopwait", sh[Boot].idx, 0, sh[Boot].status)
    BY <1>0, <1>7, <1>b, ShellMoves DEF Stop, Locations
  <2>2. \A p \in Pids :
           /\ proc'[p] # Free <=> proc[p] # Free
           /\ proc[p] # Free => proc'[p].name = proc[p].name
           /\ proc'[p].state = "forked" <=> proc[p].state = "forked"
           /\ proc'[p].state \in {"up", "dying"} <=> proc[p].state \in {"up", "dying"}
           /\ p \notin Visible(PROC(Boot)) => proc'[p] = proc[p]
    <3> DEFINE victims == Visible(PROC(Boot))
    <3>1. \A p \in Pids : p \in victims => proc[p].state \in {"up", "dying"}
      BY DEF Visible
    <3>2. proc' = [p \in Pids |-> IF p \in victims
                                   THEN [proc[p] EXCEPT !.state = "dying"] ELSE proc[p]]
      BY <1>7 DEF Stop
    <3> HIDE DEF victims
    <3>3. \A p \in Pids :
             /\ proc'[p] # Free <=> proc[p] # Free
             /\ proc[p] # Free => proc'[p].name = proc[p].name
             /\ proc'[p].state = "forked" <=> proc[p].state = "forked"
             /\ proc'[p].state \in {"up", "dying"} <=> proc[p].state \in {"up", "dying"}
             /\ p \notin victims => proc'[p] = proc[p]
      BY <1>0, <3>1, <3>2, Signalled
    <3> QED
      BY <3>3 DEF victims
  <2>3. \A n : Visible(n)' = Visible(n) /\ Unborn(n)' = Unborn(n)
    BY <2>2 DEF Visible, Unborn, Free
  <2>4. \A n : pidof(n)' = pidof(n) /\ Processes(n)' = Processes(n)
    BY <2>3 DEF pidof, Processes
  <2>5. \A s : ProcessesOf(s)' = ProcessesOf(s)
    BY <2>4 DEF ProcessesOf
  <2>6. Ordered'
    BY <2>4, <2>5 DEF Ordered
  <2>7. /\ sh'[Boot].pc = "stopwait" /\ sh'[Boot].idx = sh[Boot].idx
        /\ sh'[Boot].svc = sh[Boot].svc
    BY <2>1 DEF Moves
  <2>8. ASSUME NEW p \in Pids, proc'[p].state = "dying"
        PROVE  p \in ProcessesOf(sh[Boot].svc)
    <3>1. CASE p \in Visible(PROC(Boot))
      BY <1>b, <3>1 DEF ProcessesOf, Processes, PROC
    <3>2. CASE p \notin Visible(PROC(Boot))
      BY <2>2, <2>8, <3>2 DEF StopInv
    <3> QED
      BY <3>1, <3>2
  <2>9. \A i \in DOMAIN Procs[sh[Boot].svc] :
           Passed(i, {"stopped", "next", "exit"})' => Processes(Procs[sh[Boot].svc][i])' = {}
    <3>1. \A i \in DOMAIN Procs[sh[Boot].svc] :
             Passed(i, {"stopped", "next", "exit"})' => Processes(Procs[sh[Boot].svc][i]) = {}
      BY <1>0, <2>7 DEF StopInv, Passed
    <3>2. \A i : Processes(Procs[sh[Boot].svc][i])' = Processes(Procs[sh[Boot].svc][i])
      BY <2>4, <2>7 DEF Processes, Visible, Unborn
    <3> QED
      BY <3>1, <3>2
  <2>10. ProcessesOf(sh[Boot].svc)' = ProcessesOf(sh[Boot].svc)
    BY <2>4, <2>7 DEF ProcessesOf, Processes, Visible, Unborn
  <2>11. \A s \in visited' : ProcessesOf(s)' = {} \/ (~At(Boot, "idle")' /\ s = sh'[Boot].svc)
    BY <1>0, <2>5, <2>7 DEF StopInv, At
  <2> QED
    BY <2>6, <2>7, <2>8, <2>9, <2>10, <2>11 DEF StopInv, At
<1> QED
  BY <1>0, <1>p, <1>1, <1>2, <1>3, <1>4, <1>5, <1>6, <1>7
  DEF Shell, At, StartTest, Spawn, StartWait, Started, Reconfigure

LEMMA StopScript ==
    ASSUME Setting, UnslungInv, StopInv, Ordered, RunScript
    PROVE  StopInv' /\ Ordered'
<1>1. /\ proc' = proc /\ visited' = visited \union {Head(todo)}
      /\ At(Boot, "idle") /\ sh'[Boot].pc = "case" /\ sh'[Boot].idx = 1
      /\ sh'[Boot].svc = Head(todo)
      /\ \A i \in DOMAIN Procs[Head(todo)] : i \in Nat /\ i >= 1
  BY ScriptBegins
<1>2. (\A s \in visited : ProcessesOf(s)' = {}) /\ \A p \in Pids : proc'[p].state # "dying"
  BY <1>1, SameProc DEF StopInv
<1>3. \A s \in visited' : ProcessesOf(s)' = {} \/ (~At(Boot, "idle")' /\ s = sh'[Boot].svc)
  BY <1>1, <1>2 DEF At
<1>4. \A i \in DOMAIN Procs[sh'[Boot].svc] : ~Passed(i, {"stopped", "next", "exit"})'
  BY <1>1 DEF Passed
<1> QED
  BY <1>1, <1>2, <1>3, <1>4, SameProc DEF StopInv, At

LEMMA StopProcess ==
    ASSUME Setting, UnslungInv, InOrder("stop"), StopInv, Ordered,
           crashes' = crashes, visited' = visited, NEW p \in Pids, Process(p)
    PROVE  StopInv' /\ Ordered'
<1>0. TypeOK /\ Boot \in Callers /\ boot # Off /\ \A c \in Callers : c = Boot
  BY RcUnslungAssumption DEF UnslungInv, UTypeOK, InOrder, Setting, OneCaller
<1>1. Gone(p)
  <2>1. ~Exec(p)
    BY <1>0 DEF Exec, UnslungInv, RcInv, LaunchesAwaited, Awaits, StopInv, At
  <2>2. ~Crash(p)
    BY DEF Crash, UnslungInv, RcInv, TypeOK
  <2> QED
    BY <2>1, <2>2 DEF Process
<1>2. /\ sh' = sh /\ proc[p].state = "dying" /\ proc'[p] = Free
      /\ \A q \in Pids : q # p => proc'[q] = proc[q]
      /\ ~At(Boot, "idle") /\ p \in ProcessesOf(sh[Boot].svc)
  BY <1>0, <1>1 DEF Gone, TypeOK, StopInv
<1>3. \A n : Processes(n)' = Processes(n) \ {p}
  BY <1>2 DEF Processes, Visible, Unborn, Free
<1>4. \A s : ProcessesOf(s)' = ProcessesOf(s) \ {p}
  BY <1>3 DEF ProcessesOf
<1>5. sh[Boot].svc \in Services
  BY <1>0, <1>2, BootBusy DEF Busy
<1>6. Ordered'
  <2> SUFFICES ASSUME NEW s \in Services, NEW t \in Services, Lower(s, t),
                      ProcessesOf(t)' # {}, NEW i \in DOMAIN Procs[s]
               PROVE  pidof(Procs[s][i])'
    BY DEF Ordered
  <2>1. ProcessesOf(t) # {} /\ pidof(Procs[s][i])
    BY <1>4 DEF Ordered
  <2>2. Before(s, t) /\ ~Before(t, s) /\ s # t
    BY BeforeStrict, LowerBefore DEF Setting, EqualDigits
  <2>3. s # sh[Boot].svc
    <3> SUFFICES ASSUME s = sh[Boot].svc PROVE FALSE
      OBVIOUS
    <3>1. t \in visited
      BY <1>0, <1>2, <2>2, BootBusy DEF Precedes, ORDER, InOrder
    <3> QED
      BY <2>1, <2>2, <3>1 DEF StopInv
  <2>4. proc[p].name # Procs[s][i]
    BY <1>2, <1>5, <2>3 DEF Setting, OwnNames, ProcessesOf, Processes, Visible, Unborn
  <2>5. PICK q \in Pids : proc[q].state \in {"up", "dying"} /\ proc[q].name = Procs[s][i]
    BY <2>1 DEF pidof, Visible
  <2> QED
    BY <1>2, <2>4, <2>5 DEF pidof, Visible
<1>7. \A s \in visited' : ProcessesOf(s)' = {} \/ (~At(Boot, "idle")' /\ s = sh'[Boot].svc)
  BY <1>2, <1>4 DEF StopInv, At
<1>8. \A q \in Pids : proc'[q].state = "dying" =>
         ~At(Boot, "idle")' /\ q \in ProcessesOf(sh[Boot].svc)'
  <2>1. ProcessesOf(sh[Boot].svc)' = ProcessesOf(sh[Boot].svc) \ {p}
    BY <1>2, <1>3 DEF ProcessesOf, Processes, Visible, Unborn, Free
  <2> QED
    BY <1>2, <2>1 DEF StopInv, At, Free
<1>9. \A i \in DOMAIN Procs[sh[Boot].svc] :
         Passed(i, {"stopped", "next", "exit"})' => Processes(Procs[sh[Boot].svc][i])' = {}
  <2>1. \A i \in DOMAIN Procs[sh[Boot].svc] :
           Passed(i, {"stopped", "next", "exit"})' => Processes(Procs[sh[Boot].svc][i]) = {}
    BY <1>2 DEF StopInv, Passed
  <2>2. \A i : Processes(Procs[sh[Boot].svc][i])' = Processes(Procs[sh[Boot].svc][i]) \ {p}
    BY <1>2, <1>3 DEF Processes, Visible, Unborn, Free
  <2> QED
    BY <1>2, <2>1, <2>2
<1> QED
  BY <1>2, <1>6, <1>7, <1>8, <1>9 DEF StopInv, At

-----------------------------------------------------------------------------
(* A run begins with the services in order, and none of them is dying.     *)
LEMMA RunBegins ==
    ASSUME Setting, UnslungInv, NEW r \in Runs, RunUnslung(r), orderly'
    PROVE  StartInv' /\ StopInv' /\ Ordered'
<1>1. /\ sh' = sh /\ proc' = proc /\ visited' = {} /\ At(Boot, "idle")
      /\ Ordered /\ Attended
  BY DEF RunUnslung, vars
<1>2. \A c \in Callers : c = Boot
  BY RcUnslungAssumption DEF Setting, OneCaller
<1>3. \A p \in Pids : proc'[p].state # "dying"
  BY <1>1, <1>2 DEF Attended, At
<1> QED
  BY <1>1, <1>3, SameProc DEF StartInv, StopInv, At

LEMMA OrderStep == Setting /\ OrderInv /\ [UNext]_uvars => OrderInv'
<1> SUFFICES ASSUME Setting, OrderInv, [UNext]_uvars PROVE OrderInv'
  OBVIOUS
<1>0. UnslungInv /\ UTypeOK
  BY DEF OrderInv, UnslungInv
<1>1. UnslungInv'
  BY <1>0, AloneDisjoint, ToRcFunc, RcFuncStepInv, UTypeStep, CoversStep, SortedStep DEF Setting, UnslungInv
<1>2. CASE boot = Off
  <2> SUFFICES ASSUME boot' # Off, orderly'
               PROVE  StartInv' /\ StopInv' /\ Ordered'
    BY <1>1 DEF OrderInv, InOrder
  <2>1. PICK r \in Runs : RunUnslung(r)
    BY <1>0, <1>2, RunSteps DEF RunScript, BootShell, EndUnslung, Elsewhere, runner
  <2> QED
    BY <1>0, <2>1, RunBegins
<1>3. CASE boot # Off
  <2>1. ASSUME NEW action \in {"start", "stop"}, InOrder(action)'
        PROVE  /\ InOrder(action) /\ crashes' = crashes /\ ~EndUnslung
    <3>1. crashes \in Nat /\ crashes' \in {crashes, crashes + 1}
      <4>1. crashes \in Nat
        BY <1>0 DEF UTypeOK, TypeOK
      <4>2. RcFuncStep
        BY <1>0, ToRcFunc
      <4> QED
        BY <4>1, <4>2
        DEF RcFuncStep, vars, Invoke, Process, Exec, Gone, Crash, Shell, ProcsSame, Case,
            NextProc, Exit, StartTest, Spawn, StartWait, Started, Check, Stop, StopWait,
            Stopped, Reconfigure
    <3>2. ~EndUnslung
      BY <2>1 DEF EndUnslung, InOrder
    <3>3. boot' = boot /\ orderly' = orderly
      BY <1>0, <1>3, <3>2, AloneSteps DEF Setting, RunScript, BootShell, runner, uvars
    <3> QED
      BY <2>1, <3>1, <3>2, <3>3 DEF InOrder
  <2>2. ASSUME InOrder("start")'
        PROVE  StartInv' /\ Ordered'
    <3>1. InOrder("start") /\ StartInv /\ Ordered /\ crashes' = crashes /\ ~EndUnslung
      BY <2>1, <2>2 DEF OrderInv
    <3>2. CASE UNCHANGED uvars
      BY <3>1, <3>2, SameProc
      DEF uvars, StartInv, Passed, At, pidof, Processes, Visible, Unborn, PROC
    <3>3. ASSUME NEW p \in Pids, Process(p), UNCHANGED runner
          PROVE  StartInv' /\ Ordered'
      BY <1>0, <3>1, <3>3, StartProcess DEF runner
    <3> QED
      BY <1>0, <1>3, <3>1, <3>2, <3>3, AloneSteps, StartScript, StartShell DEF Setting
  <2>3. ASSUME InOrder("stop")'
        PROVE  StopInv' /\ Ordered'
    <3>1. InOrder("stop") /\ StopInv /\ Ordered /\ crashes' = crashes /\ ~EndUnslung
      BY <2>1, <2>3 DEF OrderInv
    <3>2. CASE UNCHANGED uvars
      BY <3>1, <3>2, SameProc
      DEF uvars, StopInv, Passed, At, ProcessesOf, Processes, Visible, Unborn
    <3>3. ASSUME NEW p \in Pids, Process(p), UNCHANGED runner
          PROVE  StopInv' /\ Ordered'
      BY <1>0, <3>1, <3>3, StopProcess DEF runner
    <3> QED
      BY <1>0, <1>3, <3>1, <3>2, <3>3, AloneSteps, StopScript, StopShell DEF Setting
  <2> QED
    BY <1>1, <2>2, <2>3 DEF OrderInv
<1> QED
  BY <1>2, <1>3

(* Where every script is enabled and has its binary and processes of its   *)
(* own, names sort like numbers, launches and shutdowns are in time and    *)
(* nothing else runs scripts, the run and its services go hand in hand:    *)
(* what start has passed is up, what stop has passed is gone.              *)
THEOREM OrderInvariance ==
    ASSUME Setting
    PROVE  USpec => []OrderInv
<1>1. UInit => OrderInv
  <2> SUFFICES ASSUME UInit PROVE OrderInv
    OBVIOUS
  <2>1. RcInv /\ boot = Off /\ todo = <<>> /\ visited = {} /\ orderly = FALSE
    BY InitInv DEF UInit
  <2>2. <<>> \in Seq(Services)
    OBVIOUS
  <2>3. UTypeOK
    BY <2>1, <2>2 DEF UTypeOK, RcInv
  <2> QED
    BY <2>1, <2>3 DEF OrderInv, UnslungInv, InOrder, RunCovers, RunSorted
<1> QED
  BY <1>1, OrderStep, PTL DEF USpec

(* So a run of rc.unslung start or stop keeps the services themselves in   *)
(* order at every moment, for any number of them and of their processes.   *)
THEOREM OrderKept ==
    ASSUME Setting
    PROVE  USpec => []KeepsOrder
<1>1. OrderInv => KeepsOrder
  BY DEF OrderInv, KeepsOrder, InOrder
<1> QED
  BY <1>1, OrderInvariance, PTL

-----------------------------------------------------------------------------
(* What RunEnds rests on besides fairness, for any list and any order of   *)
(* it: a run ends, or has one script less to run, or its script goes on    *)
(* (see Advances), or the step is not the run's and leaves it where it is. *)
RunAdvances ==
    \/ boot' = Off
    \/ /\ boot' = boot
       /\ \/ Len(todo') < Len(todo)
          \/ todo' = todo /\ (Advances(Boot) \/ sh'[Boot] = sh[Boot])

THEOREM RunsAdvance ==
    USpec => [][boot # Off => /\ RunAdvances
                              /\ RunScript => Len(todo') < Len(todo)
                              /\ BootShell /\ todo' = todo => Advances(Boot)]_uvars
<1>1. UTypeOK /\ [UNext]_uvars =>
         [boot # Off => /\ RunAdvances
                        /\ RunScript => Len(todo') < Len(todo)
                        /\ BootShell /\ todo' = todo => Advances(Boot)]_uvars
  <2> SUFFICES ASSUME UTypeOK, [UNext]_uvars, boot # Off
               PROVE  /\ RunAdvances
                      /\ RunScript => Len(todo') < Len(todo)
                      /\ BootShell /\ todo' = todo => Advances(Boot)
    OBVIOUS
  <2>0. TypeOK /\ todo \in Seq(Services) /\ Boot \in Callers
    BY RcUnslungAssumption DEF UTypeOK
  <2>1. ASSUME RunScript
        PROVE  Len(todo') < Len(todo) /\ boot' = boot
    <3>1. todo # <<>> /\ boot' = boot /\ (todo' = Tail(todo) \/ todo' = <<>>)
      BY <2>1 DEF RunScript
    <3>2. Len(todo) \in Nat \ {0} /\ Len(Tail(todo)) = Len(todo) - 1 /\ Len(<<>>) = 0
      BY <2>0, <3>1
    <3> QED
      BY <3>1, <3>2
  <2>2. ASSUME BootShell
        PROVE  Advances(Boot) /\ boot' = boot /\ (todo' = todo \/ Len(todo') < Len(todo))
    <3>1. Advances(Boot) /\ boot' = boot /\ (todo' = todo \/ todo' = <<>>)
      BY <2>0, <2>2, ShellAdvances DEF BootShell
    <3>2. todo # <<>> => Len(<<>>) < Len(todo)
      BY <2>0
    <3> QED
      BY <3>1, <3>2
  <2>3. ASSUME EndUnslung PROVE RunAdvances
    BY <2>3 DEF EndUnslung, RunAdvances
  <2>4. ASSUME Elsewhere PROVE RunAdvances
    BY <2>4 DEF Elsewhere, runner, RunAdvances
  <2>5. ASSUME NEW r \in Runs, RunUnslung(r) PROVE FALSE
    BY <2>5 DEF RunUnslung
  <2>6. RunAdvances
    BY <2>1, <2>2, <2>3, <2>4, <2>5, RunSteps DEF RunAdvances
  <2> QED
    BY <2>1, <2>2, <2>6
<1> QED
  BY <1>1, UTypeCorrect, PTL DEF USpec

-----------------------------------------------------------------------------
(* The runs of rc.unslung are among what rc.func may be asked by anybody:  *)
(* the composition implements RcFunc, whose shells do not know of a list.  *)
R == INSTANCE RcFunc WITH Requests <- Requests \union Runs

THEOREM ImplementsRcFunc == USpec => R!Spec
<1>1. UInit => R!Init
  <2>1. Names = R!Names
    BY DEF Names, R!Names
  <2>2. \A n : Visible(n) = R!Visible(n)
    BY DEF Visible, R!Visible
  <2>3. \A S : Cardinality(S) = R!Cardinality(S)
    BY DEF Cardinality, R!Cardinality
  <2> QED
    BY <2>1, <2>2, <2>3 DEF UInit, Init, R!Init, Idle, R!Idle, Free, R!Free
<1>2. UTypeOK /\ [UNext]_uvars => [R!Next]_R!vars
  <2> USE DEF At, R!At, Goto, R!Goto, Wait, R!Wait, SleepOne, R!SleepOne, Return, R!Return,
              PROC, R!PROC, ProcsSame, R!ProcsSame, Visible, R!Visible, Unborn, R!Unborn,
              pidof, R!pidof, Refused, R!Refused, Free, R!Free, Idle, R!Idle
  <2>1. ASSUME NEW c \in Callers, Shell(c)
        PROVE  R!Shell(c)
    <3>1. Case(c) => R!Case(c)
      BY DEF Case, R!Case
    <3>2. NextProc(c) => R!NextProc(c)
      BY DEF NextProc, R!NextProc
    <3>3. Exit(c) => R!Exit(c)
      BY DEF Exit, R!Exit
    <3>4. StartTest(c) => R!StartTest(c)
      BY DEF StartTest, R!StartTest
    <3>5. Spawn(c) => R!Spawn(c)
      BY DEF Spawn, R!Spawn
    <3>6. StartWait(c) => R!StartWait(c)
      BY DEF StartWait, R!StartWait
    <3>7. Started(c) => R!Started(c)
      BY DEF Started, R!Started
    <3>8. Check(c) => R!Check(c)
      BY DEF Check, R!Check
    <3>9. Stop(c) => R!Stop(c)
      BY DEF Stop, R!Stop
    <3>10. StopWait(c) => R!StopWait(c)
      BY DEF StopWait, R!StopWait
    <3>11. Stopped(c) => R!Stopped(c)
      BY DEF Stopped, R!Stopped
    <3>12. Reconfigure(c) => R!Reconfigure(c)
      BY DEF Reconfigure, R!Reconfigure
    <3> QED
      BY <2>1, <3>1, <3>2, <3>3, <3>4, <3>5, <3>6, <3>7, <3>8, <3>9, <3>10, <3>11, <3>12
      DEF Shell, R!Shell
  <2>2. ASSUME NEW c \in Callers, NEW s \in Services, NEW r \in Requests \union Runs,
               Invoke(c, s, r)
        PROVE  R!Invoke(c, s, r)
    BY <2>2 DEF Invoke, R!Invoke
  <2>3. ASSUME NEW p \in Pids, Process(p)
        PROVE  R!Process(p)
    BY <2>3 DEF Process, Exec, Gone, Crash, R!Process, R!Exec, R!Gone, R!Crash
  <2> QED
    BY <2>1, <2>2, <2>3, ToRcFunc DEF RcFuncStep, R!Next, vars, R!vars
<1> QED
  BY <1>1, <1>2, UTypeCorrect, PTL DEF USpec, R!Spec
=============================================================================
