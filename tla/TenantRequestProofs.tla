------------------------ MODULE TenantRequestProofs ------------------------
(* Theorems about TenantRequest, for any requests, pool, tenants and route    *)
(* bounds, and about the media reads of MediaAccess, for any assets, targets  *)
(* and orders.                                                                *)
(*                                                                            *)
(* The argument for a request: each step fixes where its transaction stands   *)
(* (Stage), whether it holds a connection (Connected), what its answer may    *)
(* say (Answered) and by which authority it works (Entitled). Another         *)
(* request's step touches one's state only through the two lines (Lines,      *)
(* InLine, Placed), whose effect one lemma states for all (AsideKeeps).       *)
(* The argument for a read: what a step saw is a function of the committed    *)
(* rows, and the locks it took keep the rows it depends on as they were until *)
(* it answers (ReadInv). A walk owes only what lies ahead of its cursor       *)
(* (DueAhead), and a page is the first window of that (WindowIsFirst, from    *)
(* the least element of a set of numbers).                                    *)
EXTENDS TenantRequest, MediaAccess, FiniteSetTheorems, SequenceTheorems,
        WellFoundedInduction, TLAPS

\* The steps before the route handler may run, and a line that names nobody twice.
BeforeRoute == {"new", "waiting", "granted", "reserve", "discover", "validate", "load"}
NoRepeat(s) == \A i, j \in 1..Len(s) : s[i] = s[j] => i = j

\* Where a request stands when it is in a line: of the download limit, or of the pool.
InLine(r) ==
  /\ r \in Elements(waiters) <=> pc[r] = "waiting"
  /\ pc[r] \in {"waiting", "granted"} => kind[r] = "download"
  /\ r \in Elements(queue) =>
       \/ pc[r] = "reserve"
       \/ pc[r] \in {"error", "respond", "done"} /\ kind[r] \in FrontDoor /\ status[r] = "none"

\* What a step says of the transaction: closed before the route, open under the
\* handler, ending or gone after it.
Stage(r) ==
  /\ pc[r] \in BeforeRoute => status[r] \in {"none", "closed"}
  /\ pc[r] \in BeforeRoute /\ kind[r] \in FrontDoor => status[r] = "none"
  /\ pc[r] \in {"handler", "finalize"} => status[r] = "open" /\ started[r]
  /\ pc[r] \in {"endGap", "endReopen", "gap", "reopen"} => started[r] /\ kind[r] \notin FrontDoor
  /\ pc[r] \in {"gap", "reopen"} => status[r] = "closed"
  /\ pc[r] \in {"endGap", "endReopen", "endError"} => status[r] = "rolling"
  /\ pc[r] = "endRespond" => status[r] \in Closing
  /\ pc[r] = "registered" => status[r] # "none"
  /\ pc[r] \in {"respond", "done"} => status[r] # "open"
  /\ status[r] = "committing" => pc[r] = "endRespond"
  /\ attempt[r] # 0 => started[r]
  /\ pc[r] \in {"endGap", "endReopen", "gap", "reopen"} => attempt[r] < 2

\* When a request holds a connection.
Connected(r) ==
  r \in held <=> \/ status[r] \in {"open", "committing", "rolling"}
                 \/ pc[r] \in {"validate", "load"}
                 \/ pc[r] = "discover" /\ kind[r] \in FrontDoor

\* What a request may have written, and what its answer says of it.
Answered(r) ==
  /\ effects[r] = "pending" <=> r \in held
  /\ effects[r] = "durable" =>
       /\ status[r] = "closed"
       /\ \/ pc[r] \in {"respond", "done"} /\ reply[r] \in {"ok", "durable"}
          \/ pc[r] \in {"error", "respond", "done"} /\ reply[r] = "failed"
  /\ reply[r] \in {"ok", "durable"} =>
       \/ pc[r] = "finalize"
       \/ pc[r] = "endRespond" /\ status[r] = "committing"
       \/ pc[r] \in {"respond", "done"} /\ effects[r] = "durable"
  /\ status[r] = "committing" => reply[r] \in {"ok", "durable"}

\* Under whose authority it works.
Entitled(r) ==
  /\ tenant[r] # None /\ header[r] # None => tenant[r] = header[r]
  /\ r \in held => members \subseteq since[r]
  /\ status[r] \in {"open", "committing"} => tenant[r] = first[r] /\ tenant[r] \in since[r]
  /\ status[r] = "committing" => check[r] # "required_pending"

\* A download that asks for a connection has a place.
Placed(r) ==
  /\ r \in leases => kind[r] = "download" /\ pc[r] \notin {"new", "waiting"}
  /\ kind[r] = "download" /\ (pc[r] \in {"granted", "reserve"} \/ r \in held \cup Elements(queue)) => r \in leases

RInv(r) == InLine(r) /\ Stage(r) /\ Connected(r) /\ Answered(r) /\ Entitled(r) /\ Placed(r)

\* The two lines are sound, and no place is free while somebody waits for one.
Lines ==
  /\ NoRepeat(queue) /\ NoRepeat(waiters)
  /\ NoIdlePlace /\ Cardinality(leases) <= Capacity

IInv == TypeOK /\ Lines /\ \A r \in Requests : RInv(r)
-----------------------------------------------------------------------------
LEMMA ElementsOf == \A s, x : x \in Elements(s) <=> \E i \in 1..Len(s) : s[i] = x
  BY DEF Elements

LEMMA SuffixLine ==
  ASSUME NEW line \in Seq(Requests), NEW m \in 0..Len(line)
  PROVE  /\ SubSeq(line, m + 1, Len(line)) \in Seq(Requests)
         /\ Len(SubSeq(line, m + 1, Len(line))) = Len(line) - m
         /\ \A i \in 1..(Len(line) - m) : SubSeq(line, m + 1, Len(line))[i] = line[m + i]
<1>1. SubSeq(line, m + 1, Len(line)) \in Seq(Requests)
  OBVIOUS
<1>2. Len(SubSeq(line, m + 1, Len(line))) = Len(line) - m
  OBVIOUS
<1>3. ASSUME NEW i \in 1..(Len(line) - m) PROVE SubSeq(line, m + 1, Len(line))[i] = line[m + i]
  OBVIOUS
<1> QED
  BY <1>1, <1>2, <1>3

LEMMA AppendLine ==
  ASSUME NEW line \in Seq(Requests), NoRepeat(line), NEW r \in Requests, r \notin Elements(line)
  PROVE  /\ Append(line, r) \in Seq(Requests)
         /\ NoRepeat(Append(line, r))
         /\ Elements(Append(line, r)) = Elements(line) \cup {r}
  BY DEF NoRepeat, Elements

LEMMA TailLine ==
  ASSUME NEW line \in Seq(Requests), NoRepeat(line), line # <<>>
  PROVE  /\ Head(line) \in Requests
         /\ Head(line) \in Elements(line)
         /\ Tail(line) \in Seq(Requests)
         /\ NoRepeat(Tail(line))
         /\ Elements(Tail(line)) = Elements(line) \ {Head(line)}
<1>1. /\ Len(line) \in Nat \ {0} /\ Head(line) = line[1] /\ Tail(line) \in Seq(Requests)
      /\ Len(Tail(line)) = Len(line) - 1
      /\ \A i \in 1..(Len(line) - 1) : Tail(line)[i] = line[i + 1]
  OBVIOUS
<1>2. Head(line) \in Requests /\ Head(line) \in Elements(line)
  BY <1>1 DEF Elements
<1>3. NoRepeat(Tail(line))
  BY <1>1 DEF NoRepeat
<1>4. \A i \in 1..Len(Tail(line)) : Tail(line)[i] \in Elements(line) /\ Tail(line)[i] # Head(line)
  BY <1>1 DEF Elements, NoRepeat
<1>5. ASSUME NEW i \in 1..Len(line), line[i] # Head(line) PROVE line[i] \in Elements(Tail(line))
  <2>1. i - 1 \in 1..(Len(line) - 1) /\ Tail(line)[i - 1] = line[i]
    BY <1>1, <1>5
  <2> QED
    BY <2>1, <1>1 DEF Elements
<1>6. ASSUME NEW x PROVE x \in Elements(Tail(line)) <=> x \in Elements(line) /\ x # Head(line)
  <2>1. ASSUME x \in Elements(Tail(line)) PROVE x \in Elements(line) /\ x # Head(line)
    BY <2>1, <1>4, ElementsOf, ZenonT(40)
  <2>2. ASSUME x \in Elements(line), x # Head(line) PROVE x \in Elements(Tail(line))
    BY <2>2, <1>5, ElementsOf
  <2> QED
    BY <2>1, <2>2
<1>7. Elements(Tail(line)) = Elements(line) \ {Head(line)}
  BY <1>6
<1> QED
  BY <1>1, <1>2, <1>3, <1>7

LEMMA LeaveLine ==
  ASSUME NEW line \in Seq(Requests), NoRepeat(line), NEW r \in Requests
  PROVE  /\ Leave(line, r) \in Seq(Requests)
         /\ NoRepeat(Leave(line, r))
         /\ Elements(Leave(line, r)) = Elements(line) \ {r}
         /\ Leave(line, r) # <<>> => line # <<>>
<1>1. CASE r \notin Elements(line)
  BY <1>1 DEF Leave
<1>2. CASE r \in Elements(line)
  <2> DEFINE p == CHOOSE p \in 1..Len(line) : line[p] = r
             m == [i \in 1..(Len(line) - 1) |-> IF i < p THEN line[i] ELSE line[i + 1]]
  <2>1. p \in 1..Len(line) /\ line[p] = r
    BY <1>2 DEF Elements
  <2>2. Leave(line, r) = m
    BY <1>2 DEF Leave
  <2> HIDE DEF p
  <2>3. Len(line) \in Nat /\ \A i \in 1..Len(line) : line[i] \in Requests
    OBVIOUS
  <2>4. m \in Seq(Requests) /\ Len(m) = Len(line) - 1
    BY <2>1, <2>3
  <2>5. \A i \in 1..(Len(line) - 1) : m[i] = IF i < p THEN line[i] ELSE line[i + 1]
    OBVIOUS
  <2> HIDE DEF m
  <2>6. NoRepeat(m)
    BY <2>1, <2>3, <2>4, <2>5 DEF NoRepeat
  <2>7. Elements(m) = Elements(line) \ {r}
    <3>1. ASSUME NEW i \in 1..Len(m) PROVE m[i] \in Elements(line) /\ m[i] # r
      BY <2>1, <2>3, <2>4, <2>5, SMTT(30) DEF Elements, NoRepeat
    <3>2. ASSUME NEW i \in 1..Len(line), line[i] # r PROVE line[i] \in Elements(m)
      <4>1. CASE i < p
        BY <4>1, <2>1, <2>3, <2>4, <2>5 DEF Elements
      <4>2. CASE i > p
        <5>1. i - 1 \in 1..(Len(line) - 1) /\ ~(i - 1 < p)
          BY <4>2, <2>1, <2>3
        <5> QED
          BY <5>1, <2>3, <2>4, <2>5 DEF Elements
      <4> QED
        BY <4>1, <4>2, <3>2, <2>1, <2>3
    <3> QED
      BY <3>1, <3>2 DEF Elements
  <2> QED
    BY <2>1, <2>2, <2>4, <2>6, <2>7
<1> QED
  BY <1>1, <1>2

LEMMA CapacityType == Capacity \in Nat \ {0} /\ (PoolMax > 1 => Capacity < PoolMax)
  BY TenantRequestAssumption DEF Capacity

\* drain never hands out more places than there are, and leaves nobody waiting
\* in front of a free one.
LEMMA DrainPlaces ==
  ASSUME NEW places, places \subseteq Requests, NEW line, line \in Seq(Requests), NoRepeat(line),
         Cardinality(places) <= Capacity, Elements(line) \cap places = {}
  PROVE  LET A    == Admitted(places, line)
             rest == SubSeq(line, Cardinality(A) + 1, Len(line)) IN
         /\ A \subseteq Elements(line)
         /\ Cardinality(places \cup A) <= Capacity
         /\ rest \in Seq(Requests)
         /\ NoRepeat(rest)
         /\ Elements(rest) = Elements(line) \ A
         /\ rest # <<>> => Cardinality(places \cup A) = Capacity
<1> DEFINE A    == Admitted(places, line)
           rest == SubSeq(line, Cardinality(A) + 1, Len(line))
<1> DEFINE n == Cardinality(places)
           m == IF Capacity - n <= Len(line) THEN Capacity - n ELSE Len(line)
<1>1. n \in Nat /\ IsFiniteSet(places)
  BY FS_CardinalityType, FS_Subset, TenantRequestAssumption
<1>2. m \in 0..Len(line) /\ n + m <= Capacity /\ (m < Len(line) => n + m = Capacity)
  BY <1>1, CapacityType
<1>3. A = {line[i] : i \in 1..m}
  BY <1>1, CapacityType DEF Admitted
<1>7a. rest = SubSeq(line, Cardinality(A) + 1, Len(line))
  OBVIOUS
<1> HIDE DEF m, n, A, rest
<1>4. IsFiniteSet(A) /\ Cardinality(A) = m
  <2> DEFINE f == [i \in 1..m |-> line[i]]
  <2>0. 1..m \subseteq 1..Len(line)
    BY <1>2
  <2>1. f \in Bijection(1..m, A)
    BY <2>0, <1>3 DEF Bijection, Injection, Surjection, IsInjective, NoRepeat
  <2>2. IsFiniteSet(1..m) /\ Cardinality(1..m) = m
    BY <1>2, FS_Interval
  <2> QED
    BY <2>1, <2>2, FS_Bijection DEF ExistsBijection
<1>5. A \subseteq Elements(line)
  BY <1>2, <1>3 DEF Elements
<1>6. Cardinality(places \cup A) = n + m
  <2>1. places \cap A = {}
    BY <1>5
  <2> QED
    <3>1. Cardinality(places \cap A) = 0
      BY <2>1, FS_EmptySet
    <3>2. Cardinality(places \cup A) = Cardinality(places) + Cardinality(A) - Cardinality(places \cap A)
      BY <1>1, <1>4, FS_Union
    <3> QED
      BY <3>1, <3>2, <1>1, <1>2, <1>4 DEF n
<1>7. rest = SubSeq(line, m + 1, Len(line))
  BY <1>4, <1>7a
<1>8. /\ rest \in Seq(Requests) /\ Len(rest) = Len(line) - m
      /\ \A i \in 1..(Len(line) - m) : rest[i] = line[m + i]
  BY <1>2, <1>7, SuffixLine
<1>9. NoRepeat(rest)
  <2> SUFFICES ASSUME NEW i \in 1..(Len(line) - m), NEW j \in 1..(Len(line) - m), rest[i] = rest[j] PROVE i = j
    BY <1>8 DEF NoRepeat
  <2>1. m + i \in 1..Len(line) /\ m + j \in 1..Len(line) /\ line[m + i] = line[m + j]
    BY <1>2, <1>8
  <2>2. m + i = m + j
    BY <2>1 DEF NoRepeat
  <2> QED
    BY <2>2, <1>2
<1>10. Elements(rest) = Elements(line) \ A
  <2>1. ASSUME NEW i \in 1..Len(rest) PROVE rest[i] \in Elements(line) \ A
    <3>1. m + i \in 1..Len(line) /\ rest[i] = line[m + i]
      BY <1>2, <1>8
    <3>2. ASSUME NEW j \in 1..m PROVE line[j] # line[m + i]
      BY <3>1, <1>2 DEF NoRepeat
    <3> QED
      BY <3>1, <3>2, <1>3, ElementsOf
  <2>2. ASSUME NEW i \in 1..Len(line), line[i] \notin A PROVE line[i] \in Elements(rest)
    <3>1. i - m \in 1..(Len(line) - m)
      BY <2>2, <1>2, <1>3
    <3>2. rest[i - m] = line[i]
      BY <3>1, <1>2, <1>8
    <3> QED
      BY <3>1, <3>2, <1>8 DEF Elements
  <2> QED
    <3> SUFFICES ASSUME NEW x PROVE x \in Elements(rest) <=> x \in Elements(line) /\ x \notin A
      OBVIOUS
    <3>1. ASSUME x \in Elements(rest) PROVE x \in Elements(line) /\ x \notin A
      <4>1. PICK i \in 1..Len(rest) : rest[i] = x
        BY <3>1, ElementsOf
      <4> QED
        BY <4>1, <2>1
    <3>2. ASSUME x \in Elements(line), x \notin A PROVE x \in Elements(rest)
      BY <3>2, <2>2, ElementsOf
    <3> QED
      BY <3>1, <3>2
<1>11. rest # <<>> => m < Len(line)
  BY <1>2, <1>8
<1> QED
  BY <1>2, <1>5, <1>6, <1>8, <1>9, <1>10, <1>11 DEF A, rest
-----------------------------------------------------------------------------
Aside(s) ==
  /\ kind'[s] = kind[s] /\ header'[s] = header[s] /\ status'[s] = status[s] /\ started'[s] = started[s]
  /\ tenant'[s] = tenant[s] /\ first'[s] = first[s] /\ check'[s] = check[s]
  /\ effects'[s] = effects[s] /\ reply'[s] = reply[s] /\ attempt'[s] = attempt[s]
  /\ since'[s] = since[s] /\ members' = members
  /\ s \in held' <=> s \in held
  /\ s \in Elements(queue') <=> s \in Elements(queue)
  /\ \/ pc'[s] = pc[s] /\ (s \in leases' <=> s \in leases) /\ (s \in Elements(waiters') <=> s \in Elements(waiters))
     \/ pc[s] = "waiting" /\ pc'[s] = "granted" /\ s \in leases' /\ s \notin Elements(waiters')

LEMMA AsideKeeps ==
  ASSUME NEW s \in Requests, RInv(s), Aside(s)
  PROVE  RInv(s)'
<1>1. InLine(s)' /\ Stage(s)' /\ Connected(s)'
  BY DEF RInv, Aside, InLine, Stage, Connected, BeforeRoute, FrontDoor, Closing
<1>2. Answered(s)' /\ Entitled(s)'
  BY DEF RInv, Aside, Answered, Entitled, InLine, Stage, BeforeRoute
<1>3. Placed(s)'
  BY DEF RInv, Aside, Placed, InLine
<1> QED
  BY <1>1, <1>2, <1>3 DEF RInv

LEMMA Waiting ==
  ASSUME IInv
  PROVE  /\ Elements(waiters) \subseteq Requests
         /\ Elements(queue) \subseteq Requests
         /\ Elements(waiters) \cap leases = {}
<1>1. \A i \in 1..Len(waiters) : waiters[i] \in Requests
  BY DEF IInv, TypeOK
<1>2. \A i \in 1..Len(queue) : queue[i] \in Requests
  BY DEF IInv, TypeOK
<1>3. Elements(waiters) \subseteq Requests /\ Elements(queue) \subseteq Requests
  BY <1>1, <1>2 DEF Elements
<1> QED
  BY <1>3 DEF IInv, RInv, InLine, Placed

\* What the end of a request's lease does to the line.
LEMMA ReleaseStep ==
  ASSUME IInv, NEW r \in Requests, NEW next \in Steps, Release(r, next)
  PROVE  /\ Lines' <=> NoRepeat(queue')
         /\ leases' \in SUBSET Requests /\ waiters' \in Seq(Requests)
         /\ pc' \in [Requests -> Steps]
         /\ r \notin leases' \/ pc[r] = "waiting"
         /\ pc[r] # "waiting" => pc'[r] = next
         /\ r \in Elements(waiters') => r \in Elements(waiters)
         /\ \A s \in Requests \ {r} :
              \/ pc'[s] = pc[s] /\ (s \in leases' <=> s \in leases) /\ (s \in Elements(waiters') <=> s \in Elements(waiters))
              \/ pc[s] = "waiting" /\ pc'[s] = "granted" /\ s \in leases' /\ s \notin Elements(waiters')
<1> DEFINE places == leases \ {r}
           A == Admitted(places, waiters)
<1>1. places \in SUBSET Requests /\ waiters \in Seq(Requests) /\ NoRepeat(waiters) /\ IsFiniteSet(leases)
  BY FS_Subset, TenantRequestAssumption DEF IInv, TypeOK, Lines
<1>2. Cardinality(places) <= Capacity
  <2>1. Cardinality(places) <= Cardinality(leases) /\ Cardinality(places) \in Nat /\ Cardinality(leases) \in Nat
    BY <1>1, FS_Subset, FS_CardinalityType
  <2> QED
    <3>1. Cardinality(leases) <= Capacity
      BY DEF IInv, Lines
    <3> QED
      BY <2>1, <3>1, CapacityType
<1>3. Elements(waiters) \cap places = {}
  BY Waiting
<1>4. /\ leases' = places \cup A
      /\ waiters' = SubSeq(waiters, Cardinality(A) + 1, Len(waiters))
      /\ pc' = [s \in Requests |-> IF s \in A THEN "granted" ELSE IF s = r THEN next ELSE pc[s]]
  BY DEF Release, Drain
<1>0. A = Admitted(places, waiters)
  OBVIOUS
<1> HIDE DEF places, A
<1>5. /\ A \subseteq Elements(waiters)
      /\ Cardinality(places \cup A) <= Capacity
      /\ waiters' \in Seq(Requests)
      /\ NoRepeat(waiters')
      /\ Elements(waiters') = Elements(waiters) \ A
      /\ waiters' # <<>> => Cardinality(places \cup A) = Capacity
  BY <1>0, <1>1, <1>2, <1>3, <1>4, DrainPlaces
<1>6. Lines' <=> NoRepeat(queue')
  BY <1>4, <1>5 DEF Lines, NoIdlePlace
<1>7. A \subseteq Requests /\ \A s \in A : pc[s] = "waiting"
  BY <1>5, Waiting DEF IInv, RInv, InLine
<1>8. pc' \in [Requests -> Steps]
  BY <1>4 DEF IInv, TypeOK, Steps
<1> QED
  BY <1>1, <1>4, <1>5, <1>6, <1>7, <1>8 DEF places

\* A grant decides between a free pass and a tripwire, nothing else.
LEMMA ChecksType ==
  ASSUME NEW code \in PermissionCodes, NEW scope \in {"tenant", "resource"}, NEW c \in Checks[<<code, scope>>]
  PROVE  c \in {"not_required", "required_pending"}
<1>0. Checks[<<code, scope>>] =
        UNION {AuthorizePermissionRequirement(scope, GrantOf(R, code)) : R \in SUBSET RoleCodes}
  BY DEF Checks
<1>1. PICK R \in SUBSET RoleCodes : c \in AuthorizePermissionRequirement(scope, GrantOf(R, code))
  BY <1>0
<1> QED
  BY <1>1 DEF AuthorizePermissionRequirement

LEMMA BodyFailsKeeps == ASSUME IInv, NEW r \in Requests, BodyFails(r) PROVE IInv'
<1>1. TypeOK'
  BY DEF IInv, TypeOK, Steps, Ends, Closing, Kinds, FrontDoor, input, context, outcome, admission, authority, BodyFails, Running, Fail, Answer, Go
<1>2. Lines'
  BY DEF IInv, Lines, NoIdlePlace, admission, BodyFails, Running, Fail, Answer, Go
<1>3. RInv(r)'
  <2>1. RInv(r) /\ TypeOK
    BY DEF IInv
  <2>2. InLine(r)' /\ Stage(r)' /\ Connected(r)'
    BY <2>1 DEF TypeOK, RInv, InLine, Stage, Connected, BeforeRoute, FrontDoor, Closing, input, context, outcome, admission, authority, BodyFails, Running, Fail, Answer, Go
  <2>3. Answered(r)'
    BY <2>1 DEF TypeOK, RInv, InLine, Stage, Connected, Answered, BeforeRoute, FrontDoor, Closing, input, context, outcome, admission, authority, BodyFails, Running, Fail, Answer, Go
  <2>4. Entitled(r)' /\ Placed(r)'
    BY <2>1 DEF TypeOK, RInv, Stage, Connected, Entitled, Placed, BeforeRoute, FrontDoor, Closing, input, context, outcome, admission, authority, BodyFails, Running, Fail, Answer, Go
  <2> QED
    BY <2>2, <2>3, <2>4 DEF RInv
<1>4. ASSUME NEW s \in Requests, s # r PROVE RInv(s)'
  <2>1. Aside(s)
    BY <1>4 DEF IInv, TypeOK, Aside, input, context, outcome, admission, authority, BodyFails, Running, Fail, Answer, Go
  <2> QED
    BY <2>1, AsideKeeps DEF IInv
<1> QED
  BY <1>1, <1>2, <1>3, <1>4 DEF IInv

LEMMA PreValidationKeeps == ASSUME IInv, NEW r \in Requests, PreValidation(r) PROVE IInv'
<1>1. TypeOK'
  BY ZenonT(40) DEF IInv, TypeOK, Steps, Ends, Closing, Kinds, FrontDoor, input, context, outcome, admission, authority, PreValidation, Running, Fail, Answer, Go
<1>2. Lines'
  BY DEF IInv, Lines, NoIdlePlace, admission, PreValidation, Running, Fail, Answer, Go
<1>3. RInv(r)'
  <2>1. RInv(r) /\ TypeOK
    BY DEF IInv
  <2>2. InLine(r)' /\ Stage(r)' /\ Connected(r)'
    BY <2>1 DEF TypeOK, RInv, InLine, Stage, Connected, BeforeRoute, FrontDoor, Closing, input, context, outcome, admission, authority, PreValidation, Running, Fail, Answer, Go
  <2>3. Answered(r)'
    BY <2>1 DEF TypeOK, RInv, InLine, Stage, Connected, Answered, BeforeRoute, FrontDoor, Closing, input, context, outcome, admission, authority, PreValidation, Running, Fail, Answer, Go
  <2>4. Entitled(r)' /\ Placed(r)'
    BY <2>1 DEF TypeOK, RInv, Stage, Connected, Entitled, Placed, BeforeRoute, FrontDoor, Closing, input, context, outcome, admission, authority, PreValidation, Running, Fail, Answer, Go
  <2> QED
    BY <2>2, <2>3, <2>4 DEF RInv
<1>4. ASSUME NEW s \in Requests, s # r PROVE RInv(s)'
  <2>1. Aside(s)
    BY <1>4 DEF IInv, TypeOK, Aside, input, context, outcome, admission, authority, PreValidation, Running, Fail, Answer, Go
  <2> QED
    BY <2>1, AsideKeeps DEF IInv
<1> QED
  BY <1>1, <1>2, <1>3, <1>4 DEF IInv

LEMMA MarkSatisfiedKeeps == ASSUME IInv, NEW r \in Requests, MarkSatisfied(r) PROVE IInv'
<1>1. TypeOK'
  BY DEF IInv, TypeOK, Steps, Ends, Closing, Kinds, FrontDoor, input, context, outcome, admission, authority, MarkSatisfied, Running, Fail, Answer, Go
<1>2. Lines'
  BY DEF IInv, Lines, NoIdlePlace, admission, MarkSatisfied, Running, Fail, Answer, Go
<1>3. RInv(r)'
  <2>1. RInv(r) /\ TypeOK
    BY DEF IInv
  <2>2. InLine(r)' /\ Stage(r)' /\ Connected(r)'
    BY <2>1 DEF TypeOK, RInv, InLine, Stage, Connected, BeforeRoute, FrontDoor, Closing, input, context, outcome, admission, authority, MarkSatisfied, Running, Fail, Answer, Go
  <2>3. Answered(r)'
    BY <2>1 DEF TypeOK, RInv, InLine, Stage, Connected, Answered, BeforeRoute, FrontDoor, Closing, input, context, outcome, admission, authority, MarkSatisfied, Running, Fail, Answer, Go
  <2>4. Entitled(r)' /\ Placed(r)'
    BY <2>1 DEF TypeOK, RInv, Stage, Connected, Entitled, Placed, BeforeRoute, FrontDoor, Closing, input, context, outcome, admission, authority, MarkSatisfied, Running, Fail, Answer, Go
  <2> QED
    BY <2>2, <2>3, <2>4 DEF RInv
<1>4. ASSUME NEW s \in Requests, s # r PROVE RInv(s)'
  <2>1. Aside(s)
    BY <1>4 DEF IInv, TypeOK, Aside, input, context, outcome, admission, authority, MarkSatisfied, Running, Fail, Answer, Go
  <2> QED
    BY <2>1, AsideKeeps DEF IInv
<1> QED
  BY <1>1, <1>2, <1>3, <1>4 DEF IInv

LEMMA HandlerRepliesKeeps == ASSUME IInv, NEW r \in Requests, HandlerReplies(r) PROVE IInv'
<1>1. TypeOK'
  BY DEF IInv, TypeOK, Steps, Ends, Closing, Kinds, FrontDoor, input, context, outcome, admission, authority, HandlerReplies, Running, Fail, Answer, Go
<1>2. Lines'
  BY DEF IInv, Lines, NoIdlePlace, admission, HandlerReplies, Running, Fail, Answer, Go
<1>3. RInv(r)'
  <2>1. RInv(r) /\ TypeOK
    BY DEF IInv
  <2>2. InLine(r)' /\ Stage(r)' /\ Connected(r)'
    BY <2>1 DEF TypeOK, RInv, InLine, Stage, Connected, BeforeRoute, FrontDoor, Closing, input, context, outcome, admission, authority, HandlerReplies, Running, Fail, Answer, Go
  <2>3. Answered(r)'
    BY <2>1 DEF TypeOK, RInv, InLine, Stage, Connected, Answered, BeforeRoute, FrontDoor, Closing, input, context, outcome, admission, authority, HandlerReplies, Running, Fail, Answer, Go
  <2>4. Entitled(r)' /\ Placed(r)'
    BY <2>1 DEF TypeOK, RInv, Stage, Connected, Entitled, Placed, BeforeRoute, FrontDoor, Closing, input, context, outcome, admission, authority, HandlerReplies, Running, Fail, Answer, Go
  <2> QED
    BY <2>2, <2>3, <2>4 DEF RInv
<1>4. ASSUME NEW s \in Requests, s # r PROVE RInv(s)'
  <2>1. Aside(s)
    BY <1>4 DEF IInv, TypeOK, Aside, input, context, outcome, admission, authority, HandlerReplies, Running, Fail, Answer, Go
  <2> QED
    BY <2>1, AsideKeeps DEF IInv
<1> QED
  BY <1>1, <1>2, <1>3, <1>4 DEF IInv

LEMMA HandlerThrowsKeeps == ASSUME IInv, NEW r \in Requests, HandlerThrows(r) PROVE IInv'
<1>1. TypeOK'
  BY DEF IInv, TypeOK, Steps, Ends, Closing, Kinds, FrontDoor, input, context, outcome, admission, authority, HandlerThrows, Running, Fail, Answer, Go
<1>2. Lines'
  BY DEF IInv, Lines, NoIdlePlace, admission, HandlerThrows, Running, Fail, Answer, Go
<1>3. RInv(r)'
  <2>1. RInv(r) /\ TypeOK
    BY DEF IInv
  <2>2. InLine(r)' /\ Stage(r)' /\ Connected(r)'
    BY <2>1 DEF TypeOK, RInv, InLine, Stage, Connected, BeforeRoute, FrontDoor, Closing, input, context, outcome, admission, authority, HandlerThrows, Running, Fail, Answer, Go
  <2>3. Answered(r)'
    BY <2>1 DEF TypeOK, RInv, InLine, Stage, Connected, Answered, BeforeRoute, FrontDoor, Closing, input, context, outcome, admission, authority, HandlerThrows, Running, Fail, Answer, Go
  <2>4. Entitled(r)' /\ Placed(r)'
    BY <2>1 DEF TypeOK, RInv, Stage, Connected, Entitled, Placed, BeforeRoute, FrontDoor, Closing, input, context, outcome, admission, authority, HandlerThrows, Running, Fail, Answer, Go
  <2> QED
    BY <2>2, <2>3, <2>4 DEF RInv
<1>4. ASSUME NEW s \in Requests, s # r PROVE RInv(s)'
  <2>1. Aside(s)
    BY <1>4 DEF IInv, TypeOK, Aside, input, context, outcome, admission, authority, HandlerThrows, Running, Fail, Answer, Go
  <2> QED
    BY <2>1, AsideKeeps DEF IInv
<1> QED
  BY <1>1, <1>2, <1>3, <1>4 DEF IInv

LEMMA LineageChangedKeeps == ASSUME IInv, NEW r \in Requests, LineageChanged(r) PROVE IInv'
<1>1. TypeOK'
  BY DEF IInv, TypeOK, Steps, Ends, Closing, Kinds, FrontDoor, input, context, outcome, admission, authority, LineageChanged, Running, Fail, Answer, Go, Ending, MayRetry
<1>2. Lines'
  BY DEF IInv, Lines, NoIdlePlace, admission, LineageChanged, Running, Fail, Answer, Go, Ending, MayRetry
<1>3. RInv(r)'
  <2>1. RInv(r) /\ TypeOK
    BY DEF IInv
  <2>2. InLine(r)' /\ Stage(r)' /\ Connected(r)'
    BY <2>1 DEF TypeOK, RInv, InLine, Stage, Connected, BeforeRoute, FrontDoor, Closing, input, context, outcome, admission, authority, LineageChanged, Running, Fail, Answer, Go, Ending, MayRetry
  <2>3. Answered(r)'
    BY <2>1 DEF TypeOK, RInv, InLine, Stage, Connected, Answered, BeforeRoute, FrontDoor, Closing, input, context, outcome, admission, authority, LineageChanged, Running, Fail, Answer, Go, Ending, MayRetry
  <2>4. Entitled(r)' /\ Placed(r)'
    BY <2>1 DEF TypeOK, RInv, Stage, Connected, Entitled, Placed, BeforeRoute, FrontDoor, Closing, input, context, outcome, admission, authority, LineageChanged, Running, Fail, Answer, Go, Ending, MayRetry
  <2> QED
    BY <2>2, <2>3, <2>4 DEF RInv
<1>4. ASSUME NEW s \in Requests, s # r PROVE RInv(s)'
  <2>1. Aside(s)
    BY <1>4 DEF IInv, TypeOK, Aside, input, context, outcome, admission, authority, LineageChanged, Running, Fail, Answer, Go, Ending, MayRetry
  <2> QED
    BY <2>1, AsideKeeps DEF IInv
<1> QED
  BY <1>1, <1>2, <1>3, <1>4 DEF IInv

LEMMA BeginInspectionKeeps == ASSUME IInv, NEW r \in Requests, BeginInspection(r) PROVE IInv'
<1>1. TypeOK'
  BY DEF IInv, TypeOK, Steps, Ends, Closing, Kinds, FrontDoor, input, context, outcome, admission, authority, BeginInspection, Running, Fail, Answer, Go, Ending
<1>2. Lines'
  BY DEF IInv, Lines, NoIdlePlace, admission, BeginInspection, Running, Fail, Answer, Go, Ending
<1>3. RInv(r)'
  <2>1. RInv(r) /\ TypeOK
    BY DEF IInv
  <2>2. InLine(r)' /\ Stage(r)' /\ Connected(r)'
    BY <2>1 DEF TypeOK, RInv, InLine, Stage, Connected, BeforeRoute, FrontDoor, Closing, input, context, outcome, admission, authority, BeginInspection, Running, Fail, Answer, Go, Ending
  <2>3. Answered(r)'
    BY <2>1 DEF TypeOK, RInv, InLine, Stage, Connected, Answered, BeforeRoute, FrontDoor, Closing, input, context, outcome, admission, authority, BeginInspection, Running, Fail, Answer, Go, Ending
  <2>4. Entitled(r)' /\ Placed(r)'
    BY <2>1 DEF TypeOK, RInv, Stage, Connected, Entitled, Placed, BeforeRoute, FrontDoor, Closing, input, context, outcome, admission, authority, BeginInspection, Running, Fail, Answer, Go, Ending
  <2> QED
    BY <2>2, <2>3, <2>4 DEF RInv
<1>4. ASSUME NEW s \in Requests, s # r PROVE RInv(s)'
  <2>1. Aside(s)
    BY <1>4 DEF IInv, TypeOK, Aside, input, context, outcome, admission, authority, BeginInspection, Running, Fail, Answer, Go, Ending
  <2> QED
    BY <2>1, AsideKeeps DEF IInv
<1> QED
  BY <1>1, <1>2, <1>3, <1>4 DEF IInv

LEMMA InspectKeeps == ASSUME IInv, NEW r \in Requests, Inspect(r) PROVE IInv'
<1>1. TypeOK'
  BY ZenonT(40) DEF IInv, TypeOK, Steps, Ends, Closing, Kinds, FrontDoor, input, context, outcome, admission, authority, Inspect, Running, Fail, Answer, Go
<1>2. Lines'
  BY DEF IInv, Lines, NoIdlePlace, admission, Inspect, Running, Fail, Answer, Go
<1>3. RInv(r)'
  <2>1. RInv(r) /\ TypeOK
    BY DEF IInv
  <2>2. InLine(r)' /\ Stage(r)' /\ Connected(r)'
    BY <2>1 DEF TypeOK, RInv, InLine, Stage, Connected, BeforeRoute, FrontDoor, Closing, input, context, outcome, admission, authority, Inspect, Running, Fail, Answer, Go
  <2>3. Answered(r)'
    BY <2>1 DEF TypeOK, RInv, InLine, Stage, Connected, Answered, BeforeRoute, FrontDoor, Closing, input, context, outcome, admission, authority, Inspect, Running, Fail, Answer, Go
  <2>4. Entitled(r)' /\ Placed(r)'
    BY <2>1 DEF TypeOK, RInv, Stage, Connected, Entitled, Placed, BeforeRoute, FrontDoor, Closing, input, context, outcome, admission, authority, Inspect, Running, Fail, Answer, Go
  <2> QED
    BY <2>2, <2>3, <2>4 DEF RInv
<1>4. ASSUME NEW s \in Requests, s # r PROVE RInv(s)'
  <2>1. Aside(s)
    BY <1>4 DEF IInv, TypeOK, Aside, input, context, outcome, admission, authority, Inspect, Running, Fail, Answer, Go
  <2> QED
    BY <2>1, AsideKeeps DEF IInv
<1> QED
  BY <1>1, <1>2, <1>3, <1>4 DEF IInv

LEMMA FinalizeKeeps == ASSUME IInv, NEW r \in Requests, Finalize(r) PROVE IInv'
<1>1. TypeOK'
  BY ZenonT(40) DEF IInv, TypeOK, Steps, Ends, Closing, Kinds, FrontDoor, input, context, outcome, admission, authority, Finalize, Running, Fail, Answer, Go, Ending, Passed
<1>2. Lines'
  BY DEF IInv, Lines, NoIdlePlace, admission, Finalize, Running, Fail, Answer, Go, Ending, Passed
<1>3. RInv(r)'
  <2>1. RInv(r) /\ TypeOK
    BY DEF IInv
  <2>2. InLine(r)' /\ Stage(r)' /\ Connected(r)'
    BY <2>1 DEF TypeOK, RInv, InLine, Stage, Connected, BeforeRoute, FrontDoor, Closing, input, context, outcome, admission, authority, Finalize, Running, Fail, Answer, Go, Ending, Passed
  <2>3. Answered(r)'
    BY <2>1 DEF TypeOK, RInv, InLine, Stage, Connected, Answered, BeforeRoute, FrontDoor, Closing, input, context, outcome, admission, authority, Finalize, Running, Fail, Answer, Go, Ending, Passed
  <2>4. Entitled(r)' /\ Placed(r)'
    BY <2>1 DEF TypeOK, RInv, Stage, Connected, Entitled, Placed, BeforeRoute, FrontDoor, Closing, input, context, outcome, admission, authority, Finalize, Running, Fail, Answer, Go, Ending, Passed
  <2> QED
    BY <2>2, <2>3, <2>4 DEF RInv
<1>4. ASSUME NEW s \in Requests, s # r PROVE RInv(s)'
  <2>1. Aside(s)
    BY <1>4 DEF IInv, TypeOK, Aside, input, context, outcome, admission, authority, Finalize, Running, Fail, Answer, Go, Ending, Passed
  <2> QED
    BY <2>1, AsideKeeps DEF IInv
<1> QED
  BY <1>1, <1>2, <1>3, <1>4 DEF IInv

LEMMA OnErrorKeeps == ASSUME IInv, NEW r \in Requests, OnError(r) PROVE IInv'
<1>1. TypeOK'
  BY DEF IInv, TypeOK, Steps, Ends, Closing, Kinds, FrontDoor, input, context, outcome, admission, authority, OnError, Running, Fail, Answer, Go, Ending
<1>2. Lines'
  BY DEF IInv, Lines, NoIdlePlace, admission, OnError, Running, Fail, Answer, Go, Ending
<1>3. RInv(r)'
  <2>1. RInv(r) /\ TypeOK
    BY DEF IInv
  <2>2. InLine(r)' /\ Stage(r)' /\ Connected(r)'
    BY <2>1 DEF TypeOK, RInv, InLine, Stage, Connected, BeforeRoute, FrontDoor, Closing, input, context, outcome, admission, authority, OnError, Running, Fail, Answer, Go, Ending
  <2>3. Answered(r)'
    BY <2>1 DEF TypeOK, RInv, InLine, Stage, Connected, Answered, BeforeRoute, FrontDoor, Closing, input, context, outcome, admission, authority, OnError, Running, Fail, Answer, Go, Ending
  <2>4. Entitled(r)' /\ Placed(r)'
    BY <2>1 DEF TypeOK, RInv, Stage, Connected, Entitled, Placed, BeforeRoute, FrontDoor, Closing, input, context, outcome, admission, authority, OnError, Running, Fail, Answer, Go, Ending
  <2> QED
    BY <2>2, <2>3, <2>4 DEF RInv
<1>4. ASSUME NEW s \in Requests, s # r PROVE RInv(s)'
  <2>1. Aside(s)
    BY <1>4 DEF IInv, TypeOK, Aside, input, context, outcome, admission, authority, OnError, Running, Fail, Answer, Go, Ending
  <2> QED
    BY <2>1, AsideKeeps DEF IInv
<1> QED
  BY <1>1, <1>2, <1>3, <1>4 DEF IInv

LEMMA RespondKeeps == ASSUME IInv, NEW r \in Requests, Respond(r) PROVE IInv'
<1>1. TypeOK'
  BY DEF IInv, TypeOK, Steps, Ends, Closing, Kinds, FrontDoor, input, context, outcome, admission, authority, Respond, Running, Fail, Answer, Go
<1>2. Lines'
  BY DEF IInv, Lines, NoIdlePlace, admission, Respond, Running, Fail, Answer, Go
<1>3. RInv(r)'
  <2>1. RInv(r) /\ TypeOK
    BY DEF IInv
  <2>2. InLine(r)' /\ Stage(r)' /\ Connected(r)'
    BY <2>1 DEF TypeOK, RInv, InLine, Stage, Connected, BeforeRoute, FrontDoor, Closing, input, context, outcome, admission, authority, Respond, Running, Fail, Answer, Go
  <2>3. Answered(r)'
    BY <2>1 DEF TypeOK, RInv, InLine, Stage, Connected, Answered, BeforeRoute, FrontDoor, Closing, input, context, outcome, admission, authority, Respond, Running, Fail, Answer, Go
  <2>4. Entitled(r)' /\ Placed(r)'
    BY <2>1 DEF TypeOK, RInv, Stage, Connected, Entitled, Placed, BeforeRoute, FrontDoor, Closing, input, context, outcome, admission, authority, Respond, Running, Fail, Answer, Go
  <2> QED
    BY <2>2, <2>3, <2>4 DEF RInv
<1>4. ASSUME NEW s \in Requests, s # r PROVE RInv(s)'
  <2>1. Aside(s)
    BY <1>4 DEF IInv, TypeOK, Aside, input, context, outcome, admission, authority, Respond, Running, Fail, Answer, Go
  <2> QED
    BY <2>1, AsideKeeps DEF IInv
<1> QED
  BY <1>1, <1>2, <1>3, <1>4 DEF IInv

LEMMA ReopenKeeps == ASSUME IInv, NEW r \in Requests, Reopen(r) PROVE IInv'
<1>0. attempt[r] < 2 /\ started[r]
  BY DEF IInv, RInv, Stage, Reopen, Running
<1>1. TypeOK'
  BY <1>0 DEF IInv, TypeOK, Steps, Ends, Closing, Kinds, FrontDoor, input, context, outcome, admission, authority, Reopen, Running, Fail, Answer, Go
<1>2. Lines'
  BY <1>0 DEF IInv, Lines, NoIdlePlace, input, context, outcome, admission, authority, Reopen, Running, Fail, Answer, Go
<1>3. RInv(r)'
  <2>1. RInv(r) /\ TypeOK
    BY <1>0 DEF IInv
  <2>2. InLine(r)' /\ Connected(r)'
    BY <2>1, <1>0 DEF TypeOK, RInv, InLine, Stage, Connected, BeforeRoute, FrontDoor, Closing, input, context, outcome, admission, authority, Reopen, Running, Fail, Answer, Go
  <2>3. Stage(r)'
    BY <2>1, <1>0 DEF TypeOK, RInv, InLine, Stage, Connected, BeforeRoute, FrontDoor, Closing, input, context, outcome, admission, authority, Reopen, Running, Fail, Answer, Go
  <2>4. Answered(r)'
    BY <2>1, <1>0 DEF TypeOK, RInv, InLine, Stage, Connected, Answered, BeforeRoute, FrontDoor, Closing, input, context, outcome, admission, authority, Reopen, Running, Fail, Answer, Go
  <2>5. Entitled(r)'
    BY <2>1, <1>0 DEF TypeOK, RInv, Stage, Connected, Entitled, BeforeRoute, FrontDoor, Closing, input, context, outcome, admission, authority, Reopen, Running, Fail, Answer, Go
  <2>6. Placed(r)'
    BY <2>1, <1>0 DEF TypeOK, RInv, InLine, Stage, Connected, Placed, BeforeRoute, FrontDoor, Closing, input, context, outcome, admission, authority, Reopen, Running, Fail, Answer, Go
  <2> QED
    BY <2>2, <2>3, <2>4, <2>5, <2>6 DEF RInv
<1>4. ASSUME NEW s \in Requests, s # r PROVE RInv(s)'
  <2>1. Aside(s)
    BY <1>4, <1>0 DEF IInv, TypeOK, Aside, input, context, outcome, admission, authority, Reopen, Running, Fail, Answer, Go
  <2> QED
    BY <2>1, AsideKeeps DEF IInv
<1> QED
  BY <1>1, <1>2, <1>3, <1>4 DEF IInv

LEMMA AuthenticationFailsKeeps == ASSUME IInv, NEW r \in Requests, AuthenticationFails(r) PROVE IInv'
<1>1. TypeOK'
  BY DEF IInv, TypeOK, Steps, Ends, Closing, Kinds, FrontDoor, input, context, outcome, admission, authority, AuthenticationFails, Begun, Fail, Answer, Go
<1>2. Lines'
  BY DEF IInv, Lines, NoIdlePlace, admission, AuthenticationFails, Begun, Fail, Answer, Go
<1>3. RInv(r)'
  <2>1. RInv(r) /\ TypeOK
    BY DEF IInv
  <2>2. InLine(r)' /\ Stage(r)' /\ Connected(r)'
    BY <2>1 DEF TypeOK, RInv, InLine, Stage, Connected, BeforeRoute, FrontDoor, Closing, input, context, outcome, admission, authority, AuthenticationFails, Begun, Fail, Answer, Go
  <2>3. Answered(r)'
    BY <2>1 DEF TypeOK, RInv, InLine, Stage, Connected, Answered, BeforeRoute, FrontDoor, Closing, input, context, outcome, admission, authority, AuthenticationFails, Begun, Fail, Answer, Go
  <2>4. Entitled(r)' /\ Placed(r)'
    BY <2>1 DEF TypeOK, RInv, Stage, Connected, Entitled, Placed, BeforeRoute, FrontDoor, Closing, input, context, outcome, admission, authority, AuthenticationFails, Begun, Fail, Answer, Go
  <2> QED
    BY <2>2, <2>3, <2>4 DEF RInv
<1>4. ASSUME NEW s \in Requests, s # r PROVE RInv(s)'
  <2>1. Aside(s)
    BY <1>4 DEF IInv, TypeOK, Aside, input, context, outcome, admission, authority, AuthenticationFails, Begun, Fail, Answer, Go
  <2> QED
    BY <2>1, AsideKeeps DEF IInv
<1> QED
  BY <1>1, <1>2, <1>3, <1>4 DEF IInv

LEMMA AbandonReservationKeeps == ASSUME IInv, NEW r \in Requests, AbandonReservation(r) PROVE IInv'
<1>1. TypeOK'
  BY DEF IInv, TypeOK, Steps, Ends, Closing, Kinds, FrontDoor, input, context, outcome, admission, authority, AbandonReservation, Fail, Answer, Go
<1>2. Lines'
  BY DEF IInv, Lines, NoIdlePlace, admission, AbandonReservation, Fail, Answer, Go
<1>3. RInv(r)'
  <2>1. RInv(r) /\ TypeOK
    BY DEF IInv
  <2>2. InLine(r)' /\ Stage(r)' /\ Connected(r)'
    BY <2>1 DEF TypeOK, RInv, InLine, Stage, Connected, BeforeRoute, FrontDoor, Closing, input, context, outcome, admission, authority, AbandonReservation, Fail, Answer, Go
  <2>3. Answered(r)'
    BY <2>1 DEF TypeOK, RInv, InLine, Stage, Connected, Answered, BeforeRoute, FrontDoor, Closing, input, context, outcome, admission, authority, AbandonReservation, Fail, Answer, Go
  <2>4. Entitled(r)' /\ Placed(r)'
    BY <2>1 DEF TypeOK, RInv, Stage, Connected, Entitled, Placed, BeforeRoute, FrontDoor, Closing, input, context, outcome, admission, authority, AbandonReservation, Fail, Answer, Go
  <2> QED
    BY <2>2, <2>3, <2>4 DEF RInv
<1>4. ASSUME NEW s \in Requests, s # r PROVE RInv(s)'
  <2>1. Aside(s)
    BY <1>4 DEF IInv, TypeOK, Aside, input, context, outcome, admission, authority, AbandonReservation, Fail, Answer, Go
  <2> QED
    BY <2>1, AsideKeeps DEF IInv
<1> QED
  BY <1>1, <1>2, <1>3, <1>4 DEF IInv

LEMMA ValidateKeeps == ASSUME IInv, NEW r \in Requests, Validate(r) PROVE IInv'
<1>1. TypeOK'
  BY DEF IInv, TypeOK, Steps, Ends, Closing, Kinds, FrontDoor, input, context, outcome, admission, authority, Validate, Opening, Active
<1>2. Lines'
  BY DEF IInv, Lines, NoIdlePlace, admission, Validate, Opening, Active
<1>3. RInv(r)'
  <2>1. RInv(r) /\ TypeOK
    BY DEF IInv
  <2>2. InLine(r)' /\ Stage(r)' /\ Connected(r)'
    BY <2>1 DEF TypeOK, RInv, InLine, Stage, Connected, BeforeRoute, FrontDoor, Closing, input, context, outcome, admission, authority, Validate, Opening, Active
  <2>3. Answered(r)'
    BY <2>1 DEF TypeOK, RInv, InLine, Stage, Connected, Answered, BeforeRoute, FrontDoor, Closing, input, context, outcome, admission, authority, Validate, Opening, Active
  <2>4. Entitled(r)' /\ Placed(r)'
    BY <2>1 DEF TypeOK, RInv, Stage, Connected, Entitled, Placed, BeforeRoute, FrontDoor, Closing, input, context, outcome, admission, authority, Validate, Opening, Active
  <2> QED
    BY <2>2, <2>3, <2>4 DEF RInv
<1>4. ASSUME NEW s \in Requests, s # r PROVE RInv(s)'
  <2>1. Aside(s)
    BY <1>4 DEF IInv, TypeOK, Aside, input, context, outcome, admission, authority, Validate, Opening, Active
  <2> QED
    BY <2>1, AsideKeeps DEF IInv
<1> QED
  BY <1>1, <1>2, <1>3, <1>4 DEF IInv

LEMMA AuthenticateKeeps == ASSUME IInv, NEW r \in Requests, Authenticate(r) PROVE IInv'
<1>a. /\ Append(queue, r) \in Seq(Requests) /\ NoRepeat(Append(queue, r))
      /\ Elements(Append(queue, r)) = Elements(queue) \cup {r}
  BY AppendLine DEF IInv, TypeOK, Lines, RInv, InLine, Authenticate, Begun
<1>0. /\ queue' \in Seq(Requests) /\ NoRepeat(queue')
      /\ \A x : x \in Elements(queue') <=> x \in Elements(queue) \/ (x = r /\ kind[r] = "gallery")
  BY <1>a DEF IInv, TypeOK, Lines, Authenticate
<1>1. TypeOK'
  BY <1>0 DEF IInv, TypeOK, Steps, Ends, Closing, Kinds, FrontDoor, input, context, outcome, admission, authority, Authenticate, Begun, Go
<1>2. Lines'
  BY <1>0 DEF IInv, Lines, NoIdlePlace, input, context, outcome, admission, authority, Authenticate, Begun, Go
<1>3. RInv(r)'
  <2>1. RInv(r) /\ TypeOK
    BY <1>0 DEF IInv
  <2>2. InLine(r)' /\ Connected(r)'
    BY <2>1, <1>0 DEF TypeOK, RInv, InLine, Stage, Connected, BeforeRoute, FrontDoor, Closing, input, context, outcome, admission, authority, Authenticate, Begun, Go
  <2>3. Stage(r)'
    BY <2>1, <1>0 DEF TypeOK, RInv, InLine, Stage, Connected, BeforeRoute, FrontDoor, Closing, input, context, outcome, admission, authority, Authenticate, Begun, Go
  <2>4. Answered(r)'
    BY <2>1, <1>0 DEF TypeOK, RInv, InLine, Stage, Connected, Answered, BeforeRoute, FrontDoor, Closing, input, context, outcome, admission, authority, Authenticate, Begun, Go
  <2>5. Entitled(r)'
    BY <2>1, <1>0 DEF TypeOK, RInv, Stage, Connected, Entitled, BeforeRoute, FrontDoor, Closing, input, context, outcome, admission, authority, Authenticate, Begun, Go
  <2>6. Placed(r)'
    BY <2>1, <1>0 DEF TypeOK, RInv, InLine, Stage, Connected, Placed, BeforeRoute, FrontDoor, Closing, input, context, outcome, admission, authority, Authenticate, Begun, Go
  <2> QED
    BY <2>2, <2>3, <2>4, <2>5, <2>6 DEF RInv
<1>4. ASSUME NEW s \in Requests, s # r PROVE RInv(s)'
  <2>1. Aside(s)
    BY <1>4, <1>0 DEF IInv, TypeOK, Aside, input, context, outcome, admission, authority, Authenticate, Begun, Go
  <2> QED
    BY <2>1, AsideKeeps DEF IInv
<1> QED
  BY <1>1, <1>2, <1>3, <1>4 DEF IInv

LEMMA DiscoverKeeps == ASSUME IInv, NEW r \in Requests, Discover(r) PROVE IInv'
<1>a. /\ Append(queue, r) \in Seq(Requests) /\ NoRepeat(Append(queue, r))
      /\ Elements(Append(queue, r)) = Elements(queue) \cup {r}
  BY AppendLine DEF IInv, TypeOK, Lines, RInv, InLine, Discover, Opening
<1>b. /\ pc[r] = "discover"
      /\ pc' = [pc EXCEPT ![r] = IF kind[r] \in FrontDoor THEN "validate" ELSE "reserve"]
      /\ UNCHANGED <<input, started, gone, attempt, members, moves, status, first, check, outcome, held, admission, since>>
      /\ queue' \in Seq(Requests) /\ NoRepeat(queue')
      /\ \A x : x \in Elements(queue') <=> x \in Elements(queue) \/ (x = r /\ kind[r] \notin FrontDoor)
  BY <1>a DEF IInv, TypeOK, Lines, Discover, Opening
<1>c. PICK t \in Tenants : tenant' = [tenant EXCEPT ![r] = t] /\ (header[r] # None => t = header[r])
  BY DEF IInv, TypeOK, Discover, SelectTenantCandidate
<1>1. TypeOK'
  BY <1>b, <1>c DEF IInv, TypeOK, Steps, Ends, Closing, Kinds, FrontDoor, input, context, outcome, admission, authority, Opening
<1>2. Lines'
  BY <1>b, <1>c DEF IInv, Lines, NoIdlePlace, input, context, outcome, admission, authority, Opening
<1>3. RInv(r)'
  <2>1. RInv(r) /\ TypeOK
    BY <1>b, <1>c DEF IInv
  <2>2. InLine(r)' /\ Connected(r)'
    BY <2>1, <1>b, <1>c DEF TypeOK, RInv, InLine, Stage, Connected, BeforeRoute, FrontDoor, Closing, input, context, outcome, admission, authority, Opening
  <2>3. Stage(r)'
    BY <2>1, <1>b, <1>c DEF TypeOK, RInv, InLine, Stage, Connected, BeforeRoute, FrontDoor, Closing, input, context, outcome, admission, authority, Opening
  <2>4. Answered(r)'
    BY <2>1, <1>b, <1>c DEF TypeOK, RInv, InLine, Stage, Connected, Answered, BeforeRoute, FrontDoor, Closing, input, context, outcome, admission, authority, Opening
  <2>5. Entitled(r)'
    BY <2>1, <1>b, <1>c DEF TypeOK, RInv, Stage, Connected, Entitled, BeforeRoute, FrontDoor, Closing, input, context, outcome, admission, authority, Opening
  <2>6. Placed(r)'
    BY <2>1, <1>b, <1>c DEF TypeOK, RInv, InLine, Stage, Connected, Placed, BeforeRoute, FrontDoor, Closing, input, context, outcome, admission, authority, Opening
  <2> QED
    BY <2>2, <2>3, <2>4, <2>5, <2>6 DEF RInv
<1>4. ASSUME NEW s \in Requests, s # r PROVE RInv(s)'
  <2>1. Aside(s)
    BY <1>4, <1>b, <1>c DEF IInv, TypeOK, Aside, input, context, outcome, admission, authority, Opening
  <2> QED
    BY <2>1, AsideKeeps DEF IInv
<1> QED
  BY <1>1, <1>2, <1>3, <1>4 DEF IInv

LEMMA LoadKeeps == ASSUME IInv, NEW r \in Requests, Load(r) PROVE IInv'
<1>0. PICK c \in {"not_required", "required_pending"} : check' = [check EXCEPT ![r] = c]
  <2>1. RoutePermissions(r) \subseteq PermissionCodes /\ RouteScopes(r) \subseteq {"tenant", "resource"}
    BY DEF RoutePermissions, RouteScopes, FrontDoor, PermissionCodes, IInv, TypeOK, Kinds
  <2> QED
    BY <2>1, ChecksType DEF Load
<1>b. /\ pc[r] = "load" /\ tenant[r] \in members /\ (attempt[r] = 0 \/ tenant[r] = first[r])
      /\ first' = [first EXCEPT ![r] = IF attempt[r] = 0 THEN tenant[r] ELSE first[r]]
      /\ status' = [status EXCEPT ![r] = "open"]
      /\ pc' = [pc EXCEPT ![r] = IF attempt[r] = 0 THEN "registered" ELSE "handler"]
      /\ UNCHANGED <<input, started, gone, attempt, members, moves, tenant, outcome, held, queue, admission, since>>
  BY DEF Load, Opening, Active, SameTenant
<1>1. TypeOK'
  BY <1>0, <1>b DEF IInv, TypeOK, Steps, Ends, Closing, Kinds, FrontDoor, input, context, outcome, admission, authority
<1>2. Lines'
  BY <1>0, <1>b DEF IInv, Lines, NoIdlePlace, input, context, outcome, admission, authority
<1>3. RInv(r)'
  <2>1. RInv(r) /\ TypeOK
    BY <1>0, <1>b DEF IInv
  <2>2. InLine(r)' /\ Connected(r)'
    BY <2>1, <1>0, <1>b DEF TypeOK, RInv, InLine, Stage, Connected, BeforeRoute, FrontDoor, Closing, input, context, outcome, admission, authority
  <2>3. Stage(r)'
    BY <2>1, <1>0, <1>b DEF TypeOK, RInv, InLine, Stage, Connected, BeforeRoute, FrontDoor, Closing, input, context, outcome, admission, authority
  <2>4. Answered(r)'
    BY <2>1, <1>0, <1>b DEF TypeOK, RInv, InLine, Stage, Connected, Answered, BeforeRoute, FrontDoor, Closing, input, context, outcome, admission, authority
  <2>5. Entitled(r)'
    BY <2>1, <1>0, <1>b DEF TypeOK, RInv, Stage, Connected, Entitled, BeforeRoute, FrontDoor, Closing, input, context, outcome, admission, authority
  <2>6. Placed(r)'
    BY <2>1, <1>0, <1>b DEF TypeOK, RInv, InLine, Stage, Connected, Placed, BeforeRoute, FrontDoor, Closing, input, context, outcome, admission, authority
  <2> QED
    BY <2>2, <2>3, <2>4, <2>5, <2>6 DEF RInv
<1>4. ASSUME NEW s \in Requests, s # r PROVE RInv(s)'
  <2>1. Aside(s)
    BY <1>4, <1>0, <1>b DEF IInv, TypeOK, Aside, input, context, outcome, admission, authority
  <2> QED
    BY <2>1, AsideKeeps DEF IInv
<1> QED
  BY <1>1, <1>2, <1>3, <1>4 DEF IInv

LEMMA WaitTimesOutKeeps == ASSUME IInv, NEW r \in Requests, WaitTimesOut(r) PROVE IInv'
<1>0. /\ Leave(waiters, r) \in Seq(Requests) /\ NoRepeat(Leave(waiters, r))
      /\ Elements(Leave(waiters, r)) = Elements(waiters) \ {r}
      /\ Leave(waiters, r) # <<>> => waiters # <<>>
  BY LeaveLine DEF IInv, TypeOK, Lines
<1>1. TypeOK'
  BY <1>0 DEF IInv, TypeOK, Steps, Ends, Closing, Kinds, FrontDoor, input, context, outcome, admission, authority, WaitTimesOut, Fail, Answer, Go
<1>2. Lines'
  BY <1>0 DEF IInv, Lines, NoIdlePlace, input, context, outcome, admission, authority, WaitTimesOut, Fail, Answer, Go
<1>3. RInv(r)'
  <2>1. RInv(r) /\ TypeOK
    BY <1>0 DEF IInv
  <2>2. InLine(r)' /\ Connected(r)'
    BY <2>1, <1>0 DEF TypeOK, RInv, InLine, Stage, Connected, BeforeRoute, FrontDoor, Closing, input, context, outcome, admission, authority, WaitTimesOut, Fail, Answer, Go
  <2>3. Stage(r)'
    BY <2>1, <1>0 DEF TypeOK, RInv, InLine, Stage, Connected, BeforeRoute, FrontDoor, Closing, input, context, outcome, admission, authority, WaitTimesOut, Fail, Answer, Go
  <2>4. Answered(r)'
    BY <2>1, <1>0 DEF TypeOK, RInv, InLine, Stage, Connected, Answered, BeforeRoute, FrontDoor, Closing, input, context, outcome, admission, authority, WaitTimesOut, Fail, Answer, Go
  <2>5. Entitled(r)'
    BY <2>1, <1>0 DEF TypeOK, RInv, Stage, Connected, Entitled, BeforeRoute, FrontDoor, Closing, input, context, outcome, admission, authority, WaitTimesOut, Fail, Answer, Go
  <2>6. Placed(r)'
    BY <2>1, <1>0 DEF TypeOK, RInv, InLine, Stage, Connected, Placed, BeforeRoute, FrontDoor, Closing, input, context, outcome, admission, authority, WaitTimesOut, Fail, Answer, Go
  <2> QED
    BY <2>2, <2>3, <2>4, <2>5, <2>6 DEF RInv
<1>4. ASSUME NEW s \in Requests, s # r PROVE RInv(s)'
  <2>1. Aside(s)
    BY <1>4, <1>0 DEF IInv, TypeOK, Aside, input, context, outcome, admission, authority, WaitTimesOut, Fail, Answer, Go
  <2> QED
    BY <2>1, AsideKeeps DEF IInv
<1> QED
  BY <1>1, <1>2, <1>3, <1>4 DEF IInv

LEMMA ClientGoneKeeps == ASSUME IInv, NEW r \in Requests, ClientGone(r) PROVE IInv'
<1>0. /\ Leave(waiters, r) \in Seq(Requests) /\ NoRepeat(Leave(waiters, r))
      /\ Elements(Leave(waiters, r)) = Elements(waiters) \ {r}
      /\ Leave(waiters, r) # <<>> => waiters # <<>>
  BY LeaveLine DEF IInv, TypeOK, Lines
<1>1. TypeOK'
  BY <1>0, ZenonT(40) DEF IInv, TypeOK, Steps, Ends, Closing, Kinds, FrontDoor, input, context, outcome, admission, authority, ClientGone, Idle, Fail, Answer, Go
<1>2. Lines'
  BY <1>0 DEF IInv, Lines, NoIdlePlace, input, context, outcome, admission, authority, ClientGone, Idle, Fail, Answer, Go
<1>3. RInv(r)'
  <2>1. RInv(r) /\ TypeOK
    BY <1>0 DEF IInv
  <2>2. InLine(r)' /\ Connected(r)'
    BY <2>1, <1>0 DEF TypeOK, RInv, InLine, Stage, Connected, BeforeRoute, FrontDoor, Closing, input, context, outcome, admission, authority, ClientGone, Idle, Fail, Answer, Go
  <2>3. Stage(r)'
    BY <2>1, <1>0 DEF TypeOK, RInv, InLine, Stage, Connected, BeforeRoute, FrontDoor, Closing, input, context, outcome, admission, authority, ClientGone, Idle, Fail, Answer, Go
  <2>4. Answered(r)'
    BY <2>1, <1>0 DEF TypeOK, RInv, InLine, Stage, Connected, Answered, BeforeRoute, FrontDoor, Closing, input, context, outcome, admission, authority, ClientGone, Idle, Fail, Answer, Go
  <2>5. Entitled(r)'
    BY <2>1, <1>0 DEF TypeOK, RInv, Stage, Connected, Entitled, BeforeRoute, FrontDoor, Closing, input, context, outcome, admission, authority, ClientGone, Idle, Fail, Answer, Go
  <2>6. Placed(r)'
    BY <2>1, <1>0 DEF TypeOK, RInv, InLine, Stage, Connected, Placed, BeforeRoute, FrontDoor, Closing, input, context, outcome, admission, authority, ClientGone, Idle, Fail, Answer, Go
  <2> QED
    BY <2>2, <2>3, <2>4, <2>5, <2>6 DEF RInv
<1>4. ASSUME NEW s \in Requests, s # r PROVE RInv(s)'
  <2>1. Aside(s)
    BY <1>4, <1>0 DEF IInv, TypeOK, Aside, input, context, outcome, admission, authority, ClientGone, Idle, Fail, Answer, Go
  <2> QED
    BY <2>1, AsideKeeps DEF IInv
<1> QED
  BY <1>1, <1>2, <1>3, <1>4 DEF IInv

LEMMA OpenFailsKeeps == ASSUME IInv, NEW r \in Requests, OpenFails(r) PROVE IInv'
<1>0. /\ Lines'
      /\ leases' \in SUBSET Requests /\ waiters' \in Seq(Requests)
      /\ pc' \in [Requests -> Steps]
      /\ r \notin leases' /\ pc'[r] = "error" /\ r \notin Elements(waiters')
      /\ \A s \in Requests \ {r} :
           \/ pc'[s] = pc[s] /\ (s \in leases' <=> s \in leases) /\ (s \in Elements(waiters') <=> s \in Elements(waiters))
           \/ pc[s] = "waiting" /\ pc'[s] = "granted" /\ s \in leases' /\ s \notin Elements(waiters')
  <2>1. Release(r, "error") /\ "error" \in Steps /\ pc[r] # "waiting" /\ NoRepeat(queue')
    BY DEF OpenFails, Abandon, Opening, Steps, IInv, Lines
  <2>2. r \notin Elements(waiters)
    BY <2>1 DEF IInv, RInv, InLine
  <2> QED
    BY <2>1, <2>2, ReleaseStep
<1>b. /\ pc[r] \in {"discover", "validate", "load"}
      /\ UNCHANGED <<input, started, gone, attempt, members, moves, status, context, queue>>
      /\ held' = held \ {r} /\ since' = [since EXCEPT ![r] = {}]
      /\ effects' = [effects EXCEPT ![r] = "none"] /\ reply' = [reply EXCEPT ![r] = "error"]
  BY DEF OpenFails, Abandon, Opening, Answer
<1>1. TypeOK'
  BY <1>0, <1>b DEF IInv, TypeOK, Steps, Ends, Closing, Kinds, FrontDoor, input, context, outcome, admission, authority, Opening
<1>2. Lines'
  BY <1>0, <1>b DEF IInv, Lines, NoIdlePlace, input, context, outcome, admission, authority, Opening
<1>3. RInv(r)'
  <2>1. RInv(r) /\ TypeOK
    BY <1>0, <1>b DEF IInv
  <2>2. InLine(r)' /\ Connected(r)'
    BY <2>1, <1>0, <1>b DEF TypeOK, RInv, InLine, Stage, Connected, BeforeRoute, FrontDoor, Closing, input, context, outcome, admission, authority, Opening
  <2>3. Stage(r)'
    BY <2>1, <1>0, <1>b DEF TypeOK, RInv, InLine, Stage, Connected, BeforeRoute, FrontDoor, Closing, input, context, outcome, admission, authority, Opening
  <2>4. Answered(r)'
    BY <2>1, <1>0, <1>b DEF TypeOK, RInv, InLine, Stage, Connected, Answered, BeforeRoute, FrontDoor, Closing, input, context, outcome, admission, authority, Opening
  <2>5. Entitled(r)'
    BY <2>1, <1>0, <1>b DEF TypeOK, RInv, Stage, Connected, Entitled, BeforeRoute, FrontDoor, Closing, input, context, outcome, admission, authority, Opening
  <2>6. Placed(r)'
    BY <2>1, <1>0, <1>b DEF TypeOK, RInv, InLine, Stage, Connected, Placed, BeforeRoute, FrontDoor, Closing, input, context, outcome, admission, authority, Opening
  <2> QED
    BY <2>2, <2>3, <2>4, <2>5, <2>6 DEF RInv
<1>4. ASSUME NEW s \in Requests, s # r PROVE RInv(s)'
  <2>1. Aside(s)
    BY <1>4, <1>0, <1>b DEF IInv, TypeOK, Aside, input, context, outcome, admission, authority, Opening
  <2> QED
    BY <2>1, AsideKeeps DEF IInv
<1> QED
  BY <1>1, <1>2, <1>3, <1>4 DEF IInv

LEMMA AcquireAdmissionKeeps == ASSUME IInv, NEW r \in Requests, AcquireAdmission(r) PROVE IInv'
<1>a. kind[r] = "download" /\ pc[r] = "new" /\ r \notin Elements(waiters) /\ r \notin leases
      /\ UNCHANGED <<input, status, started, gone, context, effects, attempt, held, queue, authority>>
  BY DEF AcquireAdmission, Begun, IInv, RInv, InLine, Placed
<1>b. /\ Append(waiters, r) \in Seq(Requests) /\ NoRepeat(Append(waiters, r))
      /\ Elements(Append(waiters, r)) = Elements(waiters) \cup {r}
  BY <1>a, AppendLine DEF IInv, TypeOK, Lines
<1>c. Cardinality(leases) \in Nat /\ Cardinality(leases) <= Capacity /\ Capacity \in Nat /\ IsFiniteSet(leases)
  <2>1. IsFiniteSet(leases) /\ Cardinality(leases) <= Capacity
    BY FS_Subset, TenantRequestAssumption DEF IInv, TypeOK, Lines
  <2> QED
    BY <2>1, FS_CardinalityType, CapacityType
<1>0. /\ leases' \in SUBSET Requests /\ waiters' \in Seq(Requests) /\ NoRepeat(waiters')
      /\ Cardinality(leases') <= Capacity /\ (waiters' # <<>> => Cardinality(leases') = Capacity)
      /\ \/ /\ pc' = [pc EXCEPT ![r] = "error"] /\ reply' = [reply EXCEPT ![r] = "error"]
            /\ leases' = leases /\ waiters' = waiters
         \/ /\ pc' = [pc EXCEPT ![r] = "granted"] /\ reply' = reply
            /\ leases' = leases \cup {r} /\ waiters' = waiters
         \/ /\ pc' = [pc EXCEPT ![r] = "waiting"] /\ reply' = reply
            /\ leases' = leases /\ Elements(waiters') = Elements(waiters) \cup {r}
  <2>1. CASE Fail(r) /\ UNCHANGED admission
    BY <2>1 DEF Fail, Go, Answer, admission, IInv, TypeOK, Lines, NoIdlePlace
  <2>2. CASE waiters = <<>> /\ Cardinality(leases) < Capacity /\ leases' = leases \cup {r}
             /\ Go(r, "granted") /\ UNCHANGED <<waiters, reply>>
    <3>1. Cardinality(leases') = Cardinality(leases) + 1
      BY <2>2, <1>a, <1>c, FS_AddElement
    <3>2. Cardinality(leases') <= Capacity
      BY <3>1, <2>2, <1>c
    <3> QED
      BY <3>2, <2>2 DEF Go, IInv, TypeOK, Lines
  <2>3. CASE (waiters # <<>> \/ Cardinality(leases) >= Capacity)
             /\ Drain(leases, Append(waiters, r), r, "waiting") /\ UNCHANGED reply
    <3>1. Cardinality(leases) = Capacity
      BY <2>3, <1>c DEF IInv, Lines, NoIdlePlace
    <3>2. Admitted(leases, Append(waiters, r)) = {}
      BY <3>1, <1>c DEF Admitted
    <3>3. Cardinality(Admitted(leases, Append(waiters, r))) = 0
      BY <3>2, FS_EmptySet
    <3>4. SubSeq(Append(waiters, r), 1, Len(Append(waiters, r))) = Append(waiters, r)
      BY <1>b
    <3>5. leases' = leases /\ waiters' = Append(waiters, r) /\ pc' = [pc EXCEPT ![r] = "waiting"]
      <4>1. /\ leases' = leases \cup {} /\ waiters' = SubSeq(Append(waiters, r), 0 + 1, Len(Append(waiters, r)))
            /\ pc' = [s \in Requests |-> IF s \in {} THEN "granted" ELSE IF s = r THEN "waiting" ELSE pc[s]]
        BY <2>3, <3>2, <3>3 DEF Drain
      <4>2. pc \in [Requests -> Steps]
        BY DEF IInv, TypeOK
      <4>3. leases' = leases /\ waiters' = Append(waiters, r)
        BY <4>1, <3>4
      <4>4. pc' = [pc EXCEPT ![r] = "waiting"]
        BY <4>1, <4>2
      <4> QED
        BY <4>3, <4>4
    <3> QED
      BY <2>3, <3>1, <3>5, <1>b, <1>c DEF IInv, TypeOK
  <2> QED
    BY <2>1, <2>2, <2>3 DEF AcquireAdmission
<1>1. TypeOK'
  BY <1>a, <1>0 DEF IInv, TypeOK, Steps, Ends, Closing, Kinds, FrontDoor, input, context, outcome, admission, authority
<1>2. Lines'
  BY <1>a, <1>0 DEF IInv, Lines, NoIdlePlace, input, context, outcome, admission, authority
<1>3. RInv(r)'
  <2>1. RInv(r) /\ TypeOK
    BY <1>a, <1>0 DEF IInv
  <2>2. InLine(r)' /\ Connected(r)'
    BY <2>1, <1>a, <1>0 DEF TypeOK, RInv, InLine, Stage, Connected, BeforeRoute, FrontDoor, Closing, input, context, outcome, admission, authority
  <2>3. Stage(r)'
    BY <2>1, <1>a, <1>0 DEF TypeOK, RInv, InLine, Stage, Connected, BeforeRoute, FrontDoor, Closing, input, context, outcome, admission, authority
  <2>4. Answered(r)'
    BY <2>1, <1>a, <1>0 DEF TypeOK, RInv, InLine, Stage, Connected, Answered, BeforeRoute, FrontDoor, Closing, input, context, outcome, admission, authority
  <2>5. Entitled(r)'
    BY <2>1, <1>a, <1>0 DEF TypeOK, RInv, Stage, Connected, Entitled, BeforeRoute, FrontDoor, Closing, input, context, outcome, admission, authority
  <2>6. Placed(r)'
    BY <2>1, <1>a, <1>0 DEF TypeOK, RInv, InLine, Stage, Connected, Placed, BeforeRoute, FrontDoor, Closing, input, context, outcome, admission, authority
  <2> QED
    BY <2>2, <2>3, <2>4, <2>5, <2>6 DEF RInv
<1>4. ASSUME NEW s \in Requests, s # r PROVE RInv(s)'
  <2>1. Aside(s)
    BY <1>4, <1>a, <1>0 DEF IInv, TypeOK, Aside, input, context, outcome, admission, authority
  <2> QED
    BY <2>1, AsideKeeps DEF IInv
<1> QED
  BY <1>1, <1>2, <1>3, <1>4 DEF IInv

LEMMA ReserveGoneKeeps == ASSUME IInv, NEW r \in Requests, ReserveDownload(r), gone[r] PROVE IInv'
<1>0. /\ Lines'
      /\ leases' \in SUBSET Requests /\ waiters' \in Seq(Requests)
      /\ pc' \in [Requests -> Steps]
      /\ r \notin leases' /\ pc'[r] = "error" /\ r \notin Elements(waiters')
      /\ \A s \in Requests \ {r} :
           \/ pc'[s] = pc[s] /\ (s \in leases' <=> s \in leases) /\ (s \in Elements(waiters') <=> s \in Elements(waiters))
           \/ pc[s] = "waiting" /\ pc'[s] = "granted" /\ s \in leases' /\ s \notin Elements(waiters')
  <2>1. Release(r, "error") /\ "error" \in Steps /\ pc[r] = "granted" /\ NoRepeat(queue')
    BY DEF ReserveDownload, Steps, IInv, Lines
  <2>2. r \notin Elements(waiters)
    BY <2>1 DEF IInv, RInv, InLine
  <2> QED
    BY <2>1, <2>2, ReleaseStep
<1>b. /\ pc[r] = "granted" /\ reply' = [reply EXCEPT ![r] = "error"]
      /\ UNCHANGED <<input, status, started, gone, context, effects, attempt, held, queue, authority>>
  BY DEF ReserveDownload, Answer
<1>1. TypeOK'
  BY <1>0, <1>b DEF IInv, TypeOK, Steps, Ends, Closing, Kinds, FrontDoor, input, context, outcome, admission, authority
<1>2. Lines'
  BY <1>0, <1>b DEF IInv, Lines, NoIdlePlace, input, context, outcome, admission, authority
<1>3. RInv(r)'
  <2>1. RInv(r) /\ TypeOK
    BY <1>0, <1>b DEF IInv
  <2>2. InLine(r)' /\ Connected(r)'
    BY <2>1, <1>0, <1>b DEF TypeOK, RInv, InLine, Stage, Connected, BeforeRoute, FrontDoor, Closing, input, context, outcome, admission, authority
  <2>3. Stage(r)'
    BY <2>1, <1>0, <1>b DEF TypeOK, RInv, InLine, Stage, Connected, BeforeRoute, FrontDoor, Closing, input, context, outcome, admission, authority
  <2>4. Answered(r)'
    BY <2>1, <1>0, <1>b DEF TypeOK, RInv, InLine, Stage, Connected, Answered, BeforeRoute, FrontDoor, Closing, input, context, outcome, admission, authority
  <2>5. Entitled(r)'
    BY <2>1, <1>0, <1>b DEF TypeOK, RInv, Stage, Connected, Entitled, BeforeRoute, FrontDoor, Closing, input, context, outcome, admission, authority
  <2>6. Placed(r)'
    BY <2>1, <1>0, <1>b DEF TypeOK, RInv, InLine, Stage, Connected, Placed, BeforeRoute, FrontDoor, Closing, input, context, outcome, admission, authority
  <2> QED
    BY <2>2, <2>3, <2>4, <2>5, <2>6 DEF RInv
<1>4. ASSUME NEW s \in Requests, s # r PROVE RInv(s)'
  <2>1. Aside(s)
    BY <1>4, <1>0, <1>b DEF IInv, TypeOK, Aside, input, context, outcome, admission, authority
  <2> QED
    BY <2>1, AsideKeeps DEF IInv
<1> QED
  BY <1>1, <1>2, <1>3, <1>4 DEF IInv

LEMMA ReserveStaysKeeps == ASSUME IInv, NEW r \in Requests, ReserveDownload(r), ~gone[r] PROVE IInv'
<1>a. /\ Append(queue, r) \in Seq(Requests) /\ NoRepeat(Append(queue, r))
      /\ Elements(Append(queue, r)) = Elements(queue) \cup {r}
  BY AppendLine DEF IInv, TypeOK, Lines, RInv, InLine, ReserveDownload
<1>0. /\ pc[r] = "granted" /\ kind[r] = "download" /\ Go(r, "reserve")
      /\ UNCHANGED <<input, status, started, gone, context, effects, attempt, held, authority, reply, admission>>
      /\ queue' \in Seq(Requests) /\ NoRepeat(queue')
      /\ \A x : x \in Elements(queue') <=> x \in Elements(queue) \/ x = r
  BY <1>a DEF ReserveDownload, IInv, RInv, InLine
<1>1. TypeOK'
  BY <1>0 DEF IInv, TypeOK, Steps, Ends, Closing, Kinds, FrontDoor, input, context, outcome, admission, authority, Go
<1>2. Lines'
  BY <1>0 DEF IInv, Lines, NoIdlePlace, input, context, outcome, admission, authority, Go
<1>3. RInv(r)'
  <2>1. RInv(r) /\ TypeOK
    BY <1>0 DEF IInv
  <2>2. InLine(r)' /\ Connected(r)'
    BY <2>1, <1>0 DEF TypeOK, RInv, InLine, Stage, Connected, BeforeRoute, FrontDoor, Closing, input, context, outcome, admission, authority, Go
  <2>3. Stage(r)'
    BY <2>1, <1>0 DEF TypeOK, RInv, InLine, Stage, Connected, BeforeRoute, FrontDoor, Closing, input, context, outcome, admission, authority, Go
  <2>4. Answered(r)'
    BY <2>1, <1>0 DEF TypeOK, RInv, InLine, Stage, Connected, Answered, BeforeRoute, FrontDoor, Closing, input, context, outcome, admission, authority, Go
  <2>5. Entitled(r)'
    BY <2>1, <1>0 DEF TypeOK, RInv, Stage, Connected, Entitled, BeforeRoute, FrontDoor, Closing, input, context, outcome, admission, authority, Go
  <2>6. Placed(r)'
    BY <2>1, <1>0 DEF TypeOK, RInv, InLine, Stage, Connected, Placed, BeforeRoute, FrontDoor, Closing, input, context, outcome, admission, authority, Go
  <2> QED
    BY <2>2, <2>3, <2>4, <2>5, <2>6 DEF RInv
<1>4. ASSUME NEW s \in Requests, s # r PROVE RInv(s)'
  <2>1. Aside(s)
    BY <1>4, <1>0 DEF IInv, TypeOK, Aside, input, context, outcome, admission, authority, Go
  <2> QED
    BY <2>1, AsideKeeps DEF IInv
<1> QED
  BY <1>1, <1>2, <1>3, <1>4 DEF IInv

LEMMA PoolServesReservedKeeps == ASSUME IInv, NEW r \in Requests, r = Head(queue), PoolServes, pc[r] = "reserve" PROVE IInv'
<1>a. /\ queue' \in Seq(Requests) /\ NoRepeat(queue')
      /\ \A x : x \in Elements(queue') <=> x \in Elements(queue) /\ x # r
      /\ r \in Elements(queue)
  <2>1. queue \in Seq(Requests) /\ NoRepeat(queue) /\ queue # <<>> /\ queue' = Tail(queue)
    BY DEF IInv, TypeOK, Lines, PoolServes
  <2> QED
    BY <2>1, TailLine
<1>0. /\ held' = held \cup {r}
      /\ since' = [since EXCEPT ![r] = members]
      /\ effects' = [effects EXCEPT ![r] = "pending"]
      /\ pc' = [pc EXCEPT ![r] = IF kind[r] \in FrontDoor THEN "discover" ELSE "validate"]
      /\ UNCHANGED <<input, status, started, gone, context, reply, attempt, admission, members, moves>>
  BY DEF PoolServes, Go
<1>1. TypeOK'
  BY <1>a, <1>0 DEF IInv, TypeOK, Steps, Ends, Closing, Kinds, FrontDoor, input, context, outcome, admission, authority
<1>2. Lines'
  BY <1>a, <1>0 DEF IInv, Lines, NoIdlePlace, input, context, outcome, admission, authority
<1>3. RInv(r)'
  <2>1. RInv(r) /\ TypeOK
    BY <1>a, <1>0 DEF IInv
  <2>2. InLine(r)' /\ Connected(r)'
    BY <2>1, <1>a, <1>0 DEF TypeOK, RInv, InLine, Stage, Connected, BeforeRoute, FrontDoor, Closing, input, context, outcome, admission, authority
  <2>3. Stage(r)'
    BY <2>1, <1>a, <1>0 DEF TypeOK, RInv, InLine, Stage, Connected, BeforeRoute, FrontDoor, Closing, input, context, outcome, admission, authority
  <2>4. Answered(r)'
    BY <2>1, <1>a, <1>0 DEF TypeOK, RInv, InLine, Stage, Connected, Answered, BeforeRoute, FrontDoor, Closing, input, context, outcome, admission, authority
  <2>5. Entitled(r)'
    BY <2>1, <1>a, <1>0 DEF TypeOK, RInv, Stage, Connected, Entitled, BeforeRoute, FrontDoor, Closing, input, context, outcome, admission, authority
  <2>6. Placed(r)'
    BY <2>1, <1>a, <1>0 DEF TypeOK, RInv, InLine, Stage, Connected, Placed, BeforeRoute, FrontDoor, Closing, input, context, outcome, admission, authority
  <2> QED
    BY <2>2, <2>3, <2>4, <2>5, <2>6 DEF RInv
<1>4. ASSUME NEW s \in Requests, s # r PROVE RInv(s)'
  <2>1. Aside(s)
    BY <1>4, <1>a, <1>0 DEF IInv, TypeOK, Aside, input, context, outcome, admission, authority
  <2> QED
    BY <2>1, AsideKeeps DEF IInv
<1> QED
  BY <1>1, <1>2, <1>3, <1>4 DEF IInv

LEMMA PoolGivesBackKeeps == ASSUME IInv, NEW r \in Requests, r = Head(queue), PoolServes, pc[r] # "reserve" PROVE IInv'
<1>a. /\ queue' \in Seq(Requests) /\ NoRepeat(queue')
      /\ \A x : x \in Elements(queue') <=> x \in Elements(queue) /\ x # r
      /\ r \in Elements(queue)
  <2>1. queue \in Seq(Requests) /\ NoRepeat(queue) /\ queue # <<>> /\ queue' = Tail(queue)
    BY DEF IInv, TypeOK, Lines, PoolServes
  <2> QED
    BY <2>1, TailLine
<1>b. pc[r] # "waiting" /\ r \notin Elements(waiters) /\ NoRepeat(queue')
  BY <1>a DEF IInv, RInv, InLine
<1>0. /\ Lines'
      /\ leases' \in SUBSET Requests /\ waiters' \in Seq(Requests)
      /\ pc' \in [Requests -> Steps]
      /\ r \notin leases' /\ pc'[r] = pc[r] /\ r \notin Elements(waiters')
      /\ \A s \in Requests \ {r} :
           \/ pc'[s] = pc[s] /\ (s \in leases' <=> s \in leases) /\ (s \in Elements(waiters') <=> s \in Elements(waiters))
           \/ pc[s] = "waiting" /\ pc'[s] = "granted" /\ s \in leases' /\ s \notin Elements(waiters')
  <2>1. Release(r, pc[r]) /\ pc[r] \in Steps
    BY DEF PoolServes, IInv, TypeOK
  <2> QED
    BY <1>b, <2>1, ReleaseStep
<1>c. UNCHANGED <<input, status, started, gone, context, outcome, attempt, held, authority>>
  BY DEF PoolServes, outcome, authority
<1>1. TypeOK'
  BY <1>a, <1>0, <1>c DEF IInv, TypeOK, Steps, Ends, Closing, Kinds, FrontDoor, input, context, outcome, admission, authority
<1>2. Lines'
  BY <1>a, <1>0, <1>c DEF IInv, Lines, NoIdlePlace, input, context, outcome, admission, authority
<1>3. RInv(r)'
  <2>1. RInv(r) /\ TypeOK
    BY <1>a, <1>0, <1>c DEF IInv
  <2>2. InLine(r)' /\ Connected(r)'
    BY <2>1, <1>a, <1>0, <1>c DEF TypeOK, RInv, InLine, Stage, Connected, BeforeRoute, FrontDoor, Closing, input, context, outcome, admission, authority
  <2>3. Stage(r)'
    BY <2>1, <1>a, <1>0, <1>c DEF TypeOK, RInv, InLine, Stage, Connected, BeforeRoute, FrontDoor, Closing, input, context, outcome, admission, authority
  <2>4. Answered(r)'
    BY <2>1, <1>a, <1>0, <1>c DEF TypeOK, RInv, InLine, Stage, Connected, Answered, BeforeRoute, FrontDoor, Closing, input, context, outcome, admission, authority
  <2>5. Entitled(r)'
    BY <2>1, <1>a, <1>0, <1>c DEF TypeOK, RInv, Stage, Connected, Entitled, BeforeRoute, FrontDoor, Closing, input, context, outcome, admission, authority
  <2>6. Placed(r)'
    BY <2>1, <1>a, <1>0, <1>c DEF TypeOK, RInv, InLine, Stage, Connected, Placed, BeforeRoute, FrontDoor, Closing, input, context, outcome, admission, authority
  <2> QED
    BY <2>2, <2>3, <2>4, <2>5, <2>6 DEF RInv
<1>4. ASSUME NEW s \in Requests, s # r PROVE RInv(s)'
  <2>1. Aside(s)
    BY <1>4, <1>a, <1>0, <1>c DEF IInv, TypeOK, Aside, input, context, outcome, admission, authority
  <2> QED
    BY <2>1, AsideKeeps DEF IInv
<1> QED
  BY <1>1, <1>2, <1>3, <1>4 DEF IInv

LEMMA PoolRefusesReservedKeeps == ASSUME IInv, NEW r \in Requests, r = Head(queue), PoolRefuses, pc[r] = "reserve" PROVE IInv'
<1>a. /\ queue' \in Seq(Requests) /\ NoRepeat(queue')
      /\ \A x : x \in Elements(queue') <=> x \in Elements(queue) /\ x # r
      /\ r \in Elements(queue)
  <2>1. queue \in Seq(Requests) /\ NoRepeat(queue) /\ queue # <<>> /\ queue' = Tail(queue)
    BY DEF IInv, TypeOK, Lines, PoolRefuses
  <2> QED
    BY <2>1, TailLine
<1>b. pc[r] # "waiting" /\ r \notin Elements(waiters) /\ NoRepeat(queue')
  BY <1>a DEF IInv, RInv, InLine
<1>0. /\ Lines'
      /\ leases' \in SUBSET Requests /\ waiters' \in Seq(Requests)
      /\ pc' \in [Requests -> Steps]
      /\ r \notin leases' /\ pc'[r] = "error" /\ r \notin Elements(waiters')
      /\ \A s \in Requests \ {r} :
           \/ pc'[s] = pc[s] /\ (s \in leases' <=> s \in leases) /\ (s \in Elements(waiters') <=> s \in Elements(waiters))
           \/ pc[s] = "waiting" /\ pc'[s] = "granted" /\ s \in leases' /\ s \notin Elements(waiters')
  <2>1. Release(r, "error") /\ "error" \in Steps
    BY DEF PoolRefuses, IInv, TypeOK, Steps
  <2> QED
    BY <1>b, <2>1, ReleaseStep
<1>c. /\ UNCHANGED <<input, status, started, gone, context, effects, attempt, held, authority>>
      /\ reply' = [reply EXCEPT ![r] = "error"]
  BY DEF PoolRefuses, Answer
<1>1. TypeOK'
  BY <1>a, <1>0, <1>c DEF IInv, TypeOK, Steps, Ends, Closing, Kinds, FrontDoor, input, context, outcome, admission, authority
<1>2. Lines'
  BY <1>a, <1>0, <1>c DEF IInv, Lines, NoIdlePlace, input, context, outcome, admission, authority
<1>3. RInv(r)'
  <2>1. RInv(r) /\ TypeOK
    BY <1>a, <1>0, <1>c DEF IInv
  <2>2. InLine(r)' /\ Connected(r)'
    BY <2>1, <1>a, <1>0, <1>c DEF TypeOK, RInv, InLine, Stage, Connected, BeforeRoute, FrontDoor, Closing, input, context, outcome, admission, authority
  <2>3. Stage(r)'
    BY <2>1, <1>a, <1>0, <1>c DEF TypeOK, RInv, InLine, Stage, Connected, BeforeRoute, FrontDoor, Closing, input, context, outcome, admission, authority
  <2>4. Answered(r)'
    BY <2>1, <1>a, <1>0, <1>c DEF TypeOK, RInv, InLine, Stage, Connected, Answered, BeforeRoute, FrontDoor, Closing, input, context, outcome, admission, authority
  <2>5. Entitled(r)'
    BY <2>1, <1>a, <1>0, <1>c DEF TypeOK, RInv, Stage, Connected, Entitled, BeforeRoute, FrontDoor, Closing, input, context, outcome, admission, authority
  <2>6. Placed(r)'
    BY <2>1, <1>a, <1>0, <1>c DEF TypeOK, RInv, InLine, Stage, Connected, Placed, BeforeRoute, FrontDoor, Closing, input, context, outcome, admission, authority
  <2> QED
    BY <2>2, <2>3, <2>4, <2>5, <2>6 DEF RInv
<1>4. ASSUME NEW s \in Requests, s # r PROVE RInv(s)'
  <2>1. Aside(s)
    BY <1>4, <1>a, <1>0, <1>c DEF IInv, TypeOK, Aside, input, context, outcome, admission, authority
  <2> QED
    BY <2>1, AsideKeeps DEF IInv
<1> QED
  BY <1>1, <1>2, <1>3, <1>4 DEF IInv

LEMMA PoolRefusesAbandonedKeeps == ASSUME IInv, NEW r \in Requests, r = Head(queue), PoolRefuses, pc[r] # "reserve" PROVE IInv'
<1>a. /\ queue' \in Seq(Requests) /\ NoRepeat(queue')
      /\ \A x : x \in Elements(queue') <=> x \in Elements(queue) /\ x # r
      /\ r \in Elements(queue)
  <2>1. queue \in Seq(Requests) /\ NoRepeat(queue) /\ queue # <<>> /\ queue' = Tail(queue)
    BY DEF IInv, TypeOK, Lines, PoolRefuses
  <2> QED
    BY <2>1, TailLine
<1>b. pc[r] # "waiting" /\ r \notin Elements(waiters) /\ NoRepeat(queue')
  BY <1>a DEF IInv, RInv, InLine
<1>0. /\ Lines'
      /\ leases' \in SUBSET Requests /\ waiters' \in Seq(Requests)
      /\ pc' \in [Requests -> Steps]
      /\ r \notin leases' /\ pc'[r] = pc[r] /\ r \notin Elements(waiters')
      /\ \A s \in Requests \ {r} :
           \/ pc'[s] = pc[s] /\ (s \in leases' <=> s \in leases) /\ (s \in Elements(waiters') <=> s \in Elements(waiters))
           \/ pc[s] = "waiting" /\ pc'[s] = "granted" /\ s \in leases' /\ s \notin Elements(waiters')
  <2>1. Release(r, pc[r]) /\ pc[r] \in Steps
    BY DEF PoolRefuses, IInv, TypeOK, Steps
  <2> QED
    BY <1>b, <2>1, ReleaseStep
<1>c. /\ UNCHANGED <<input, status, started, gone, context, effects, attempt, held, authority>>
      /\ reply' = reply
  BY DEF PoolRefuses, Answer
<1>1. TypeOK'
  BY <1>a, <1>0, <1>c DEF IInv, TypeOK, Steps, Ends, Closing, Kinds, FrontDoor, input, context, outcome, admission, authority
<1>2. Lines'
  BY <1>a, <1>0, <1>c DEF IInv, Lines, NoIdlePlace, input, context, outcome, admission, authority
<1>3. RInv(r)'
  <2>1. RInv(r) /\ TypeOK
    BY <1>a, <1>0, <1>c DEF IInv
  <2>2. InLine(r)' /\ Connected(r)'
    BY <2>1, <1>a, <1>0, <1>c DEF TypeOK, RInv, InLine, Stage, Connected, BeforeRoute, FrontDoor, Closing, input, context, outcome, admission, authority
  <2>3. Stage(r)'
    BY <2>1, <1>a, <1>0, <1>c DEF TypeOK, RInv, InLine, Stage, Connected, BeforeRoute, FrontDoor, Closing, input, context, outcome, admission, authority
  <2>4. Answered(r)'
    BY <2>1, <1>a, <1>0, <1>c DEF TypeOK, RInv, InLine, Stage, Connected, Answered, BeforeRoute, FrontDoor, Closing, input, context, outcome, admission, authority
  <2>5. Entitled(r)'
    BY <2>1, <1>a, <1>0, <1>c DEF TypeOK, RInv, Stage, Connected, Entitled, BeforeRoute, FrontDoor, Closing, input, context, outcome, admission, authority
  <2>6. Placed(r)'
    BY <2>1, <1>a, <1>0, <1>c DEF TypeOK, RInv, InLine, Stage, Connected, Placed, BeforeRoute, FrontDoor, Closing, input, context, outcome, admission, authority
  <2> QED
    BY <2>2, <2>3, <2>4, <2>5, <2>6 DEF RInv
<1>4. ASSUME NEW s \in Requests, s # r PROVE RInv(s)'
  <2>1. Aside(s)
    BY <1>4, <1>a, <1>0, <1>c DEF IInv, TypeOK, Aside, input, context, outcome, admission, authority
  <2> QED
    BY <2>1, AsideKeeps DEF IInv
<1> QED
  BY <1>1, <1>2, <1>3, <1>4 DEF IInv

LEMMA EndSucceedsKeeps == ASSUME IInv, NEW r \in Requests, EndSucceeds(r) PROVE IInv'
<1>a. status[r] \in Closing /\ pc[r] # "waiting" /\ NoRepeat(queue') /\ r \notin Elements(waiters)
  BY DEF EndSucceeds, Ended, Closing, IInv, Lines, RInv, InLine, Stage, BeforeRoute
<1>0. /\ Lines'
      /\ leases' \in SUBSET Requests /\ waiters' \in Seq(Requests)
      /\ pc' \in [Requests -> Steps]
      /\ r \notin leases' /\ pc'[r] = Awaited(r) /\ r \notin Elements(waiters')
      /\ \A s \in Requests \ {r} :
           \/ pc'[s] = pc[s] /\ (s \in leases' <=> s \in leases) /\ (s \in Elements(waiters') <=> s \in Elements(waiters))
           \/ pc[s] = "waiting" /\ pc'[s] = "granted" /\ s \in leases' /\ s \notin Elements(waiters')
  <2>1. Release(r, Awaited(r)) /\ Awaited(r) \in Steps
    BY DEF EndSucceeds, AfterFailedEnd, Awaited, Steps, Ends, IInv, TypeOK
  <2> QED
    BY <1>a, <2>1, ReleaseStep
<1>c. /\ status' = [status EXCEPT ![r] = "closed"] /\ held' = held \ {r} /\ since' = [since EXCEPT ![r] = {}]
      /\ UNCHANGED <<input, started, gone, context, attempt, queue, members, moves>>
      /\ effects' = [effects EXCEPT ![r] = IF status[r] = "committing" THEN "durable" ELSE "none"]
      /\ reply' = reply
  BY DEF EndSucceeds, Ended
<1>1. TypeOK'
  BY <1>a, <1>0, <1>c DEF IInv, TypeOK, Steps, Ends, Closing, Kinds, FrontDoor, input, context, outcome, admission, authority, Awaited
<1>2. Lines'
  BY <1>a, <1>0, <1>c DEF IInv, Lines, NoIdlePlace, input, context, outcome, admission, authority, Awaited
<1>3. RInv(r)'
  <2>1. RInv(r) /\ TypeOK
    BY <1>a, <1>0, <1>c DEF IInv
  <2>2. InLine(r)' /\ Connected(r)'
    BY <2>1, <1>a, <1>0, <1>c DEF TypeOK, RInv, InLine, Stage, Connected, BeforeRoute, FrontDoor, Closing, input, context, outcome, admission, authority, Awaited
  <2>3. Stage(r)'
    BY <2>1, <1>a, <1>0, <1>c DEF TypeOK, RInv, InLine, Stage, Connected, BeforeRoute, FrontDoor, Closing, input, context, outcome, admission, authority, Awaited
  <2>4. Answered(r)'
    BY <2>1, <1>a, <1>0, <1>c DEF TypeOK, RInv, InLine, Stage, Connected, Answered, BeforeRoute, FrontDoor, Closing, input, context, outcome, admission, authority, Awaited
  <2>5. Entitled(r)'
    BY <2>1, <1>a, <1>0, <1>c DEF TypeOK, RInv, Stage, Connected, Entitled, BeforeRoute, FrontDoor, Closing, input, context, outcome, admission, authority, Awaited
  <2>6. Placed(r)'
    BY <2>1, <1>a, <1>0, <1>c DEF TypeOK, RInv, InLine, Stage, Connected, Placed, BeforeRoute, FrontDoor, Closing, input, context, outcome, admission, authority, Awaited
  <2> QED
    BY <2>2, <2>3, <2>4, <2>5, <2>6 DEF RInv
<1>4. ASSUME NEW s \in Requests, s # r PROVE RInv(s)'
  <2>1. Aside(s)
    BY <1>4, <1>a, <1>0, <1>c DEF IInv, TypeOK, Aside, input, context, outcome, admission, authority, Awaited
  <2> QED
    BY <2>1, AsideKeeps DEF IInv
<1> QED
  BY <1>1, <1>2, <1>3, <1>4 DEF IInv

LEMMA EndFailsAwaitedKeeps == ASSUME IInv, NEW r \in Requests, EndFails(r), pc[r] \in {"endGap", "endReopen", "endRespond"} PROVE IInv'
<1>a. status[r] \in Closing /\ pc[r] # "waiting" /\ NoRepeat(queue') /\ r \notin Elements(waiters)
  BY DEF EndFails, Ended, Closing, IInv, Lines, RInv, InLine, Stage, BeforeRoute
<1>0. /\ Lines'
      /\ leases' \in SUBSET Requests /\ waiters' \in Seq(Requests)
      /\ pc' \in [Requests -> Steps]
      /\ r \notin leases' /\ pc'[r] = "error" /\ r \notin Elements(waiters')
      /\ \A s \in Requests \ {r} :
           \/ pc'[s] = pc[s] /\ (s \in leases' <=> s \in leases) /\ (s \in Elements(waiters') <=> s \in Elements(waiters))
           \/ pc[s] = "waiting" /\ pc'[s] = "granted" /\ s \in leases' /\ s \notin Elements(waiters')
  <2>1. Release(r, "error") /\ "error" \in Steps
    BY DEF EndFails, AfterFailedEnd, Awaited, Steps, Ends, IInv, TypeOK
  <2> QED
    BY <1>a, <2>1, ReleaseStep
<1>c. /\ status' = [status EXCEPT ![r] = "closed"] /\ held' = held \ {r} /\ since' = [since EXCEPT ![r] = {}]
      /\ UNCHANGED <<input, started, gone, context, attempt, queue, members, moves>>
      /\ reply' = [reply EXCEPT ![r] = IF status[r] = "committing" THEN "failed" ELSE "error"]
  BY DEF EndFails, Ended, AfterFailedEnd, Answer
<1>d. PICK e \in {"none", "durable"} : effects' = [effects EXCEPT ![r] = e] /\ (e = "durable" => status[r] = "committing")
  BY DEF EndFails
<1>1. TypeOK'
  BY <1>a, <1>0, <1>c, <1>d DEF IInv, TypeOK, Steps, Ends, Closing, Kinds, FrontDoor, input, context, outcome, admission, authority
<1>2. Lines'
  BY <1>a, <1>0, <1>c, <1>d DEF IInv, Lines, NoIdlePlace, input, context, outcome, admission, authority
<1>3. RInv(r)'
  <2>1. RInv(r) /\ TypeOK
    BY <1>a, <1>0, <1>c, <1>d DEF IInv
  <2>2. InLine(r)' /\ Connected(r)'
    BY <2>1, <1>a, <1>0, <1>c, <1>d DEF TypeOK, RInv, InLine, Stage, Connected, BeforeRoute, FrontDoor, Closing, input, context, outcome, admission, authority
  <2>3. Stage(r)'
    BY <2>1, <1>a, <1>0, <1>c, <1>d DEF TypeOK, RInv, InLine, Stage, Connected, BeforeRoute, FrontDoor, Closing, input, context, outcome, admission, authority
  <2>4. Answered(r)'
    BY <2>1, <1>a, <1>0, <1>c, <1>d DEF TypeOK, RInv, InLine, Stage, Connected, Answered, BeforeRoute, FrontDoor, Closing, input, context, outcome, admission, authority
  <2>5. Entitled(r)'
    BY <2>1, <1>a, <1>0, <1>c, <1>d DEF TypeOK, RInv, Stage, Connected, Entitled, BeforeRoute, FrontDoor, Closing, input, context, outcome, admission, authority
  <2>6. Placed(r)'
    BY <2>1, <1>a, <1>0, <1>c, <1>d DEF TypeOK, RInv, InLine, Stage, Connected, Placed, BeforeRoute, FrontDoor, Closing, input, context, outcome, admission, authority
  <2> QED
    BY <2>2, <2>3, <2>4, <2>5, <2>6 DEF RInv
<1>4. ASSUME NEW s \in Requests, s # r PROVE RInv(s)'
  <2>1. Aside(s)
    BY <1>4, <1>a, <1>0, <1>c, <1>d DEF IInv, TypeOK, Aside, input, context, outcome, admission, authority
  <2> QED
    BY <2>1, AsideKeeps DEF IInv
<1> QED
  BY <1>1, <1>2, <1>3, <1>4 DEF IInv

LEMMA EndFailsSwallowedKeeps == ASSUME IInv, NEW r \in Requests, EndFails(r), pc[r] \notin {"endGap", "endReopen", "endRespond"} PROVE IInv'
<1>a. status[r] \in Closing /\ pc[r] # "waiting" /\ NoRepeat(queue') /\ r \notin Elements(waiters)
  BY DEF EndFails, Ended, Closing, IInv, Lines, RInv, InLine, Stage, BeforeRoute
<1>0. /\ Lines'
      /\ leases' \in SUBSET Requests /\ waiters' \in Seq(Requests)
      /\ pc' \in [Requests -> Steps]
      /\ r \notin leases' /\ pc'[r] = Awaited(r) /\ r \notin Elements(waiters')
      /\ \A s \in Requests \ {r} :
           \/ pc'[s] = pc[s] /\ (s \in leases' <=> s \in leases) /\ (s \in Elements(waiters') <=> s \in Elements(waiters))
           \/ pc[s] = "waiting" /\ pc'[s] = "granted" /\ s \in leases' /\ s \notin Elements(waiters')
  <2>1. Release(r, Awaited(r)) /\ Awaited(r) \in Steps
    BY DEF EndFails, AfterFailedEnd, Awaited, Steps, Ends, IInv, TypeOK
  <2> QED
    BY <1>a, <2>1, ReleaseStep
<1>c. /\ status' = [status EXCEPT ![r] = "closed"] /\ held' = held \ {r} /\ since' = [since EXCEPT ![r] = {}]
      /\ UNCHANGED <<input, started, gone, context, attempt, queue, members, moves>>
      /\ reply' = reply
  BY DEF EndFails, Ended, AfterFailedEnd, Answer
<1>d. PICK e \in {"none", "durable"} : effects' = [effects EXCEPT ![r] = e] /\ (e = "durable" => status[r] = "committing")
  BY DEF EndFails
<1>1. TypeOK'
  BY <1>a, <1>0, <1>c, <1>d DEF IInv, TypeOK, Steps, Ends, Closing, Kinds, FrontDoor, input, context, outcome, admission, authority, Awaited
<1>2. Lines'
  BY <1>a, <1>0, <1>c, <1>d DEF IInv, Lines, NoIdlePlace, input, context, outcome, admission, authority, Awaited
<1>3. RInv(r)'
  <2>1. RInv(r) /\ TypeOK
    BY <1>a, <1>0, <1>c, <1>d DEF IInv
  <2>2. InLine(r)' /\ Connected(r)'
    BY <2>1, <1>a, <1>0, <1>c, <1>d DEF TypeOK, RInv, InLine, Stage, Connected, BeforeRoute, FrontDoor, Closing, input, context, outcome, admission, authority, Awaited
  <2>3. Stage(r)'
    BY <2>1, <1>a, <1>0, <1>c, <1>d DEF TypeOK, RInv, InLine, Stage, Connected, BeforeRoute, FrontDoor, Closing, input, context, outcome, admission, authority, Awaited
  <2>4. Answered(r)'
    BY <2>1, <1>a, <1>0, <1>c, <1>d DEF TypeOK, RInv, InLine, Stage, Connected, Answered, BeforeRoute, FrontDoor, Closing, input, context, outcome, admission, authority, Awaited
  <2>5. Entitled(r)'
    BY <2>1, <1>a, <1>0, <1>c, <1>d DEF TypeOK, RInv, Stage, Connected, Entitled, BeforeRoute, FrontDoor, Closing, input, context, outcome, admission, authority, Awaited
  <2>6. Placed(r)'
    BY <2>1, <1>a, <1>0, <1>c, <1>d DEF TypeOK, RInv, InLine, Stage, Connected, Placed, BeforeRoute, FrontDoor, Closing, input, context, outcome, admission, authority, Awaited
  <2> QED
    BY <2>2, <2>3, <2>4, <2>5, <2>6 DEF RInv
<1>4. ASSUME NEW s \in Requests, s # r PROVE RInv(s)'
  <2>1. Aside(s)
    BY <1>4, <1>a, <1>0, <1>c, <1>d DEF IInv, TypeOK, Aside, input, context, outcome, admission, authority, Awaited
  <2> QED
    BY <2>1, AsideKeeps DEF IInv
<1> QED
  BY <1>1, <1>2, <1>3, <1>4 DEF IInv

LEMMA MembershipMovesKeeps == ASSUME IInv, MembershipMoves PROVE IInv'
<1>1. TypeOK'
  BY TenantRequestAssumption DEF IInv, TypeOK, MembershipMoves, input, context, outcome, admission
<1>2. Lines'
  BY DEF IInv, Lines, NoIdlePlace, admission, MembershipMoves
<1>3. ASSUME NEW r \in Requests PROVE RInv(r)'
  <2>1. RInv(r) /\ TypeOK
    BY DEF IInv
  <2>2. InLine(r)' /\ Stage(r)' /\ Connected(r)' /\ Answered(r)' /\ Placed(r)'
    BY <2>1 DEF RInv, InLine, Stage, Connected, Answered, Placed, input, context, outcome, admission, MembershipMoves
  <2>3. Entitled(r)'
    BY <2>1 DEF TypeOK, RInv, Connected, Entitled, input, context, outcome, admission, MembershipMoves
  <2> QED
    BY <2>2, <2>3 DEF RInv
<1> QED
  BY <1>1, <1>2, <1>3 DEF IInv

LEMMA InitIInv == Init => IInv
<1> SUFFICES ASSUME Init PROVE IInv
  OBVIOUS
<1>1. TypeOK
  BY TenantRequestAssumption DEF Init, TypeOK, Steps, Ends, Kinds
<1>2. Elements(queue) = {} /\ Elements(waiters) = {}
  BY DEF Init, Elements
<1>3. Lines
  BY FS_EmptySet, CapacityType DEF Init, Lines, NoRepeat, NoIdlePlace
<1>4. ASSUME NEW r \in Requests PROVE RInv(r)
  BY <1>2 DEF Init, RInv, InLine, Stage, Connected, Answered, Entitled, Placed, BeforeRoute, FrontDoor, Closing
<1> QED
  BY <1>1, <1>3, <1>4 DEF IInv

LEMMA NextIInv == IInv /\ [Next]_vars => IInv'
<1> SUFFICES ASSUME IInv, [Next]_vars PROVE IInv'
  OBVIOUS
<1>1. ASSUME NEW r \in Requests, Step(r) PROVE IInv'
  <2>1. CASE AuthenticationFails(r) \/ Authenticate(r) \/ AcquireAdmission(r) \/ WaitTimesOut(r)
    BY <2>1, AuthenticationFailsKeeps, AuthenticateKeeps, AcquireAdmissionKeeps, WaitTimesOutKeeps
  <2>2. CASE ReserveDownload(r)
    BY <2>2, ReserveGoneKeeps, ReserveStaysKeeps
  <2>3. CASE Discover(r) \/ Validate(r) \/ Load(r) \/ OpenFails(r)
    BY <2>3, DiscoverKeeps, ValidateKeeps, LoadKeeps, OpenFailsKeeps
  <2>4. CASE BodyFails(r) \/ PreValidation(r) \/ HandlerReplies(r) \/ HandlerThrows(r)
    BY <2>4, BodyFailsKeeps, PreValidationKeeps, HandlerRepliesKeeps, HandlerThrowsKeeps
  <2>5. CASE LineageChanged(r) \/ BeginInspection(r) \/ Inspect(r) \/ Reopen(r)
    BY <2>5, LineageChangedKeeps, BeginInspectionKeeps, InspectKeeps, ReopenKeeps
  <2>6. CASE Finalize(r) \/ OnError(r) \/ Respond(r)
    BY <2>6, FinalizeKeeps, OnErrorKeeps, RespondKeeps
  <2> QED
    BY <1>1, <2>1, <2>2, <2>3, <2>4, <2>5, <2>6 DEF Step
<1>2. ASSUME NEW r \in Requests, DatabaseStep(r) PROVE IInv'
  BY <1>2, EndSucceedsKeeps, EndFailsAwaitedKeeps, EndFailsSwallowedKeeps DEF DatabaseStep
<1>3. ASSUME NEW r \in Requests, AbandonReservation(r) \/ MarkSatisfied(r) \/ ClientGone(r) PROVE IInv'
  BY <1>3, AbandonReservationKeeps, MarkSatisfiedKeeps, ClientGoneKeeps
<1>4. CASE PoolServes \/ PoolRefuses
  <2>1. Head(queue) \in Requests
    BY <1>4, TailLine DEF PoolServes, PoolRefuses, IInv, TypeOK, Lines
  <2> QED
    BY <1>4, <2>1, PoolServesReservedKeeps, PoolGivesBackKeeps, PoolRefusesReservedKeeps, PoolRefusesAbandonedKeeps
<1>5. CASE MembershipMoves
  BY <1>5, MembershipMovesKeeps
<1>6. CASE UNCHANGED vars
  <2>1. TypeOK' /\ Lines'
    BY <1>6 DEF vars, input, context, outcome, admission, authority, IInv, TypeOK, Lines, NoRepeat, NoIdlePlace
  <2>2. ASSUME NEW r \in Requests PROVE Aside(r)
    BY <1>6 DEF vars, input, context, outcome, admission, authority, Aside
  <2> QED
    BY <2>1, <2>2, AsideKeeps DEF IInv
<1> QED
  BY <1>1, <1>2, <1>3, <1>4, <1>5, <1>6 DEF Next

\* Every state a request and the pool can reach satisfies the inductive
\* invariant: middleware, handler, reservation and download line fit together.
THEOREM RequestInvariance == Spec => []IInv
  BY InitIInv, NextIInv, PTL DEF Spec

\* Whatever runs a statement runs it inside an open transaction, on a connection
\* the request holds (runInTenantTransaction, TenantConnectionReservation).
THEOREM HandlerInsideItsTransaction == Spec => []StatementsInside
<1>1. IInv => StatementsInside
  BY DEF IInv, RInv, Stage, Connected, StatementsInside
<1> QED
  BY <1>1, RequestInvariance, PTL

\* An answer of success means a commit, and an answer of failure means none but
\* where the commit's own answer was lost (finalizeTenantTransaction, onError).
THEOREM AnswersTellTheOutcome == Spec => []AnswerTellsTheOutcome
<1>1. IInv => AnswerTellsTheOutcome
  BY DEF IInv, RInv, Answered, AnswerTellsTheOutcome
<1> QED
  BY <1>1, RequestInvariance, PTL

\* A commit is of the tenant whose membership was read in that transaction and
\* that the header names, and its authorisation check has been met.
THEOREM WorkAuthorized == Spec => []WorkIsAuthorized
<1>1. IInv => WorkIsAuthorized
  <2> SUFFICES ASSUME IInv, NEW r \in Requests
               PROVE  /\ status[r] = "committing" =>
                           tenant[r] = first[r] /\ (header[r] # None => tenant[r] = header[r]) /\ check[r] # "required_pending"
                      /\ pc[r] = "handler" => tenant[r] \in since[r]
    BY DEF WorkIsAuthorized, CommitIsAuthorized, FreshAuthority
  <2>1. status[r] \in {"open", "committing"} => tenant[r] \in Tenants
    BY DEF IInv, TypeOK, RInv, Entitled
  <2> QED
    BY <2>1, TenantRequestAssumption DEF IInv, RInv, Entitled, Stage
<1> QED
  BY <1>1, RequestInvariance, PTL

\* Downloads never take the last connection, no more of them hold a place than
\* there are, and nobody waits in front of a free place (DownloadLimits).
THEOREM DownloadPlacesSound == Spec => []DownloadPlacesAreSound
<1>1. IInv => DownloadsLeaveAConnection
  <2> SUFFICES ASSUME IInv, PoolMax > 1
               PROVE  Cardinality({r \in Requests : kind[r] = "download" /\ r \in held \cup Elements(queue)}) < PoolMax
    BY DEF DownloadsLeaveAConnection
  <2> DEFINE asking == {r \in Requests : kind[r] = "download" /\ r \in held \cup Elements(queue)}
  <2>1. asking \subseteq leases
    BY DEF IInv, RInv, Placed
  <2>2. IsFiniteSet(leases) /\ Cardinality(leases) <= Capacity
    BY FS_Subset, TenantRequestAssumption DEF IInv, TypeOK, Lines
  <2> HIDE DEF asking
  <2>3. /\ Cardinality(asking) <= Cardinality(leases)
        /\ Cardinality(asking) \in Nat /\ Cardinality(leases) \in Nat
    BY <2>1, <2>2, FS_Subset, FS_CardinalityType
  <2>4. Cardinality(asking) < PoolMax
    BY <2>2, <2>3, CapacityType, TenantRequestAssumption
  <2> QED
    BY <2>4 DEF asking
<1>2. IInv => DownloadPlacesAreSound
  BY <1>1 DEF DownloadPlacesAreSound, IInv, Lines
<1> QED
  BY <1>2, RequestInvariance, PTL
-----------------------------------------------------------------------------
(* Requests that wait for each other. *)

\* Who waits for a connection is in the pool's queue, and a place is with a
\* download that has been let in and will ask, asks, or has a connection.
InUse(s) ==
  /\ pc[s] = "reserve" => s \in Elements(queue)
  /\ s \in leases => pc[s] = "granted" \/ s \in held \/ s \in Elements(queue)

AllInUse == \A s \in Requests : InUse(s)

\* A step that neither takes nor gives back anything.
LEMMA QuietInUse ==
  ASSUME AllInUse, NEW r \in Requests, NEW next, pc \in [Requests -> Steps],
         pc' = [pc EXCEPT ![r] = next], next # "reserve" \/ next = pc[r],
         pc[r] # "granted" \/ next = pc[r],
         UNCHANGED <<held, queue, leases>>
  PROVE  AllInUse'
<1> SUFFICES ASSUME NEW s \in Requests PROVE InUse(s)'
  BY DEF AllInUse
<1>1. InUse(s)
  BY DEF AllInUse
<1>2. pc'[s] = IF s = r THEN next ELSE pc[s]
  OBVIOUS
<1> QED
  BY <1>1, <1>2 DEF InUse

\* A request that asks the pool.
LEMMA AskingInUse ==
  ASSUME IInv, AllInUse, NEW r \in Requests, pc[r] # "reserve", pc[r] \notin {"error", "respond", "done"},
         pc' = [pc EXCEPT ![r] = "reserve"], queue' = Append(queue, r),
         UNCHANGED <<held, leases>>
  PROVE  AllInUse'
<1>1. r \notin Elements(queue) /\ queue \in Seq(Requests) /\ NoRepeat(queue) /\ pc \in [Requests -> Steps]
  BY DEF IInv, TypeOK, Lines, RInv, InLine
<1>2. Elements(queue') = Elements(queue) \cup {r}
  BY <1>1, AppendLine
<1> SUFFICES ASSUME NEW s \in Requests PROVE InUse(s)'
  BY DEF AllInUse
<1>3. InUse(s) /\ pc'[s] = IF s = r THEN "reserve" ELSE pc[s]
  BY <1>1 DEF AllInUse
<1> QED
  BY <1>2, <1>3 DEF InUse

\* A request that gives its place back, if it has one, with all it asks for.
LEMMA ReleaseInUse ==
  ASSUME IInv, AllInUse, NEW r \in Requests, NEW next \in Steps, Release(r, next),
         pc[r] # "waiting", next # "reserve",
         \A s \in Requests \ {r} : /\ s \in held => s \in held'
                                   /\ s \in Elements(queue) => s \in Elements(queue')
  PROVE  AllInUse'
<1>1. /\ r \notin leases' /\ pc'[r] = next
      /\ \A s \in Requests \ {r} : \/ pc'[s] = pc[s] /\ (s \in leases' <=> s \in leases)
                                   \/ pc'[s] = "granted"
  BY ReleaseStep
<1> SUFFICES ASSUME NEW s \in Requests PROVE InUse(s)'
  BY DEF AllInUse
<1>2. CASE s = r
  BY <1>1, <1>2 DEF InUse
<1>3. CASE s # r
  BY <1>1, <1>3 DEF InUse, AllInUse
<1> QED
  BY <1>2, <1>3

LEMMA PoolInUse ==
  ASSUME IInv, AllInUse, PoolServes \/ PoolRefuses
  PROVE  AllInUse'
<1> DEFINE r == Head(queue)
<1>1. /\ queue \in Seq(Requests) /\ NoRepeat(queue) /\ queue # <<>> /\ queue' = Tail(queue)
  BY DEF IInv, TypeOK, Lines, PoolServes, PoolRefuses
<1>2. r \in Requests /\ r \in Elements(queue) /\ Elements(queue') = Elements(queue) \ {r}
  BY <1>1, TailLine
<1>0. r = Head(queue)
  OBVIOUS
<1> HIDE DEF r
<1>3. pc[r] \in {"reserve", "error", "respond", "done"} /\ pc[r] \in Steps /\ "error" \in Steps
  BY <1>2 DEF IInv, TypeOK, RInv, InLine, Steps
<1>4. CASE PoolServes /\ pc[r] = "reserve"
  <2>1. /\ held' = held \cup {r} /\ leases' = leases
        /\ \E next \in {"discover", "validate"} : pc' = [pc EXCEPT ![r] = next]
    BY <1>0, <1>4 DEF PoolServes, Go, admission
  <2> SUFFICES ASSUME NEW s \in Requests PROVE InUse(s)'
    BY DEF AllInUse
  <2>2. InUse(s) /\ (s # r => pc'[s] = pc[s]) /\ (s = r => pc'[s] # "reserve")
    BY <2>1 DEF AllInUse, IInv, TypeOK
  <2> QED
    BY <1>2, <2>1, <2>2 DEF InUse
<1>5. CASE ~(PoolServes /\ pc[r] = "reserve")
  <2>1. PICK next \in Steps : Release(r, next) /\ next # "reserve" /\ held' = held
    <3>1. CASE PoolServes
      BY <1>0, <1>3, <1>5, <3>1 DEF PoolServes
    <3>2. CASE PoolRefuses
      BY <1>0, <1>3, <3>2 DEF PoolRefuses
    <3> QED
      BY <3>1, <3>2
  <2> QED
    BY <1>2, <1>3, <2>1, ReleaseInUse
<1> QED
  BY <1>4, <1>5

LEMMA AdmissionInUse ==
  ASSUME IInv, AllInUse, NEW r \in Requests, AcquireAdmission(r)
  PROVE  AllInUse'
<1>1. pc[r] = "new" /\ pc \in [Requests -> Steps] /\ UNCHANGED <<held, queue>>
  BY DEF AcquireAdmission, Begun, IInv, TypeOK
<1>2. CASE Fail(r) /\ UNCHANGED admission
  BY <1>1, <1>2, QuietInUse DEF Fail, Go, admission
<1>3. CASE leases' = leases \cup {r} /\ Go(r, "granted")
  <2> SUFFICES ASSUME NEW s \in Requests PROVE InUse(s)'
    BY DEF AllInUse
  <2> QED
    BY <1>1, <1>3 DEF InUse, AllInUse, Go
<1>4. CASE Drain(leases, Append(waiters, r), r, "waiting")
  <2>1. PICK A : /\ leases' = leases \cup A
                 /\ pc' = [s \in Requests |-> IF s \in A THEN "granted" ELSE IF s = r THEN "waiting" ELSE pc[s]]
    BY <1>4 DEF Drain
  <2> SUFFICES ASSUME NEW s \in Requests PROVE InUse(s)'
    BY DEF AllInUse
  <2>2. InUse(s) /\ (s \in A => pc'[s] = "granted") /\ (s \notin A => pc'[s] = pc[s] \/ (s = r /\ pc'[s] = "waiting"))
    BY <2>1 DEF AllInUse
  <2>3. r \notin leases
    BY <1>1 DEF IInv, RInv, Placed
  <2> QED
    BY <1>1, <2>1, <2>2, <2>3 DEF InUse
<1> QED
  BY <1>2, <1>3, <1>4 DEF AcquireAdmission

LEMMA EndInUse ==
  ASSUME IInv, AllInUse, NEW r \in Requests, DatabaseStep(r)
  PROVE  AllInUse'
<1>1. /\ status[r] \in Closing /\ held' = held \ {r} /\ queue' = queue
  BY DEF DatabaseStep, EndSucceeds, EndFails, Ended
<1>2. pc[r] \notin BeforeRoute /\ pc[r] \in Steps
  BY <1>1 DEF IInv, TypeOK, RInv, Stage, Closing
<1>3. Awaited(r) \in Steps \ {"reserve"} /\ "error" \in Steps
  BY <1>2 DEF Awaited, Steps, BeforeRoute
<1>4. PICK next \in Steps : Release(r, next) /\ next # "reserve"
  BY <1>3 DEF DatabaseStep, EndSucceeds, EndFails, AfterFailedEnd
<1> QED
  BY <1>1, <1>2, <1>4, ReleaseInUse DEF BeforeRoute

LEMMA StepInUse ==
  ASSUME IInv, AllInUse, NEW r \in Requests, Step(r)
  PROVE  AllInUse'
<1>1. pc \in [Requests -> Steps] /\ "error" \in Steps
  BY DEF IInv, TypeOK, Steps
<1>2. CASE AuthenticationFails(r)
  BY <1>1, <1>2, QuietInUse DEF AuthenticationFails, Begun, Fail, Go, admission
<1>3. CASE Authenticate(r)
  <2>1. CASE kind[r] = "gallery"
    BY <1>3, <2>1, AskingInUse DEF Authenticate, Begun, Go, admission
  <2>2. CASE kind[r] # "gallery"
    BY <1>1, <1>3, <2>2, QuietInUse DEF Authenticate, Begun, Go, admission
  <2> QED
    BY <2>1, <2>2
<1>4. CASE AcquireAdmission(r)
  BY <1>4, AdmissionInUse
<1>5. CASE WaitTimesOut(r)
  BY <1>1, <1>5, QuietInUse DEF WaitTimesOut, Fail, Go
<1>6. CASE ReserveDownload(r)
  <2>1. CASE gone[r]
    BY <1>1, <1>6, <2>1, ReleaseInUse DEF ReserveDownload
  <2>2. CASE ~gone[r]
    BY <1>6, <2>2, AskingInUse DEF ReserveDownload, Go, admission
  <2> QED
    BY <2>1, <2>2
<1>7. CASE Discover(r)
  <2>1. pc[r] = "discover" /\ UNCHANGED <<held, leases>>
    BY <1>7 DEF Discover, Opening, admission
  <2>2. CASE kind[r] \in FrontDoor
    BY <1>1, <1>7, <2>1, <2>2, QuietInUse DEF Discover
  <2>3. CASE kind[r] \notin FrontDoor
    BY <1>7, <2>1, <2>3, AskingInUse DEF Discover
  <2> QED
    BY <2>2, <2>3
<1>8. CASE Validate(r)
  BY <1>1, <1>8, QuietInUse DEF Validate, Opening, admission
<1>9. CASE Load(r)
  <2>1. /\ pc[r] = "load" /\ UNCHANGED <<held, queue, leases>>
        /\ \E next \in {"registered", "handler"} : pc' = [pc EXCEPT ![r] = next]
    BY <1>9 DEF Load, Opening, admission
  <2> QED
    BY <1>1, <2>1, QuietInUse
<1>10. CASE OpenFails(r)
  <2>1. /\ pc[r] \in {"discover", "validate", "load"} /\ Release(r, "error")
        /\ held' = held \ {r} /\ queue' = queue
    BY <1>10 DEF OpenFails, Opening, Abandon
  <2> QED
    BY <1>1, <2>1, ReleaseInUse
<1>11. CASE \/ BodyFails(r) \/ PreValidation(r) \/ HandlerReplies(r) \/ HandlerThrows(r)
            \/ LineageChanged(r) \/ BeginInspection(r) \/ Inspect(r) \/ Reopen(r)
            \/ Finalize(r) \/ OnError(r) \/ Respond(r)
  <2>1. /\ pc[r] \in {"registered", "handler", "gap", "reopen", "finalize", "error", "respond"}
        /\ UNCHANGED <<held, queue, leases>>
    BY <1>11 DEF BodyFails, PreValidation, HandlerReplies, HandlerThrows, LineageChanged,
         BeginInspection, Inspect, Reopen, Finalize, OnError, Respond, Running, admission
  <2>2. \E next \in Steps \ {"reserve"} : pc' = [pc EXCEPT ![r] = next]
    BY <1>11 DEF BodyFails, PreValidation, HandlerReplies, HandlerThrows, LineageChanged,
         BeginInspection, Inspect, Reopen, Finalize, OnError, Respond, Running, Fail, Go, Ending, Steps, Ends
  <2> QED
    BY <1>1, <2>1, <2>2, QuietInUse
<1> QED
  BY <1>2, <1>3, <1>4, <1>5, <1>6, <1>7, <1>8, <1>9, <1>10, <1>11 DEF Step

LEMMA NextInUse == IInv /\ AllInUse /\ [Next]_vars => AllInUse'
<1> SUFFICES ASSUME IInv, AllInUse, [Next]_vars PROVE AllInUse'
  OBVIOUS
<1>1. pc \in [Requests -> Steps]
  BY DEF IInv, TypeOK
<1>2. CASE UNCHANGED <<pc, held, queue, leases>>
  BY <1>2 DEF AllInUse, InUse
<1>3. ASSUME NEW r \in Requests, MarkSatisfied(r) PROVE AllInUse'
  BY <1>2, <1>3 DEF MarkSatisfied, Running, admission
<1>4. ASSUME NEW r \in Requests, AbandonReservation(r) PROVE AllInUse'
  BY <1>1, <1>4, QuietInUse DEF AbandonReservation, Fail, Go, admission
<1>5. ASSUME NEW r \in Requests, ClientGone(r) PROVE AllInUse'
  <2>1. /\ UNCHANGED <<held, queue, leases>>
        /\ \/ pc' = pc
           \/ pc[r] \in {"waiting", "reserve"} /\ pc' = [pc EXCEPT ![r] = "error"]
    BY <1>5 DEF ClientGone, Fail, Go, admission
  <2> QED
    BY <1>1, <1>2, <2>1, QuietInUse
<1>6. CASE MembershipMoves
  BY <1>2, <1>6 DEF MembershipMoves, admission
<1>7. CASE UNCHANGED vars
  BY <1>2, <1>7 DEF vars
<1> QED
  BY <1>3, <1>4, <1>5, <1>6, <1>7, StepInUse, EndInUse, PoolInUse DEF Next

\* The requests that wait for others: for a place, or for a connection.
WaitsForOthers(r) == pc[r] \in {"waiting", "reserve"}

\* A request that has what others wait for and is not waiting itself: it was let
\* in and asks the pool next, or it has a connection, where it is at a step of its
\* own or its COMMIT or ROLLBACK is on its way.
Serving(r) ==
  \/ r \in leases /\ pc[r] = "granted"
  \/ r \in held /\ ~WaitsForOthers(r) /\ (pc[r] = "done" => status[r] \in Closing)

PoolCanServe == queue # <<>> /\ Cardinality(held) < PoolMax

NobodyWaitsInVain ==
  /\ (\E r \in Requests : WaitsForOthers(r)) => PoolCanServe \/ \E r \in Requests : Serving(r)
  /\ \A r \in Requests : pc[r] = "done" =>
       /\ r \in held => status[r] \in Closing
       /\ r \in leases => r \in held \/ r \in Elements(queue)
       /\ r \notin Elements(waiters)

LEMMA HoldersServe == ASSUME IInv, NEW r \in held PROVE r \in Requests /\ Serving(r)
<1>1. r \in Requests /\ RInv(r) /\ status[r] \in {"none", "open", "closed"} \cup Closing
  BY DEF IInv, TypeOK
<1>2. pc[r] \notin {"waiting", "reserve"}
  BY <1>1 DEF RInv, Stage, Connected, BeforeRoute
<1>3. pc[r] = "done" => status[r] \in Closing
  BY <1>1 DEF RInv, Stage, Connected, Closing
<1> QED
  BY <1>1, <1>2, <1>3 DEF Serving, WaitsForOthers

LEMMA InUseServes == ASSUME IInv, AllInUse PROVE NobodyWaitsInVain
<1>1. IsFiniteSet(held) /\ IsFiniteSet(leases) /\ held \subseteq Requests /\ leases \subseteq Requests
  BY FS_Subset, TenantRequestAssumption DEF IInv, TypeOK
<1>2. ASSUME queue # <<>> PROVE PoolCanServe \/ \E r \in Requests : Serving(r)
  <2>1. CASE held = {}
    <3>1. Cardinality(held) = 0
      BY <2>1, FS_EmptySet
    <3> QED
      BY <1>2, <3>1, TenantRequestAssumption DEF PoolCanServe
  <2>2. CASE held # {}
    BY <2>2, HoldersServe
  <2> QED
    BY <2>1, <2>2
<1>3. ASSUME NEW r \in Requests, r \in Elements(queue) PROVE queue # <<>>
  BY <1>3 DEF Elements
<1>4. ASSUME NEW r \in Requests, pc[r] = "waiting" PROVE PoolCanServe \/ \E s \in Requests : Serving(s)
  <2>1. waiters # <<>>
    BY <1>4 DEF IInv, RInv, InLine, Elements
  <2>2. Cardinality(leases) = Capacity /\ Capacity # 0
    BY <2>1, CapacityType DEF IInv, Lines, NoIdlePlace
  <2>3. PICK s \in leases : TRUE
    BY <2>2, FS_EmptySet
  <2>4. s \in Requests /\ (pc[s] = "granted" \/ s \in held \/ s \in Elements(queue))
    BY <1>1, <2>3 DEF AllInUse, InUse
  <2> QED
    BY <1>2, <1>3, <2>3, <2>4, HoldersServe DEF Serving
<1>5. ASSUME NEW r \in Requests, pc[r] = "reserve" PROVE PoolCanServe \/ \E s \in Requests : Serving(s)
  BY <1>2, <1>3, <1>5 DEF AllInUse, InUse
<1>6. ASSUME NEW r \in Requests, pc[r] = "done"
      PROVE  /\ r \in held => status[r] \in Closing
             /\ r \in leases => r \in held \/ r \in Elements(queue)
             /\ r \notin Elements(waiters)
  <2>1. r \in held => status[r] \in Closing
    BY <1>6, HoldersServe DEF Serving
  <2> QED
    BY <1>6, <2>1 DEF AllInUse, InUse, IInv, RInv, InLine
<1> QED
  BY <1>4, <1>5, <1>6 DEF NobodyWaitsInVain, WaitsForOthers

\* What EveryRequestSettles rests on, for any number of requests and sizes of the
\* pool and the line: whoever waits for a place or a connection has before it a
\* request that waits for neither, or a free connection; and a request that has
\* been answered keeps a connection only until its COMMIT or ROLLBACK is answered,
\* a place only with a connection or a reservation that the pool will serve, and
\* none in the line of admission (download-limits.ts, tenant-request.ts).
THEOREM NoWaitingInVain == Spec => []NobodyWaitsInVain
<1>1. Init => AllInUse
  BY DEF Init, AllInUse, InUse
<1>2. IInv /\ AllInUse => NobodyWaitsInVain
  BY InUseServes
<1> QED
  BY <1>1, <1>2, NextInUse, RequestInvariance, PTL DEF Spec
-----------------------------------------------------------------------------
\* The reads of MediaAccess.
\* A place in the order a gallery is delivered in, and what comes before one.
Positions == {0, 1} \X Nat
Under(W, d) == {e \in W : Before(e, d)}

\* The reads and the walks that are under way, and the types.
Reads == [step : {"reader", "discovered", "locked", "answered"}, want : {"download", "list", "gallery"},
          object : Assets \cup Targets \cup Places, after : Cursors, wide : BOOLEAN,
          assets : SUBSET Assets, page : SUBSET Cursors, places : SUBSET Places, orders : SUBSET Places,
          shown : SUBSET Assets]
Walks == [order : Places, cursor : SUBSET Cursors, wide : BOOLEAN,
          due : SUBSET Assets, shown : SUBSET Assets, twice : BOOLEAN]

AccessTypes ==
  /\ roles \subseteq RoleCodes /\ active \in BOOLEAN
  /\ closed \subseteq Places /\ tasks \subseteq Places \X Tasks
  /\ media \in [Assets -> [status : {"active", "deleted"}, marked : BOOLEAN,
                           proofs : SUBSET (Targets \cup {Unbound})]]
  /\ attached \subseteq Assets \X Targets
  /\ read = Quiet \/ read \in Reads
  /\ walk = NoWalk \/ walk \in Walks
  /\ turns \in 0..MaxTurns

\* The read locks what it reads: all but the lists of a reader of the whole workshop.
Locking == ~(read.want = "list" /\ read.wide)

\* What each step of a read has established, the later ones on top of the earlier.
ReadBegun ==
  /\ read.orders \subseteq read.places
  /\ read.want = "download" => read.object \in Assets
  /\ read.want = "list" => read.object \in Targets
  /\ read.want = "gallery" =>
       /\ read.object \in closed
       /\ read.after = Start \/ (walk \in Walks /\ read.after \in walk.cursor /\ walk.order = read.object)

ReadDiscovered ==
  /\ read.step \in {"discovered", "locked"} => Locking
  /\ read.step \in {"discovered", "locked", "answered"} /\ Locking =>
       /\ active
       /\ read.wide => "tenant" \in GrantOf(roles, "media.read")
       /\ read.want = "download" => read.assets = {read.object}
       /\ read.want = "gallery" => read.page = Window(read.object, read.after) /\ read.assets = AssetsAt(read.page)

ReadLocked ==
  read.step \in {"locked", "answered"} /\ Locking => PlacesOf(read.assets) \subseteq read.places

ReadAnswered ==
  read.step = "answered" /\ Locking =>
    /\ read.shown \subseteq read.assets
    /\ \A a \in read.shown : Readable(a) /\ (~read.wide \/ read.want = "gallery" => Eligible(a, read.wide))
    /\ read.want = "gallery" => \A a \in read.assets : Evidenced(a, read.wide) => a \in read.shown

ReadInv == read \in Reads => ReadBegun /\ ReadDiscovered /\ ReadLocked /\ ReadAnswered

\* The only place of an asset that has been shown, now and later.
Settled(a, t) == LinksOf(a) = {t} /\ (media[a].proofs \subseteq {Unbound} \/ media[a].proofs = {t})

ShownOnce ==
  \A a \in walk.shown : \E t \in Targets :
    /\ Settled(a, t) /\ Place(t) = walk.order
    /\ \A c \in walk.cursor : ~Before(c, <<t[2], a>>)

\* What a walk still owes its reader lies ahead of its cursor.
DueAhead ==
  \A a \in walk.due \ walk.shown :
    /\ walk.cursor # {}
    /\ \A c \in walk.cursor : \E d \in Ahead(walk.order, c) : d[2] = a

WalkInv == walk \in Walks => walk.order \in closed /\ ~walk.twice /\ ShownOnce /\ DueAhead

AccessInv == AccessTypes /\ ReadInv /\ WalkInv
-----------------------------------------------------------------------------
LEMMA FiniteRanks == IsFiniteSet({0, 1})
<1>1. IsFiniteSet({0})
  BY FS_Singleton
<1>2. IsFiniteSet({0} \cup {1})
  BY <1>1, FS_AddElement
<1>3. {0} \cup {1} = {0, 1}
  OBVIOUS
<1> QED
  BY <1>2, <1>3

LEMMA InitAccessInv == AccessInit => AccessInv
<1> SUFFICES ASSUME AccessInit PROVE AccessInv
  OBVIOUS
<1>1. AccessTypes
  BY MediaAccessAssumption DEF AccessInit, AccessTypes
<1>2. read \notin Reads
  BY DEF AccessInit, Quiet, Reads
<1>3. walk \notin Walks
  BY DEF AccessInit, NoWalk, NoOne, Walks
<1> QED
  BY <1>1, <1>2, <1>3 DEF AccessInv, ReadInv, WalkInv

LEMMA QuietIsNoRead == Quiet \notin Reads /\ NoWalk \notin Walks
  BY DEF Quiet, NoWalk, NoOne, Reads, Walks

\* What a read sees does not change under it: the lineage, the evidence and the
\* window are functions of the committed rows.
LEMMA SameEvidence ==
  ASSUME UNCHANGED evidence
  PROVE  /\ \A a : (LinksOf(a)' = LinksOf(a)) /\ (Readable(a)' = Readable(a))
         /\ \A S : PlacesOf(S)' = PlacesOf(S)
         /\ \A a, legacy : Evidenced(a, legacy)' = Evidenced(a, legacy)
         /\ \A o, c : (Candidates(o)' = Candidates(o)) /\ (Ahead(o, c)' = Ahead(o, c)) /\ (Window(o, c)' = Window(o, c))
<1>1. attached' = attached /\ media' = media
  BY DEF evidence
<1>2. \A a : LinksOf(a)' = LinksOf(a)
  BY <1>1 DEF LinksOf
<1>3. \A S : PlacesOf(S)' = PlacesOf(S)
  BY <1>1 DEF PlacesOf, LinksOf
<1>4. \A a : Readable(a)' = Readable(a)
  BY <1>1 DEF Readable
<1>5. \A a, legacy : Evidenced(a, legacy)' = Evidenced(a, legacy)
  BY <1>1 DEF Evidenced, LinksOf, Readable
<1>6. \A o : Candidates(o)' = Candidates(o)
  BY <1>1 DEF Candidates
<1>7. \A o, c : Ahead(o, c)' = Ahead(o, c)
  BY <1>1 DEF Candidates, Ahead
<1>8. \A o, c : Window(o, c)' = Window(o, c)
  BY <1>1 DEF Candidates, Ahead, Window
<1> QED
  BY <1>2, <1>3, <1>4, <1>5, <1>6, <1>7, <1>8

LEMMA SameWalk == ASSUME WalkInv, UNCHANGED <<evidence, walk>> PROVE WalkInv'
<1>1. ShownOnce' <=> ShownOnce
  BY SameEvidence DEF ShownOnce, Settled, evidence
<1>2. DueAhead' <=> DueAhead
  BY SameEvidence DEF DueAhead
<1> QED
  BY <1>1, <1>2 DEF WalkInv, evidence

LEMMA WindowType ==
  ASSUME AccessTypes, NEW o, NEW c
  PROVE  /\ Candidates(o) \subseteq {0, 1} \X Assets /\ Candidates(o) \subseteq Cursors
         /\ Window(o, c) \subseteq Ahead(o, c) /\ Ahead(o, c) \subseteq Candidates(o)
         /\ AssetsAt(Window(o, c)) \subseteq Assets
<1>1. Candidates(o) \subseteq {0, 1} \X Assets
  BY DEF AccessTypes, Candidates, Targets, Place
<1>2. Window(o, c) \subseteq Ahead(o, c) /\ Ahead(o, c) \subseteq Candidates(o)
  BY DEF Window, Ahead
<1>3. AssetsAt(Window(o, c)) \subseteq Assets
  BY <1>1, <1>2 DEF AssetsAt
<1> QED
  BY <1>1, <1>2, <1>3 DEF Cursors

LEMMA PlacesType == ASSUME AccessTypes, NEW S, S \subseteq Assets PROVE PlacesOf(S) \subseteq Places
<1> DEFINE T == UNION {LinksOf(a) \cup (media[a].proofs \cap Targets) : a \in S}
<1>1. T \subseteq Targets
  BY DEF LinksOf
<1>2. \A t \in Targets : Place(t) \in Places
  BY DEF Targets, Place
<1> HIDE DEF T
<1>3. {Place(t) : t \in T} \subseteq Places
  BY <1>1, <1>2
<1> QED
  BY <1>3 DEF PlacesOf, T

LEMMA BeginReadKeeps ==
  ASSUME AccessInv, NEW want \in {"download", "list", "gallery"}, NEW object, NEW after \in Cursors,
         BeginRead(want, object, after),
         want = "download" => object \in Assets,
         want = "list" => object \in Targets,
         want = "gallery" => object \in closed /\ (after = Start \/ (walk \in Walks /\ after \in walk.cursor /\ walk.order = object))
  PROVE  AccessInv'
<1>1. PICK wide \in BOOLEAN :
        read' = [step |-> "reader", want |-> want, object |-> object, after |-> after,
                 wide |-> wide, assets |-> {}, page |-> {}, places |-> {}, orders |-> {}, shown |-> {}]
  BY DEF BeginRead
<1>2. UNCHANGED <<member, evidence, turns, walk>>
  BY DEF BeginRead, Around
<1>3. read' \in Reads
  BY <1>1 DEF Reads, AccessInv, AccessTypes
<1>4. AccessTypes'
  BY <1>2, <1>3 DEF AccessInv, AccessTypes, member, evidence
<1>5. ReadInv'
  BY <1>1, <1>2 DEF ReadInv, ReadBegun, ReadDiscovered, ReadLocked, ReadAnswered, evidence
<1>6. WalkInv'
  BY <1>2, SameWalk DEF AccessInv
<1> QED
  BY <1>4, <1>5, <1>6 DEF AccessInv

LEMMA BeginKeeps == ASSUME AccessInv, BeginDownload \/ BeginList \/ BeginPage PROVE AccessInv'
<1>1. Start \in Cursors
  BY DEF Start, Cursors
<1>2. CASE BeginDownload
  BY <1>1, <1>2, BeginReadKeeps DEF BeginDownload
<1>3. CASE BeginList
  BY <1>1, <1>3, BeginReadKeeps DEF BeginList
<1>4. CASE BeginPage
  <2>1. ASSUME NEW o \in closed, BeginRead("gallery", o, Start) PROVE AccessInv'
    BY <1>1, <2>1, BeginReadKeeps
  <2>2. ASSUME walk # NoWalk, NEW c \in walk.cursor, BeginRead("gallery", walk.order, c) PROVE AccessInv'
    <3>1. walk \in Walks
      BY <2>2 DEF AccessInv, AccessTypes
    <3>2. walk.order \in closed /\ c \in Cursors
      BY <2>2, <3>1 DEF AccessInv, WalkInv, Walks
    <3> QED
      BY <2>2, <3>1, <3>2, BeginReadKeeps
  <2> QED
    BY <1>4, <2>1, <2>2 DEF BeginPage
<1> QED
  BY <1>2, <1>3, <1>4

LEMMA RefuseReadKeeps == ASSUME AccessInv, RefuseRead PROVE AccessInv'
<1>1. UNCHANGED <<member, evidence, turns, walk>> /\ read' = Quiet
  BY DEF RefuseRead, Around
<1>2. AccessTypes'
  BY <1>1 DEF AccessInv, AccessTypes, member, evidence
<1>3. ReadInv'
  BY <1>1, QuietIsNoRead DEF ReadInv
<1>4. WalkInv'
  BY <1>1, SameWalk DEF AccessInv
<1> QED
  BY <1>2, <1>3, <1>4 DEF AccessInv

LEMMA CursorLapsesKeeps == ASSUME AccessInv, CursorLapses PROVE AccessInv'
<1>1. UNCHANGED <<member, evidence, turns, read>> /\ walk' = NoWalk /\ read.step = "idle"
  BY DEF CursorLapses, Around, At
<1>2. AccessTypes'
  BY <1>1 DEF AccessInv, AccessTypes, member, evidence
<1>3. read' \notin Reads
  BY <1>1 DEF Reads
<1>4. walk' \notin Walks
  BY <1>1, QuietIsNoRead
<1> QED
  BY <1>2, <1>3, <1>4 DEF AccessInv, ReadInv, WalkInv

\* What the steps of a read have in common: they change the read alone.
LEMMA ReadStepKeeps ==
  ASSUME AccessInv, Around, UNCHANGED walk, read' \in Reads, ReadInv'
  PROVE  AccessInv'
<1>1. AccessTypes'
  BY DEF AccessInv, AccessTypes, member, evidence, Around
<1>2. WalkInv'
  BY SameWalk DEF AccessInv, Around
<1> QED
  BY <1>1, <1>2 DEF AccessInv

LEMMA Busy == ASSUME AccessInv, read.step # "idle" PROVE read \in Reads /\ ReadBegun /\ ReadDiscovered /\ ReadLocked /\ ReadAnswered
  BY DEF AccessInv, AccessTypes, ReadInv, Quiet

LEMMA ReadListKeeps == ASSUME AccessInv, ReadList PROVE AccessInv'
<1>1. /\ read.step = "reader" /\ read.want = "list" /\ read.wide /\ Around /\ UNCHANGED walk
      /\ read' = [read EXCEPT !.step = "answered", !.shown = Listed(read.object)]
  BY DEF ReadList, At
<1>2. read \in Reads /\ ReadBegun
  BY <1>1, Busy
<1>3. Listed(read.object) \subseteq Assets
  BY DEF Listed
<1>4. /\ read' \in Reads /\ read'.want = "list" /\ read'.wide /\ read'.object = read.object
      /\ read'.orders = read.orders /\ read'.places = read.places
  BY <1>1, <1>2, <1>3 DEF Reads
<1>5. ReadInv'
  BY <1>1, <1>2, <1>4 DEF ReadInv, ReadBegun, ReadDiscovered, ReadLocked, ReadAnswered, Locking
<1> QED
  BY <1>1, <1>4, <1>5, ReadStepKeeps

LEMMA LockReaderKeeps == ASSUME AccessInv, LockReader PROVE AccessInv'
<1> DEFINE o     == read.object
           page  == IF read.want = "gallery" THEN Window(o, read.after) ELSE {}
           found == CASE read.want = "download" -> {o}
                      [] read.want = "list"     -> Listed(o)
                      [] read.want = "gallery"  -> AssetsAt(page)
           asked == CASE read.want = "download" -> {}
                      [] read.want = "list"     -> {Place(o)}
                      [] read.want = "gallery"  -> {o}
           places == PlacesOf(found) \cup asked
<1>1. /\ read.step = "reader" /\ Around /\ UNCHANGED walk /\ GrantNow /\ Locking
      /\ read' = [read EXCEPT !.step = "discovered", !.assets = found, !.page = page,
                              !.places = places, !.orders = places \cap closed]
  BY DEF LockReader, At, Locking
<1>2. read \in Reads /\ ReadBegun /\ AccessTypes
  BY <1>1, Busy DEF AccessInv
<1>3. /\ read.want \in {"download", "list", "gallery"} /\ read.wide \in BOOLEAN
      /\ page \subseteq Cursors /\ found \subseteq Assets /\ asked \subseteq Places
  <2>1. read.want \in {"download", "list", "gallery"} /\ read.wide \in BOOLEAN
    BY <1>2 DEF Reads
  <2>2. Window(o, read.after) \subseteq Cursors /\ AssetsAt(Window(o, read.after)) \subseteq Assets
    BY <1>2, WindowType
  <2>3. CASE read.want = "download"
    BY <2>3, <2>1, <1>2 DEF ReadBegun
  <2>4. CASE read.want = "list"
    BY <2>4, <2>1, <1>2 DEF ReadBegun, Listed, Place, Targets
  <2>5. CASE read.want = "gallery"
    BY <2>5, <2>1, <2>2, <1>2 DEF ReadBegun, AccessTypes
  <2> QED
    BY <2>1, <2>3, <2>4, <2>5
<1>4. places \subseteq Places
  BY <1>2, <1>3, PlacesType
<1>5. /\ read.want = "download" => found = {o}
      /\ read.want = "gallery" => page = Window(o, read.after) /\ found = AssetsAt(page)
  OBVIOUS
<1> HIDE DEF page, found, asked, places
<1>6. /\ read' \in Reads /\ read'.step = "discovered" /\ read'.want = read.want /\ read'.wide = read.wide
      /\ read'.object = o /\ read'.after = read.after /\ read'.assets = found /\ read'.page = page
      /\ read'.orders \subseteq read'.places
  BY <1>1, <1>2, <1>3, <1>4 DEF Reads
<1> HIDE DEF o
<1>7. ReadBegun'
  BY <1>1, <1>2, <1>6 DEF ReadBegun, Around, evidence, o
<1>8. ReadDiscovered'
  BY <1>1, <1>5, <1>6, SameEvidence DEF ReadDiscovered, GrantNow, Around, Locking, member, o
<1>9. ReadInv'
  BY <1>6, <1>7, <1>8 DEF ReadInv, ReadLocked, ReadAnswered
<1> QED
  BY <1>1, <1>6, <1>9, ReadStepKeeps

LEMMA LockGraphKeeps == ASSUME AccessInv, LockGraph PROVE AccessInv'
<1>1. /\ read.step = "discovered" /\ Around /\ UNCHANGED walk /\ read' = [read EXCEPT !.step = "locked"]
      /\ PlacesOf(read.assets) \subseteq read.places
  BY DEF LockGraph, At
<1>2. read \in Reads /\ ReadBegun /\ ReadDiscovered
  BY <1>1, Busy
<1>3. /\ read' \in Reads /\ read'.step = "locked" /\ read'.want = read.want /\ read'.wide = read.wide
      /\ read'.object = read.object /\ read'.after = read.after /\ read'.assets = read.assets
      /\ read'.page = read.page /\ read'.places = read.places /\ read'.orders = read.orders
  BY <1>1, <1>2 DEF Reads
<1>4. ReadBegun'
  BY <1>1, <1>2, <1>3 DEF ReadBegun, Around, evidence
<1>5. ReadDiscovered' /\ ReadLocked'
  BY <1>1, <1>2, <1>3, SameEvidence DEF ReadDiscovered, ReadLocked, Around, Locking, member
<1>6. ReadInv'
  BY <1>3, <1>4, <1>5 DEF ReadInv, ReadAnswered
<1> QED
  BY <1>1, <1>3, <1>6, ReadStepKeeps

LEMMA ShowKeeps ==
  ASSUME AccessInv, read.step = "locked", Locking, NEW shown \in SUBSET read.assets, Show(shown),
         \A a \in shown : Readable(a) /\ (~read.wide \/ read.want = "gallery" => Eligible(a, read.wide)),
         read.want = "gallery" => \A a \in read.assets : Evidenced(a, read.wide) => a \in shown
  PROVE  AccessInv'
<1>1. Around /\ UNCHANGED walk /\ read' = [read EXCEPT !.step = "answered", !.shown = shown]
  BY DEF Show
<1>2. read \in Reads /\ ReadBegun /\ ReadDiscovered /\ ReadLocked
  BY Busy
<1>3. /\ read' \in Reads /\ read'.step = "answered" /\ read'.want = read.want /\ read'.wide = read.wide
      /\ read'.object = read.object /\ read'.after = read.after /\ read'.assets = read.assets
      /\ read'.page = read.page /\ read'.places = read.places /\ read'.orders = read.orders /\ read'.shown = shown
  BY <1>1, <1>2 DEF Reads
<1>4. ReadBegun'
  BY <1>1, <1>2, <1>3 DEF ReadBegun, Around, evidence
<1>5. ReadDiscovered' /\ ReadLocked'
  BY <1>1, <1>2, <1>3, SameEvidence DEF ReadDiscovered, ReadLocked, Around, Locking, member
<1>6. \A a, wide : Eligible(a, wide)' <=> Eligible(a, wide)
  BY <1>1, SameEvidence DEF Eligible, AssignedTo, Around, evidence, member
<1>7. ReadAnswered'
  BY <1>1, <1>3, <1>6, SameEvidence DEF ReadAnswered, Around, Locking
<1>8. ReadInv'
  BY <1>4, <1>5, <1>7 DEF ReadInv
<1> QED
  BY <1>1, <1>3, <1>8, ReadStepKeeps

LEMMA OneProof ==
  ASSUME AccessTypes, NEW a \in Assets, NEW legacy \in BOOLEAN, Evidenced(a, legacy)
  PROVE  /\ \E t \in Targets : Settled(a, t)
         /\ ~legacy => \E t \in Targets : LinksOf(a) = {t} /\ media[a].proofs = {t}
<1>1. IsFiniteSet(Targets) /\ LinksOf(a) \in SUBSET Targets /\ media[a].proofs \in SUBSET (Targets \cup {Unbound})
  <2>1. IsFiniteSet({0, 1})
    BY FiniteRanks
  <2>2. IsFiniteSet(Targets)
    BY <2>1, FS_Product, MediaAccessAssumption DEF Targets
  <2> QED
    BY <2>2 DEF LinksOf, AccessTypes
<1>2. IsFiniteSet(LinksOf(a)) /\ IsFiniteSet(media[a].proofs)
  BY <1>1, FS_Subset, FS_AddElement
<1>3. CASE legacy /\ Cardinality(LinksOf(a)) = 1 /\ media[a].proofs \subseteq {Unbound}
  <2>1. \E t : LinksOf(a) = {t}
    BY <1>2, <1>3, FS_Singleton
  <2> QED
    BY <1>1, <1>3, <2>1 DEF Settled
<1>4. CASE Cardinality(media[a].proofs) = 1 /\ media[a].proofs = LinksOf(a)
  <2>1. \E t : media[a].proofs = {t}
    BY <1>2, <1>4, FS_Singleton
  <2> QED
    BY <1>1, <1>4, <2>1 DEF Settled
<1> QED
  BY <1>3, <1>4 DEF Evidenced

LEMMA SignDownloadKeeps == ASSUME AccessInv, SignDownload PROVE AccessInv'
<1>1. read \in Reads /\ ReadDiscovered /\ read.step = "locked" /\ read.want = "download" /\ Locking
  BY Busy DEF SignDownload, At, Locking
<1>2. {read.object} \in SUBSET read.assets /\ Readable(read.object) /\ (~read.wide => Eligible(read.object, read.wide))
  BY <1>1 DEF SignDownload, ReadDiscovered, Reads
<1> QED
  BY <1>1, <1>2, ShowKeeps DEF SignDownload

LEMMA ShowAssignedKeeps == ASSUME AccessInv, ShowAssigned PROVE AccessInv'
<1> DEFINE shown == {a \in Listed(read.object) \cap read.assets : Eligible(a, FALSE)}
<1>1. read \in Reads /\ read.step = "locked" /\ read.want = "list" /\ Locking /\ read.wide = FALSE /\ Show(shown)
  BY Busy DEF ShowAssigned, At, Locking, ReadDiscovered, Reads
<1>2. shown \in SUBSET read.assets /\ \A a \in shown : Readable(a) /\ Eligible(a, read.wide)
  BY <1>1 DEF Listed
<1> HIDE DEF shown
<1> QED
  BY <1>1, <1>2, ShowKeeps

LEMMA ShowPageKeeps == ASSUME AccessInv, ShowPage PROVE AccessInv'
<1> DEFINE shown == {a \in read.assets : Eligible(a, read.wide)}
<1>1. /\ read \in Reads /\ ReadBegun /\ ReadDiscovered /\ AccessTypes
      /\ read.step = "locked" /\ read.want = "gallery" /\ Locking /\ Show(shown)
      /\ read.wide \/ AssignedTo(read.object)
  BY Busy DEF ShowPage, At, Locking, AccessInv
<1>2. shown \in SUBSET read.assets /\ \A a \in shown : Readable(a) /\ Eligible(a, read.wide)
  BY DEF Eligible, Evidenced
<1>3. ASSUME NEW a \in read.assets, Evidenced(a, read.wide) PROVE a \in shown
  <2>1. CASE read.wide
    BY <1>3, <2>1 DEF Eligible
  <2>2. CASE ~read.wide
    <3>1. a \in Assets /\ read.wide = FALSE
      BY <1>1, <2>2 DEF Reads
    <3>2. PICK t \in Targets : LinksOf(a) = {t} /\ media[a].proofs = {t}
      BY <1>1, <1>3, <3>1, OneProof
    <3>3. a \in AssetsAt(Candidates(read.object))
      BY <1>1, WindowType DEF ReadDiscovered, AssetsAt
    <3>4. PICK u \in Targets : <<a, u>> \in attached /\ Place(u) = read.object
      BY <1>1, <3>3 DEF AssetsAt, Candidates, AccessTypes
    <3>5. Place(t) = read.object
      BY <3>2, <3>4 DEF LinksOf
    <3>6. PlacesOf({a}) = {read.object}
      BY <3>2, <3>5 DEF PlacesOf
    <3> QED
      BY <1>1, <1>3, <2>2, <3>6 DEF Eligible
  <2> QED
    BY <2>1, <2>2
<1> HIDE DEF shown
<1> QED
  BY <1>1, <1>2, <1>3, ShowKeeps

-----------------------------------------------------------------------------
(* Positions in a gallery. *)

\* A nonempty set of natural numbers has a least one.
LEMMA LeastNumber == ASSUME NEW S, S \subseteq Nat, S # {} PROVE \E n \in S : \A m \in S : n <= m
<1> DEFINE R == OpToRel(<, Nat)
<1>1. IsWellFoundedOn(R, Nat)
  BY NatLessThanWellFounded
<1>2. \A m, n \in Nat : m < n => <<m, n>> \in R
  BY DEF OpToRel
<1> HIDE DEF R
<1>3. PICK n \in S : \A m \in S : ~ (<<m, n>> \in R)
  BY <1>1, WFMin
<1>4. ASSUME NEW m \in S PROVE n <= m
  <2>1. m \in Nat /\ n \in Nat /\ ~(m < n)
    BY <1>2, <1>3
  <2> QED
    BY <2>1
<1> QED
  BY <1>4

LEMMA BeforeIsAnOrder ==
  ASSUME NEW c \in Positions, NEW d \in Positions, NEW e \in Positions
  PROVE  /\ ~Before(c, c)
         /\ Before(c, d) /\ Before(d, e) => Before(c, e)
         /\ ~Before(c, d) /\ ~Before(d, c) => c = d
  BY DEF Before, Positions

LEMMA UnderGrows ==
  ASSUME NEW W, W \subseteq Positions, IsFiniteSet(W), NEW d \in W
  PROVE  /\ Cardinality(Under(W, d)) \in Nat /\ Cardinality(Under(W, d)) <= Cardinality(W)
         /\ \A e \in W : Before(d, e) => Cardinality(Under(W, d)) < Cardinality(Under(W, e))
<1>1. ASSUME NEW e \in W
      PROVE  /\ Under(W, e) \in SUBSET W /\ IsFiniteSet(Under(W, e))
             /\ Cardinality(Under(W, e)) \in Nat /\ Cardinality(Under(W, e)) <= Cardinality(W)
  <2>1. Under(W, e) \in SUBSET W
    BY DEF Under
  <2>2. IsFiniteSet(Under(W, e)) /\ Cardinality(Under(W, e)) <= Cardinality(W)
    BY <2>1, FS_Subset
  <2> QED
    BY <2>1, <2>2, FS_CardinalityType
<1>2. ASSUME NEW e \in W, Before(d, e) PROVE Cardinality(Under(W, d)) < Cardinality(Under(W, e))
  <2>1. Under(W, d) \in SUBSET Under(W, e) /\ d \in Under(W, e) /\ d \notin Under(W, d)
    BY <1>2, BeforeIsAnOrder DEF Under
  <2>2. Cardinality(Under(W, d)) <= Cardinality(Under(W, e)) /\ Cardinality(Under(W, d)) # Cardinality(Under(W, e))
    BY <2>1, <1>1, FS_Subset
  <2> QED
    BY <2>2, <1>1
<1> QED
  BY <1>1, <1>2

LEMMA FirstPosition ==
  ASSUME NEW W, W \subseteq Positions, IsFiniteSet(W), W # {}
  PROVE  \E d \in W : Under(W, d) = {}
<1> DEFINE S == {Cardinality(Under(W, d)) : d \in W}
<1>1. S \subseteq Nat /\ S # {}
  BY UnderGrows
<1>2. PICK n \in S : \A m \in S : n <= m
  <2> HIDE DEF S
  <2> QED
    BY <1>1, LeastNumber
<1>3. PICK d \in W : n = Cardinality(Under(W, d))
  OBVIOUS
<1>4. ASSUME NEW e \in Under(W, d) PROVE FALSE
  <2>1. e \in W /\ Before(e, d)
    BY DEF Under
  <2>2. Cardinality(Under(W, e)) < n /\ n <= Cardinality(Under(W, e)) /\ Cardinality(Under(W, e)) \in Nat /\ n \in Nat
    BY <2>1, <1>1, <1>2, <1>3, UnderGrows
  <2> QED
    BY <2>2
<1> QED
  BY <1>4

LEMMA LastPosition ==
  ASSUME NEW W, W \subseteq Positions, IsFiniteSet(W), W # {}
  PROVE  \E d \in W : \A e \in W : ~Before(d, e)
<1> DEFINE rank(d) == Cardinality(W) - Cardinality(Under(W, d))
           S == {rank(d) : d \in W}
<1>0. Cardinality(W) \in Nat
  BY FS_CardinalityType
<1>1. S \subseteq Nat /\ S # {}
  BY <1>0, UnderGrows
<1>2. PICK n \in S : \A m \in S : n <= m
  <2> HIDE DEF S
  <2> QED
    BY <1>1, LeastNumber
<1>3. PICK d \in W : n = rank(d)
  BY <1>2
<1>4. ASSUME NEW e \in W, Before(d, e) PROVE FALSE
  <2>1. n <= rank(e)
    BY <1>2
  <2>2. Cardinality(Under(W, d)) < Cardinality(Under(W, e))
    BY <1>4, UnderGrows
  <2>3. Cardinality(Under(W, d)) \in Nat /\ Cardinality(Under(W, e)) \in Nat
    BY UnderGrows
  <2> QED
    BY <1>0, <1>3, <2>1, <2>2, <2>3
<1> QED
  BY <1>4

\* The window is the first part of what is ahead, and unless it is all of it,
\* the next cursor is there, at its end.
LEMMA WindowIsFirst ==
  ASSUME AccessTypes, NEW o, NEW c
  PROVE  /\ Ahead(o, c) \subseteq Positions
         /\ \A w \in Window(o, c), d \in Ahead(o, c) \ Window(o, c) : Before(w, d)
         /\ \A n \in NextCursor(o, c) : n \in Window(o, c) /\ \A e \in Window(o, c) : ~Before(n, e)
         /\ Ahead(o, c) # Window(o, c) => NextCursor(o, c) # {}
<1> DEFINE A == Ahead(o, c)
           W == Window(o, c)
<1>1. A \subseteq {0, 1} \X Assets /\ A \subseteq Positions /\ W \subseteq A
  <2>1. W \subseteq A /\ A \subseteq {0, 1} \X Assets
    BY WindowType
  <2>2. {0, 1} \X Assets \subseteq Positions
    BY MediaAccessAssumption DEF Positions
  <2> QED
    BY <2>1, <2>2
<1>2. IsFiniteSet(A) /\ IsFiniteSet(W)
  <2>1. IsFiniteSet({0, 1})
    BY FiniteRanks
  <2>2. IsFiniteSet({0, 1} \X Assets)
    BY <2>1, FS_Product, MediaAccessAssumption
  <2> HIDE DEF A, W
  <2> QED
    BY <1>1, <2>2, FS_Subset
<1>3. W = {d \in A : Cardinality(Under(A, d)) < PageSize}
  BY DEF Window, Under
<1>4. NextCursor(o, c) = {d \in W : A # W /\ \A e \in W : ~Before(d, e)}
  BY DEF NextCursor
<1> HIDE DEF A, W
<1>5. ASSUME NEW w \in W, NEW d \in A \ W PROVE Before(w, d)
  <2>1. /\ Cardinality(Under(A, w)) \in Nat /\ Cardinality(Under(A, d)) \in Nat
        /\ Cardinality(Under(A, w)) < PageSize /\ ~(Cardinality(Under(A, d)) < PageSize)
        /\ Before(d, w) => Cardinality(Under(A, d)) < Cardinality(Under(A, w))
    BY <1>1, <1>2, <1>3, UnderGrows
  <2>2. ~Before(d, w) /\ d # w
    BY <2>1, MediaAccessAssumption
  <2> QED
    BY <2>2, <1>1, BeforeIsAnOrder
<1>6. ASSUME A # W PROVE NextCursor(o, c) # {}
  <2>1. A # {}
    BY <1>1, <1>6
  <2>2. PICK d \in A : Under(A, d) = {}
    BY <2>1, <1>1, <1>2, FirstPosition
  <2>3. d \in W
    BY <2>2, <1>3, FS_EmptySet, MediaAccessAssumption
  <2>4. \E n \in W : \A e \in W : ~Before(n, e)
    BY <2>3, <1>1, <1>2, LastPosition
  <2> QED
    BY <2>4, <1>4, <1>6
<1> QED
  BY <1>1, <1>4, <1>5, <1>6 DEF A, W

-----------------------------------------------------------------------------
\* The next page goes on where the last one ended: nothing is shown again, and
\* what is left is ahead.
LEMMA DeliverKeeps == ASSUME AccessInv, Deliver PROVE AccessInv'
<1> DEFINE o     == read.object
           after == read.after
           W     == Window(o, after)
           A     == Ahead(o, after)
           past  == IF after = Start
                    THEN [wide |-> TRUE, due |-> AssetsAt(Candidates(o)), shown |-> {}, twice |-> FALSE]
                    ELSE walk
           wide  == read.wide /\ past.wide
           next  == [order |-> o, cursor |-> NextCursor(o, after), wide |-> wide,
                     due |-> {a \in past.due : Evidenced(a, wide)}, shown |-> past.shown \cup read.shown,
                     twice |-> past.twice \/ past.shown \cap read.shown # {}]
<1>1. /\ read.step = "answered" /\ read' = Quiet /\ Around
      /\ walk' = IF read.want # "gallery" THEN walk ELSE next
  BY DEF Deliver, At
<1>2. /\ read \in Reads /\ ReadBegun /\ ReadDiscovered /\ ReadAnswered
      /\ AccessTypes /\ WalkInv
  BY <1>1, Busy DEF AccessInv
<1>3. ReadInv'
  BY <1>1, QuietIsNoRead DEF ReadInv
<1>4. CASE read.want # "gallery"
  <2>1. AccessTypes'
    BY <1>1, <1>2, <1>4 DEF AccessTypes, Around, member, evidence
  <2>2. WalkInv'
    BY <1>1, <1>2, <1>4, SameWalk DEF Around
  <2> QED
    BY <1>3, <2>1, <2>2 DEF AccessInv
<1>5. CASE read.want = "gallery"
  <2>1. /\ o \in closed /\ o \in Places /\ after \in Cursors /\ read.wide \in BOOLEAN
        /\ read.assets = AssetsAt(W) /\ read.shown \subseteq read.assets /\ read.shown \subseteq Assets
        /\ \A a \in read.shown : Evidenced(a, read.wide)
        /\ \A a \in read.assets : Evidenced(a, read.wide) => a \in read.shown
    BY <1>1, <1>2, <1>5 DEF ReadBegun, ReadDiscovered, ReadAnswered, Locking, Eligible, Reads, AccessTypes
  <2>2. \/ /\ after = Start /\ past.wide = TRUE /\ past.due = AssetsAt(Candidates(o)) /\ past.shown = {} /\ past.twice = FALSE
        \/ /\ past = walk /\ walk \in Walks /\ after \in walk.cursor /\ walk.order = o
           /\ walk.twice = FALSE /\ ShownOnce /\ DueAhead
    BY <1>2, <1>5 DEF ReadBegun, WalkInv, Walks
  <2>3. /\ Candidates(o) \subseteq {0, 1} \X Assets /\ Candidates(o) \subseteq Cursors /\ W \subseteq A /\ A \subseteq Candidates(o)
        /\ AssetsAt(Candidates(o)) \subseteq Assets
    BY <1>2, WindowType DEF AssetsAt
  <2>4. past.due \subseteq Assets /\ past.shown \subseteq Assets /\ past.wide \in BOOLEAN /\ past.twice = FALSE
    BY <2>2, <2>3 DEF Walks
  <2>5. /\ A \subseteq Positions
        /\ \A w \in W, d \in A \ W : Before(w, d)
        /\ \A n \in NextCursor(o, after) : n \in W /\ \A e \in W : ~Before(n, e)
        /\ A # W => NextCursor(o, after) # {}
    BY <1>2, WindowIsFirst
  <2>6. Cursors \subseteq Positions /\ \A d \in A : Before(after, d)
    <3>1. {0, 1} \X (Assets \cup {0}) \subseteq {0, 1} \X Nat
      <4>1. Assets \cup {0} \subseteq Nat
        BY MediaAccessAssumption
      <4> QED
        BY <4>1
    <3>2. \A d \in A : Before(after, d)
      BY DEF Ahead
    <3> QED
      BY <3>1, <3>2 DEF Cursors, Positions
  <2>7. past.due \subseteq past.shown \cup AssetsAt(A)
    <3>1. CASE after = Start /\ past.due = AssetsAt(Candidates(o))
      <4>1. ASSUME NEW d \in Candidates(o) PROVE Before(Start, d)
        <5>1. d[1] \in {0, 1} /\ d[2] \in Assets
          BY <2>3
        <5>2. d[2] \in Nat /\ d[2] # 0
          BY <5>1, MediaAccessAssumption
        <5> QED
          BY <5>1, <5>2 DEF Before, Start
      <4> QED
        BY <3>1, <4>1 DEF Ahead
    <3>2. CASE past = walk /\ after \in walk.cursor /\ walk.order = o /\ DueAhead
      BY <3>2 DEF DueAhead, AssetsAt
    <3> QED
      BY <2>2, <3>1, <3>2
  <2>8. ASSUME NEW a \in read.shown
        PROVE  \E t \in Targets : Settled(a, t) /\ Place(t) = o /\ <<t[2], a>> \in W
    <3>1. PICK t \in Targets : Settled(a, t)
      BY <1>2, <2>1, OneProof
    <3>2. PICK d \in W : d[2] = a
      BY <2>1 DEF AssetsAt
    <3>3. PICK u \in Targets : <<a, u>> \in attached /\ Place(u) = o /\ d = <<u[2], a>>
      <4>1. d \in Candidates(o)
        BY <2>3, <3>2
      <4>2. PICK x \in attached : Place(x[2]) = o /\ d = <<x[2][2], x[1]>>
        BY <4>1 DEF Candidates
      <4>3. x \in Assets \X Targets
        BY <1>2, <4>2 DEF AccessTypes
      <4>4. x = <<x[1], x[2]>> /\ x[2] \in Targets /\ x[1] = a
        BY <3>2, <4>2, <4>3
      <4> QED
        BY <4>2, <4>4
    <3>4. u = t
      BY <3>1, <3>3 DEF Settled, LinksOf
    <3> QED
      BY <3>1, <3>2, <3>3, <3>4
  <2>9. ASSUME NEW a \in past.shown
        PROVE  \E t \in Targets : Settled(a, t) /\ Place(t) = o /\ ~Before(after, <<t[2], a>>)
    BY <2>2 DEF ShownOnce
  <2>10. past.shown \cap read.shown = {}
    <3> SUFFICES ASSUME NEW a \in past.shown, a \in read.shown PROVE FALSE
      OBVIOUS
    <3>1. PICK t \in Targets : Settled(a, t) /\ <<t[2], a>> \in W
      BY <2>8
    <3>2. PICK u \in Targets : Settled(a, u) /\ ~Before(after, <<u[2], a>>)
      BY <2>9
    <3>3. t = u
      BY <3>1, <3>2 DEF Settled
    <3> QED
      BY <2>3, <2>6, <3>1, <3>2, <3>3
  <2> HIDE DEF A, W
  <2>11. next \in Walks
    BY <2>1, <2>3, <2>4, <2>5 DEF Walks
  <2>12. next.order = o /\ next.cursor = NextCursor(o, after) /\ next.twice = FALSE
         /\ next.due = {a \in past.due : Evidenced(a, wide)} /\ next.shown = past.shown \cup read.shown
    BY <2>4, <2>10
  <2>13. \A a \in next.shown : \E t \in Targets :
           Settled(a, t) /\ Place(t) = o /\ \A n \in NextCursor(o, after) : ~Before(n, <<t[2], a>>)
    <3>1. ASSUME NEW a \in read.shown
          PROVE \E t \in Targets : Settled(a, t) /\ Place(t) = o /\ \A n \in NextCursor(o, after) : ~Before(n, <<t[2], a>>)
      BY <2>5, <2>8
    <3>2. ASSUME NEW a \in past.shown
          PROVE \E t \in Targets : Settled(a, t) /\ Place(t) = o /\ \A n \in NextCursor(o, after) : ~Before(n, <<t[2], a>>)
      <4>1. PICK t \in Targets : Settled(a, t) /\ Place(t) = o /\ ~Before(after, <<t[2], a>>)
        BY <2>9
      <4>2. <<t[2], a>> \in Positions /\ after \in Positions
        BY <2>1, <2>4, <2>6, MediaAccessAssumption DEF Targets, Positions
      <4>3. ASSUME NEW n \in NextCursor(o, after), Before(n, <<t[2], a>>) PROVE FALSE
        <5>1. n \in Positions /\ Before(after, n)
          BY <2>3, <2>5, <2>6
        <5> QED
          BY <4>1, <4>2, <4>3, <5>1, BeforeIsAnOrder
      <4> QED
        BY <4>1, <4>3
    <3> QED
      BY <2>12, <3>1, <3>2
  <2>14. ASSUME NEW a \in next.due \ next.shown
         PROVE  /\ NextCursor(o, after) # {}
                /\ \A n \in NextCursor(o, after) : \E d \in Ahead(o, n) : d[2] = a
    <3>1. a \in past.due /\ a \notin past.shown /\ a \notin read.shown /\ Evidenced(a, wide)
      BY <2>12
    <3>2. Evidenced(a, read.wide)
      BY <2>1, <2>4, <3>1 DEF Evidenced
    <3>3. PICK d \in A : d[2] = a
      BY <2>7, <3>1 DEF AssetsAt
    <3>4. d \notin W
      BY <2>1, <3>1, <3>2, <3>3 DEF AssetsAt
    <3>5. NextCursor(o, after) # {} /\ \A n \in NextCursor(o, after) : Before(n, d)
      BY <2>5, <3>3, <3>4
    <3> QED
      BY <2>3, <3>3, <3>5 DEF Ahead
  <2>15. walk' = next /\ UNCHANGED evidence
    BY <1>1, <1>5 DEF Around
  <2> HIDE DEF next
  <2>16. ShownOnce'
    BY <2>12, <2>13, <2>15, SameEvidence DEF ShownOnce, Settled, evidence
  <2>17. DueAhead'
    BY <2>12, <2>14, <2>15, SameEvidence DEF DueAhead
  <2>18. WalkInv'
    BY <2>1, <2>12, <2>15, <2>16, <2>17 DEF WalkInv, evidence
  <2>19. AccessTypes'
    BY <1>1, <1>2, <2>11, <2>15 DEF AccessTypes, Around, member, evidence
  <2> QED
    BY <1>3, <2>18, <2>19 DEF AccessInv
<1> QED
  BY <1>4, <1>5

-----------------------------------------------------------------------------
(* The changes around a read. *)

LEMMA MemberChangesKeeps == ASSUME AccessInv, MemberChanges PROVE AccessInv'
<1>1. /\ UNCHANGED <<tasks, evidence, read, walk>> /\ turns < MaxTurns /\ turns' = turns + 1
      /\ roles' \in SUBSET RoleCodes /\ active' \in BOOLEAN
      /\ read.step \in {"discovered", "locked", "answered"} => ~Locking
  BY DEF MemberChanges, Turn, At, Locking, AccessInv, AccessTypes
<1>2. AccessTypes'
  BY <1>1, MediaAccessAssumption DEF AccessInv, AccessTypes, evidence
<1>3. ReadInv'
  BY <1>1 DEF AccessInv, ReadInv, ReadBegun, ReadDiscovered, ReadLocked, ReadAnswered, Locking, evidence
<1>4. WalkInv'
  BY <1>1, SameWalk DEF AccessInv
<1> QED
  BY <1>2, <1>3, <1>4 DEF AccessInv

LEMMA TasksChange ==
  ASSUME AccessInv, UNCHANGED <<roles, active, evidence>>, Turn, tasks' \subseteq Places \X Tasks,
         \A p \in closed : read.step = "answered" /\ ~read.wide /\ p \in read.places /\ <<p, "technician">> \in tasks
                             => <<p, "technician">> \in tasks'
  PROVE  AccessInv'
<1>1. UNCHANGED <<read, walk>> /\ turns < MaxTurns /\ turns' = turns + 1
  BY DEF Turn
<1>2. AccessTypes'
  BY <1>1, MediaAccessAssumption DEF AccessInv, AccessTypes, evidence
<1>3. ASSUME read \in Reads PROVE ReadBegun' /\ ReadDiscovered' /\ ReadLocked'
  BY <1>1, <1>3, SameEvidence DEF AccessInv, ReadInv, ReadBegun, ReadDiscovered, ReadLocked, Locking, evidence
<1>4. ASSUME read \in Reads PROVE ReadAnswered'
  <2>1. ReadAnswered /\ ReadLocked
    BY <1>4 DEF AccessInv, ReadInv
  <2>2. ASSUME read.step = "answered", Locking, NEW a \in read.shown, Eligible(a, read.wide) PROVE Eligible(a, read.wide)'
    <3>1. Evidenced(a, read.wide)'
      BY <1>1, <2>2, SameEvidence DEF Eligible
    <3>2. ASSUME ~read.wide, NEW p \in PlacesOf({a}) PROVE AssignedTo(p)'
      <4>1. p \in read.places /\ AssignedTo(p)
        BY <2>1, <2>2, <3>2 DEF ReadLocked, ReadAnswered, PlacesOf, Eligible
      <4> QED
        BY <4>1, <2>2, <3>2 DEF AssignedTo, evidence
    <3> QED
      BY <1>1, <3>1, <3>2, SameEvidence DEF Eligible
  <2> QED
    BY <1>1, <2>1, <2>2, SameEvidence DEF ReadAnswered, Locking
<1>5. WalkInv'
  BY <1>1, SameWalk DEF AccessInv
<1> QED
  BY <1>1, <1>2, <1>3, <1>4, <1>5 DEF AccessInv, ReadInv

LEMMA AssignKeeps == ASSUME AccessInv, Assign PROVE AccessInv'
<1>1. tasks' \subseteq Places \X Tasks /\ tasks \subseteq tasks'
  BY DEF Assign, AccessInv, AccessTypes
<1> QED
  BY <1>1, TasksChange DEF Assign

LEMMA ReleaseTaskKeeps == ASSUME AccessInv, ReleaseTask PROVE AccessInv'
<1>1. PICK x \in tasks : ~(At("answered") /\ ~read.wide /\ x[1] \in read.places) /\ tasks' = tasks \ {x}
  BY DEF ReleaseTask
<1>2. tasks' \subseteq Places \X Tasks
  BY <1>1 DEF AccessInv, AccessTypes
<1>3. \A p \in closed : read.step = "answered" /\ ~read.wide /\ p \in read.places /\ <<p, "technician">> \in tasks
                          => <<p, "technician">> \in tasks'
  BY <1>1 DEF At
<1> QED
  BY <1>2, <1>3, TasksChange DEF ReleaseTask

LEMMA CloseReceptionKeeps == ASSUME AccessInv, CloseReception PROVE AccessInv'
<1>1. /\ UNCHANGED <<roles, active, tasks, media, attached, read, walk>> /\ turns < MaxTurns /\ turns' = turns + 1
      /\ closed \subseteq closed' /\ closed' \subseteq Places
  BY DEF CloseReception, Turn, member, AccessInv, AccessTypes
<1>2. AccessTypes'
  BY <1>1, MediaAccessAssumption DEF AccessInv, AccessTypes
<1>3. /\ \A a : (LinksOf(a)' = LinksOf(a)) /\ (Readable(a)' = Readable(a))
      /\ \A S : PlacesOf(S)' = PlacesOf(S)
      /\ \A a, legacy : Evidenced(a, legacy)' = Evidenced(a, legacy)
      /\ \A o, c : (Ahead(o, c)' = Ahead(o, c)) /\ (Window(o, c)' = Window(o, c))
  BY <1>1 DEF LinksOf, Readable, PlacesOf, Evidenced, Candidates, Ahead, Window
<1>4. \A a, wide : Eligible(a, wide) => Eligible(a, wide)'
  BY <1>1, <1>3 DEF Eligible, AssignedTo
<1>5. ReadInv'
  <2>1. ASSUME read \in Reads PROVE ReadBegun' /\ ReadDiscovered' /\ ReadLocked'
    BY <1>1, <1>3, <2>1 DEF AccessInv, ReadInv, ReadBegun, ReadDiscovered, ReadLocked, Locking
  <2>2. ASSUME read \in Reads PROVE ReadAnswered'
    BY <1>1, <1>3, <1>4, <2>2 DEF AccessInv, ReadInv, ReadAnswered, Locking
  <2> QED
    BY <1>1, <2>1, <2>2 DEF ReadInv
<1>6. WalkInv'
  BY <1>1, <1>3 DEF AccessInv, WalkInv, ShownOnce, DueAhead, Settled
<1> QED
  BY <1>2, <1>5, <1>6 DEF AccessInv

LEMMA AttachKeeps == ASSUME AccessInv, Attach PROVE AccessInv'
<1>1. PICK a \in Assets, t \in Targets :
        /\ media[a].proofs = {t} /\ Place(t) \notin closed /\ ~AssetLocked(a)
        /\ attached' = attached \cup {<<a, t>>}
  BY DEF Attach
<1>2. UNCHANGED <<roles, active, tasks, closed, media, read, walk>> /\ turns < MaxTurns /\ turns' = turns + 1
  BY DEF Attach, Turn, member
<1>3. AccessTypes'
  BY <1>1, <1>2, MediaAccessAssumption DEF AccessInv, AccessTypes
<1>4. LinksOf(a)' = LinksOf(a) \cup {t} /\ \A b : b # a => LinksOf(b)' = LinksOf(b)
  BY <1>1 DEF LinksOf
<1>5. ASSUME NEW o \in closed PROVE Candidates(o)' = Candidates(o)
  <2>1. {y \in attached' : Place(y[2]) = o} = {y \in attached : Place(y[2]) = o}
    BY <1>1
  <2> QED
    BY <2>1 DEF Candidates
<1>6. \A o \in closed : \A c : (Ahead(o, c)' = Ahead(o, c)) /\ (Window(o, c)' = Window(o, c))
  BY <1>5 DEF Ahead, Window
<1>7. ASSUME NEW S, a \notin S PROVE PlacesOf(S)' = PlacesOf(S)
  BY <1>2, <1>4, <1>7 DEF PlacesOf
<1>8. \A b, legacy : b # a => Evidenced(b, legacy)' = Evidenced(b, legacy)
  BY <1>2, <1>4 DEF Evidenced, Readable
<1>9. \A b, wide : b # a => Eligible(b, wide)' = Eligible(b, wide)
  BY <1>2, <1>7, <1>8 DEF Eligible, AssignedTo
<1>10. ReadInv'
  <2>1. ASSUME read \in Reads PROVE ReadBegun'
    BY <1>2, <2>1 DEF AccessInv, ReadInv, ReadBegun
  <2>2. ASSUME read \in Reads PROVE ReadDiscovered'
    BY <1>2, <1>6, <2>2 DEF AccessInv, ReadInv, ReadBegun, ReadDiscovered, Locking
  <2>3. read.step \in {"locked", "answered"} => a \notin read.assets
    BY <1>1 DEF AssetLocked
  <2>4. ASSUME read \in Reads PROVE ReadLocked'
    BY <1>2, <1>7, <2>3, <2>4 DEF AccessInv, ReadInv, ReadLocked, Locking
  <2>5. ASSUME read \in Reads PROVE ReadAnswered'
    BY <1>2, <1>8, <1>9, <2>3, <2>5 DEF AccessInv, ReadInv, ReadAnswered, Locking, Readable
  <2> QED
    BY <1>2, <2>1, <2>2, <2>4, <2>5 DEF ReadInv
<1>11. \A b, u : Settled(b, u) => Settled(b, u)'
  <2> SUFFICES ASSUME NEW b, NEW u, Settled(b, u) PROVE Settled(b, u)'
    OBVIOUS
  <2>1. CASE b # a
    BY <1>2, <1>4, <2>1 DEF Settled
  <2>2. CASE b = a
    <3>1. t # Unbound
      BY MediaAccessAssumption DEF Targets
    <3>2. u = t
      BY <1>1, <2>2, <3>1 DEF Settled
    <3> QED
      BY <1>2, <1>4, <2>2, <3>2 DEF Settled
  <2> QED
    BY <2>1, <2>2
<1>12. WalkInv'
  <2>1. ShownOnce => ShownOnce'
    BY <1>2, <1>11 DEF ShownOnce
  <2>2. walk.order \in closed => (DueAhead <=> DueAhead')
    BY <1>2, <1>6 DEF DueAhead
  <2> QED
    BY <1>2, <2>1, <2>2 DEF AccessInv, WalkInv
<1> QED
  BY <1>3, <1>10, <1>12 DEF AccessInv

\* An asset that no read has locked is deleted or marked; its uploads stay.
LEMMA MediaTurn ==
  ASSUME AccessInv, Turn, UNCHANGED <<member, closed, attached>>, NEW a \in Assets, ~AssetLocked(a),
         NEW state \in {"active", "deleted"}, NEW marked \in BOOLEAN,
         media' = [media EXCEPT ![a] = [media[a] EXCEPT !.status = state, !.marked = marked]]
  PROVE  AccessInv'
<1>1. UNCHANGED <<roles, active, tasks, closed, attached, read, walk>> /\ turns < MaxTurns /\ turns' = turns + 1
  BY DEF Turn, member
<1>2. AccessTypes'
  <2>1. media[a] \in [status : {"active", "deleted"}, marked : BOOLEAN, proofs : SUBSET (Targets \cup {Unbound})]
    BY DEF AccessInv, AccessTypes
  <2>2. [media[a] EXCEPT !.status = state, !.marked = marked]
          \in [status : {"active", "deleted"}, marked : BOOLEAN, proofs : SUBSET (Targets \cup {Unbound})]
    BY <2>1
  <2> QED
    BY <1>1, <2>2, MediaAccessAssumption DEF AccessInv, AccessTypes
<1>3. \A b \in Assets : media'[b].proofs = media[b].proofs /\ (b # a => media'[b] = media[b])
  BY DEF AccessInv, AccessTypes
<1>4. \A b : LinksOf(b)' = LinksOf(b)
  BY <1>1 DEF LinksOf
<1>5. \A S \in SUBSET Assets : PlacesOf(S)' = PlacesOf(S)
  BY <1>3, <1>4 DEF PlacesOf
<1>6. \A b \in Assets : \A legacy : b # a => Evidenced(b, legacy)' = Evidenced(b, legacy)
  BY <1>3, <1>4 DEF Evidenced, Readable
<1>7. ASSUME NEW b \in Assets, b # a, NEW wide PROVE Eligible(b, wide)' = Eligible(b, wide)
  <2>1. PlacesOf({b})' = PlacesOf({b})
    BY <1>5
  <2> QED
    BY <1>1, <1>6, <1>7, <2>1 DEF Eligible, AssignedTo
<1>8. \A o, c : (Ahead(o, c)' = Ahead(o, c)) /\ (Window(o, c)' = Window(o, c))
  BY <1>1 DEF Candidates, Ahead, Window
<1>9. ReadInv'
  <2>0. ASSUME read \in Reads PROVE read.assets \subseteq Assets
    BY <2>0 DEF Reads
  <2>1. ASSUME read \in Reads PROVE ReadBegun' /\ ReadDiscovered'
    BY <1>1, <1>8, <2>1 DEF AccessInv, ReadInv, ReadBegun, ReadDiscovered, Locking
  <2>2. ASSUME read \in Reads PROVE ReadLocked'
    BY <1>1, <1>5, <2>0, <2>2 DEF AccessInv, ReadInv, ReadLocked, Locking
  <2>3. read.step \in {"locked", "answered"} => a \notin read.assets
    BY DEF AssetLocked
  <2>4. ASSUME read \in Reads PROVE ReadAnswered'
    <3>1. \A b \in read.assets : read.step = "answered" => b \in Assets /\ b # a /\ Readable(b)' = Readable(b)
      BY <1>3, <2>0, <2>3, <2>4 DEF Readable
    <3> QED
      BY <1>1, <1>6, <1>7, <2>4, <3>1 DEF AccessInv, ReadInv, ReadAnswered, Locking
  <2> QED
    BY <1>1, <2>1, <2>2, <2>4 DEF ReadInv
<1>10. WalkInv'
  <2>1. ASSUME walk \in Walks, ShownOnce PROVE ShownOnce'
    <3>1. walk.shown \subseteq Assets
      BY <2>1 DEF Walks
    <3>2. \A b \in Assets : \A u : Settled(b, u)' = Settled(b, u)
      BY <1>3, <1>4 DEF Settled
    <3> QED
      BY <1>1, <2>1, <3>1, <3>2 DEF ShownOnce
  <2> QED
    BY <1>1, <1>8, <2>1 DEF AccessInv, WalkInv, DueAhead
<1> QED
  BY <1>2, <1>9, <1>10 DEF AccessInv

LEMMA RemoveUnattachedKeeps == ASSUME AccessInv, RemoveUnattached PROVE AccessInv'
<1>1. PICK a \in Assets : ~AssetLocked(a) /\ media' = [media EXCEPT ![a].status = "deleted"]
  BY DEF RemoveUnattached
<1>2. media[a].marked \in BOOLEAN /\ media' = [media EXCEPT ![a] = [media[a] EXCEPT !.status = "deleted", !.marked = media[a].marked]]
  BY <1>1 DEF AccessInv, AccessTypes
<1> QED
  BY <1>1, <1>2, MediaTurn DEF RemoveUnattached

LEMMA MarkKeeps == ASSUME AccessInv, Mark PROVE AccessInv'
<1>1. PICK a \in Assets : Readable(a) /\ ~AssetLocked(a) /\ media' = [media EXCEPT ![a].marked = TRUE]
  BY DEF Mark
<1>2. media' = [media EXCEPT ![a] = [media[a] EXCEPT !.status = "active", !.marked = TRUE]]
  BY <1>1 DEF AccessInv, AccessTypes, Readable
<1> QED
  BY <1>1, <1>2, MediaTurn DEF Mark

LEMMA NextAccessInv == AccessInv /\ [AccessNext]_accessVars => AccessInv'
<1> SUFFICES ASSUME AccessInv, [AccessNext]_accessVars PROVE AccessInv'
  OBVIOUS
<1>1. CASE BeginDownload \/ BeginList \/ BeginPage
  BY <1>1, BeginKeeps
<1>2. CASE RefuseRead \/ ReadList \/ LockReader \/ LockGraph
  BY <1>2, RefuseReadKeeps, ReadListKeeps, LockReaderKeeps, LockGraphKeeps
<1>3. CASE SignDownload \/ ShowAssigned \/ ShowPage \/ Deliver \/ CursorLapses
  BY <1>3, SignDownloadKeeps, ShowAssignedKeeps, ShowPageKeeps, DeliverKeeps, CursorLapsesKeeps
<1>4. CASE MemberChanges \/ Assign \/ ReleaseTask \/ CloseReception
  BY <1>4, MemberChangesKeeps, AssignKeeps, ReleaseTaskKeeps, CloseReceptionKeeps
<1>5. CASE Attach \/ RemoveUnattached \/ Mark
  BY <1>5, AttachKeeps, RemoveUnattachedKeeps, MarkKeeps
<1>6. CASE UNCHANGED accessVars
  <2>1. UNCHANGED <<roles, active, closed, tasks, media, attached, read, walk, turns>>
    BY <1>6 DEF accessVars, member, evidence
  <2>2. AccessTypes'
    BY <2>1 DEF AccessInv, AccessTypes
  <2>3. \A a, wide : Eligible(a, wide)' <=> Eligible(a, wide)
    BY <2>1, SameEvidence DEF Eligible, AssignedTo, evidence
  <2>4. ReadInv'
    BY <2>1, <2>3, SameEvidence DEF AccessInv, ReadInv, ReadBegun, ReadDiscovered, ReadLocked, ReadAnswered, Locking, evidence
  <2>5. WalkInv'
    BY <2>1, SameWalk DEF AccessInv, evidence
  <2> QED
    BY <2>2, <2>4, <2>5 DEF AccessInv
<1> QED
  BY <1>1, <1>2, <1>3, <1>4, <1>5, <1>6 DEF AccessNext

LEMMA AccessInvImplies == AccessInv => ReadsAreSound
<1> SUFFICES ASSUME AccessInv PROVE ReadsAreSound
  OBVIOUS
<1>1. AccessTypeOK
  <2>1. read \in Reads =>
          /\ read.step \in {"reader", "discovered", "locked", "answered"}
          /\ read.assets \cup read.shown \subseteq Assets
          /\ read.page \cup {read.after} \subseteq Cursors
          /\ read.orders \subseteq read.places /\ read.places \subseteq Places
    BY DEF AccessInv, ReadInv, ReadBegun, Reads
  <2>2. walk \in Walks => walk.cursor \subseteq Cursors /\ walk.due \cup walk.shown \subseteq Assets
    BY DEF Walks
  <2> QED
    BY <2>1, <2>2 DEF AccessInv, AccessTypes, AccessTypeOK
<1>2. AuthorizedWhenRead
  <2> SUFFICES ASSUME read.step = "answered", Locking
               PROVE  /\ active
                      /\ read.wide => "tenant" \in GrantOf(roles, "media.read")
                      /\ \A a \in read.shown : Readable(a)
                      /\ read.want = "gallery" => \A a \in read.shown : <<a, read.object>> \in {<<x[1], Place(x[2])>> : x \in attached}
                      /\ ~read.wide => \A a \in read.shown :
                           \E p \in closed : /\ {Place(t) : t \in LinksOf(a)} = {p}
                                             /\ <<p, "technician">> \in tasks /\ ~media[a].marked
    BY DEF AuthorizedWhenRead, At, Locking
  <2>1. read \in Reads /\ ReadDiscovered /\ ReadAnswered /\ AccessTypes
    BY Busy DEF AccessInv
  <2>2. ASSUME read.want = "gallery", NEW a \in read.shown
        PROVE  <<a, read.object>> \in {<<x[1], Place(x[2])>> : x \in attached}
    <3>1. a \in AssetsAt(Candidates(read.object))
      BY <2>1, <2>2, WindowType DEF ReadDiscovered, ReadAnswered, AssetsAt
    <3>2. PICK x \in attached : Place(x[2]) = read.object /\ x[1] = a
      BY <3>1 DEF AssetsAt, Candidates
    <3> QED
      BY <3>2
  <2>3. ASSUME ~read.wide, NEW a \in read.shown
        PROVE  \E p \in closed : /\ {Place(t) : t \in LinksOf(a)} = {p}
                                 /\ <<p, "technician">> \in tasks /\ ~media[a].marked
    <3>1. a \in Assets /\ read.wide = FALSE /\ Eligible(a, FALSE)
      BY <2>1, <2>3 DEF ReadAnswered, Reads
    <3>2. PICK t \in Targets : LinksOf(a) = {t} /\ media[a].proofs = {t}
      BY <2>1, <3>1, OneProof DEF Eligible
    <3>3. Place(t) \in PlacesOf({a}) /\ {Place(u) : u \in LinksOf(a)} = {Place(t)}
      BY <3>2 DEF PlacesOf
    <3>4. Place(t) \in closed /\ <<Place(t), "technician">> \in tasks /\ ~media[a].marked
      BY <3>1, <3>3 DEF Eligible, AssignedTo, Evidenced
    <3> QED
      BY <3>3, <3>4
  <2> QED
    BY <2>1, <2>2, <2>3 DEF ReadDiscovered, ReadAnswered
<1>3. GalleryMissesNothing
  <2> SUFFICES ASSUME walk # NoWalk PROVE ~walk.twice /\ (walk.cursor = {} => walk.due \subseteq walk.shown)
    BY DEF GalleryMissesNothing
  <2>1. walk \in Walks /\ ~walk.twice /\ DueAhead
    BY DEF AccessInv, AccessTypes, WalkInv
  <2> QED
    BY <2>1 DEF DueAhead
<1> QED
  BY <1>1, <1>2, <1>3 DEF ReadsAreSound

\* What a member is shown was readable in the lineage it was locked in, an
\* assigned technician sees only assets of one closed order, and a walk through
\* a gallery shows nothing twice and misses nothing that was due (media/content,
\* media/queries).
THEOREM ReadsSound == AccessSpec => []ReadsAreSound
<1>1. AccessSpec => []AccessInv
  BY InitAccessInv, NextAccessInv, PTL DEF AccessSpec
<1> QED
  BY <1>1, AccessInvImplies, PTL
=============================================================================
