------------------------- MODULE ExternalRouteProofs -------------------------
(***************************************************************************)
(* Type correctness of ExternalRoute, that the loader is the first boot    *)
(* entry only after a good try, and that what belongs to others stays, for *)
(* every set of machines, boot managers and boot entries, and for any      *)
(* number of disturbances.                                                 *)
(*                                                                         *)
(* The inductive invariant is IInv: the types, what the files, the boot    *)
(* entries, the way of a running boot and the history say of each other    *)
(* (Settled), and what is left of a running command (Running).  A command  *)
(* is a list of writes that may end anywhere, so that Running says of each *)
(* kind of command which writes may still come and which of them came      *)
(* before: Settled holds after every one of them.                          *)
(***************************************************************************)
EXTENDS ExternalRoute, FiniteSetTheorems, TLAPS

-----------------------------------------------------------------------------
(* Lists of numbers.                                                       *)

\* Ascending lists a finite set of numbers, each once and in order.
LEMMA AscendingLists ==
    ASSUME NEW S \in SUBSET Nat, IsFiniteSet(S)
    PROVE  /\ Cardinality(S) \in Nat
           /\ Ascending(S) \in [1 .. Cardinality(S) -> S]
           /\ \A i, j \in 1 .. Cardinality(S) :
                 i < j => Ascending(S)[i] < Ascending(S)[j]
           /\ \A n \in S : \E i \in 1 .. Cardinality(S) : Ascending(S)[i] = n
<1> DEFINE D == 1 .. Cardinality(S)
           Upto(n) == {m \in S : m <= n}
           rank == [n \in S |-> Cardinality(Upto(n))]
<1>1. Cardinality(S) \in Nat
  BY FS_CardinalityType
<1>2. ASSUME NEW n \in S
      PROVE  rank[n] \in D
  <2>1. /\ Upto(n) \in SUBSET S /\ n \in Upto(n)
    OBVIOUS
  <2>2. IsFiniteSet(Upto(n)) /\ Cardinality(Upto(n)) <= Cardinality(S)
    BY <2>1, FS_Subset
  <2>3. Cardinality(Upto(n)) \in Nat /\ Cardinality(Upto(n)) # 0
    BY <2>1, <2>2, FS_CardinalityType, FS_EmptySet
  <2> QED
    BY <1>1, <2>2, <2>3
<1>3. ASSUME NEW m \in S, NEW n \in S, m < n
      PROVE  rank[m] < rank[n]
  <2>0. \A x \in Upto(m) : x \in Upto(n)
    <3> TAKE x \in Upto(m)
    <3>1. x \in Nat /\ m \in Nat /\ n \in Nat /\ x <= m /\ m < n /\ x \in S
      BY <1>3
    <3> QED
      BY <3>1
  <2>a. m \in Nat /\ n \in Nat /\ n <= n /\ ~(n <= m)
    BY <1>3
  <2>b. n \in Upto(n) /\ n \notin Upto(m)
    BY <2>a
  <2>c. Upto(m) \in SUBSET Upto(n)
    <3> HIDE DEF Upto
    <3> QED
      BY <2>0
  <2>1. Upto(m) \in SUBSET Upto(n) /\ n \in Upto(n) /\ n \notin Upto(m)
    BY <2>b, <2>c
  <2>2. IsFiniteSet(Upto(n))
    BY FS_Subset
  <2>3. /\ IsFiniteSet(Upto(m)) /\ Cardinality(Upto(m)) <= Cardinality(Upto(n))
        /\ Cardinality(Upto(m)) # Cardinality(Upto(n))
    BY <2>1, <2>2, FS_Subset
  <2>4. Cardinality(Upto(m)) \in Nat /\ Cardinality(Upto(n)) \in Nat
    BY <2>2, <2>3, FS_CardinalityType
  <2> QED
    BY <2>3, <2>4
<1>4. rank \in Injection(S, D)
  <2>1. rank \in [S -> D]
    BY <1>2
  <2>2. \A m, n \in S : rank[m] = rank[n] => m = n
    <3> TAKE m \in S, n \in S
    <3>1. m \in Nat /\ n \in Nat /\ rank[m] \in Nat /\ rank[n] \in Nat
      BY <1>2
    <3> HIDE DEF rank
    <3> QED
      BY <1>3, <3>1
  <2> HIDE DEF rank
  <2> QED
    BY <2>1, <2>2 DEF Injection, IsInjective
<1>5. rank \in Surjection(S, D)
  <2>1. IsFiniteSet(D) /\ Cardinality(D) = Cardinality(S)
    BY <1>1, FS_Interval
  <2> QED
    BY <1>4, <2>1, FS_Injection
<1>6. ASSUME NEW i \in D
      PROVE  Ascending(S)[i] \in S /\ rank[Ascending(S)[i]] = i
  <2>1. \E n \in S : rank[n] = i
    BY <1>5 DEF Surjection
  <2>2. \E n \in S : Cardinality(Upto(n)) = i
    BY <2>1
  <2> HIDE DEF Upto
  <2>3. Ascending(S)[i] = CHOOSE n \in S : Cardinality(Upto(n)) = i
    BY DEF Ascending, Upto
  <2> QED
    BY <2>2, <2>3
<1>7. Ascending(S) \in [D -> S]
  BY <1>6 DEF Ascending
<1>8. ASSUME NEW i \in D, NEW j \in D, i < j
      PROVE  Ascending(S)[i] < Ascending(S)[j]
  <2> HIDE DEF rank
  <2>1. \A a, b \in S : rank[a] = i /\ rank[b] = j => a < b
    <3> TAKE a \in S, b \in S
    <3>1. a \in Nat /\ b \in Nat /\ i \in Nat /\ j \in Nat
      BY <1>1
    <3> HIDE DEF D
    <3> QED
      BY <1>3, <1>8, <3>1
  <2> QED
    BY <1>6, <2>1
<1>9. ASSUME NEW n \in S
      PROVE  \E i \in D : Ascending(S)[i] = n
  <2> HIDE DEF rank
  <2>1. rank[n] \in D
    BY <1>2
  <2>2. Ascending(S)[rank[n]] \in S /\ rank[Ascending(S)[rank[n]]] = rank[n]
    BY <1>6, <2>1
  <2>3. Ascending(S)[rank[n]] = n
    BY <1>4, <2>2 DEF Injection, IsInjective
  <2> QED
    BY <2>1, <2>3
<1> QED
  BY <1>1, <1>7, <1>8, <1>9

Orders == {o \in Seq(Numbers) : IsInjective(o)}

\* Retain keeps the numbers of T, and their order.
LEMMA RetainKeeps ==
    ASSUME NEW s \in Seq(Numbers), NEW T
    PROVE  \E g \in [DOMAIN Retain(s, T) -> DOMAIN s] :
              /\ \E n \in Nat : DOMAIN Retain(s, T) = 1 .. n
              /\ \A i \in DOMAIN Retain(s, T) :
                    Retain(s, T)[i] = s[g[i]] /\ s[g[i]] \in T
              /\ \A i, j \in DOMAIN Retain(s, T) : i < j => g[i] < g[j]
              /\ \A k \in DOMAIN s :
                    s[k] \in T => \E i \in DOMAIN Retain(s, T) : g[i] = k
<1> DEFINE I == {i \in DOMAIN s : s[i] \in T}
           g == Ascending(I)
<1>1. I \in SUBSET Nat /\ IsFiniteSet(I)
  <2>1. Len(s) \in Nat /\ DOMAIN s = 1 .. Len(s)
    OBVIOUS
  <2>2. IsFiniteSet(DOMAIN s)
    BY <2>1, FS_Interval
  <2>3. I \in SUBSET DOMAIN s
    OBVIOUS
  <2>4. IsFiniteSet(I)
    BY <2>2, <2>3, FS_Subset
  <2> QED
    BY <2>1, <2>4
<1>2. /\ Cardinality(I) \in Nat
      /\ g \in [1 .. Cardinality(I) -> I]
      /\ \A i, j \in 1 .. Cardinality(I) : i < j => g[i] < g[j]
      /\ \A n \in I : \E i \in 1 .. Cardinality(I) : g[i] = n
  BY <1>1, AscendingLists
<1>3. Retain(s, T) = [i \in 1 .. Cardinality(I) |-> s[g[i]]]
  <2>1. Retain(s, T) = [i \in DOMAIN g |-> s[g[i]]]
    BY DEF Retain
  <2> HIDE DEF g
  <2> QED
    BY <1>2, <2>1
<1> HIDE DEF g
<1>4. DOMAIN Retain(s, T) = 1 .. Cardinality(I)
  BY <1>3
<1>5. g \in [DOMAIN Retain(s, T) -> DOMAIN s]
  <2>1. I \subseteq DOMAIN s
    OBVIOUS
  <2> HIDE DEF I
  <2> QED
    BY <1>2, <1>4, <2>1
<1> WITNESS g \in [DOMAIN Retain(s, T) -> DOMAIN s]
<1> QED
  BY <1>2, <1>3, <1>4

LEMMA RetainOrder ==
    ASSUME NEW s \in Seq(Numbers), NEW T
    PROVE  /\ Retain(s, T) \in Seq(Numbers)
           /\ Range(Retain(s, T)) = Range(s) \cap T
           /\ IsInjective(s) => IsInjective(Retain(s, T))
<1> DEFINE r == Retain(s, T)
<1>1. PICK g \in [DOMAIN r -> DOMAIN s] :
         /\ \E n \in Nat : DOMAIN r = 1 .. n
         /\ \A i \in DOMAIN r : r[i] = s[g[i]] /\ s[g[i]] \in T
         /\ \A i, j \in DOMAIN r : i < j => g[i] < g[j]
         /\ \A k \in DOMAIN s : s[k] \in T => \E i \in DOMAIN r : g[i] = k
  BY RetainKeeps
<1>2. \A k \in DOMAIN s : s[k] \in Numbers
  OBVIOUS
<1>3. r = [i \in DOMAIN r |-> r[i]]
  BY DEF Retain
<1> HIDE DEF r
<1>4. r \in Seq(Numbers)
  <2>1. PICK n \in Nat : DOMAIN r = 1 .. n
    BY <1>1
  <2>2. \A i \in 1 .. n : r[i] \in Numbers
    BY <1>1, <1>2, <2>1
  <2>3. r \in [1 .. n -> Numbers]
    BY <1>3, <2>1, <2>2
  <2> QED
    BY <2>3
<1>5. Range(r) = Range(s) \cap T
  BY <1>1 DEF Range
<1>6. ASSUME IsInjective(s) PROVE IsInjective(r)
  <2> SUFFICES ASSUME NEW i \in DOMAIN r, NEW j \in DOMAIN r, r[i] = r[j]
               PROVE  i = j
    BY DEF IsInjective
  <2>1. g[i] = g[j]
    BY <1>1, <1>6 DEF IsInjective
  <2>2. i \in Nat /\ j \in Nat /\ g[i] \in Nat /\ g[j] \in Nat
    BY <1>1
  <2>3. ~(i < j) /\ ~(j < i)
    BY <1>1, <2>1, <2>2
  <2> QED
    BY <2>2, <2>3
<1> QED
  BY <1>4, <1>5, <1>6 DEF r

\* What comes before the Windows Boot Manager.
BeforeWindows(s) ==
    {s[i] : i \in {k \in DOMAIN s : \A j \in 1 .. k : s[j] # Windows}}

LEMMA RetainBefore ==
    ASSUME NEW s \in Seq(Numbers), NEW T, Windows \in T
    PROVE  BeforeWindows(Retain(s, T)) \subseteq BeforeWindows(s)
<1> DEFINE r == Retain(s, T)
<1>1. PICK g \in [DOMAIN r -> DOMAIN s] :
         /\ \E n \in Nat : DOMAIN r = 1 .. n
         /\ \A i \in DOMAIN r : r[i] = s[g[i]] /\ s[g[i]] \in T
         /\ \A i, j \in DOMAIN r : i < j => g[i] < g[j]
         /\ \A k \in DOMAIN s : s[k] \in T => \E i \in DOMAIN r : g[i] = k
  BY RetainKeeps
<1> HIDE DEF r
<1>2. SUFFICES ASSUME NEW i \in DOMAIN r, \A j \in 1 .. i : r[j] # Windows,
                      NEW k \in 1 .. g[i], s[k] = Windows
               PROVE  FALSE
  <2>1. \A i \in DOMAIN r :
           (\A j \in 1 .. i : r[j] # Windows)
               => \A k \in 1 .. g[i] : s[k] # Windows
    BY <1>2
  <2>2. \A i \in DOMAIN r : r[i] = s[g[i]] /\ g[i] \in DOMAIN s
    BY <1>1
  <2> QED
    BY <2>1, <2>2 DEF BeforeWindows, r
<1>3. g[i] \in DOMAIN s /\ k \in DOMAIN s /\ k <= g[i] /\ k \in Nat /\ g[i] \in Nat
  BY <1>1
<1>4. PICK j \in DOMAIN r : g[j] = k
  BY <1>1, <1>2, <1>3
<1>5. r[j] = Windows
  BY <1>1, <1>2, <1>4
<1>6. i \in Nat /\ j \in Nat /\ 1 <= j
  BY <1>1
<1>7. j <= i
  <2>1. ~(i < j)
    BY <1>1, <1>3, <1>4
  <2> QED
    BY <1>6, <2>1
<1> QED
  BY <1>2, <1>5, <1>6, <1>7

-----------------------------------------------------------------------------
(* The boot entries.                                                       *)

\* The Boot#### numbers in BootOrder that are not the application's.
Listed == {Windows} \cup Foreign

HeadIsLoader == order # <<>> /\ variables[order[1]] = "loader"
LoaderListed == \E n \in Range(order) : variables[n] = "loader"

LEMMA LeastNumber ==
    ASSUME NEW S \in SUBSET Nat, IsFiniteSet(S), S # {}
    PROVE  \E n \in S : \A m \in S : n <= m
<1> DEFINE a == Ascending(S)
           D == 1 .. Cardinality(S)
<1>1. /\ Cardinality(S) \in Nat
      /\ a \in [D -> S]
      /\ \A i, j \in D : i < j => a[i] < a[j]
      /\ \A n \in S : \E i \in D : a[i] = n
  BY AscendingLists
<1> HIDE DEF a
<1>2. Cardinality(S) # 0
  BY FS_EmptySet
<1>3. 1 \in D /\ a[1] \in S
  BY <1>1, <1>2
<1>4. ASSUME NEW m \in S PROVE a[1] <= m
  <2>1. PICK i \in D : a[i] = m
    BY <1>1
  <2>2. i = 1 \/ 1 < i
    OBVIOUS
  <2>3. a[1] = m \/ a[1] < m
    BY <1>1, <1>3, <2>1, <2>2
  <2>4. a[1] \in Nat /\ m \in Nat
    BY <1>3
  <2> QED
    BY <2>3, <2>4
<1> QED
  BY <1>3, <1>4

LEMMA NumbersFinite == Numbers \in SUBSET Nat /\ IsFiniteSet(Numbers)
BY RouteAssumption, FS_Interval DEF Numbers

LEMMA NoneIsNoNumber == None \notin Numbers
BY RouteAssumption

\* owned_entry is the first entry of the kind.
LEMMA EntryIsFirst ==
    ASSUME TypeOK, NEW kind, NEW At, At = {i \in DOMAIN order : variables[order[i]] = kind}
    PROVE  /\ At = {} => owned_entry(kind) = None
           /\ At # {} => \E i \in At : /\ owned_entry(kind) = order[i]
                                      /\ \A j \in At : i <= j
<1>1. order \in Seq(Numbers)
  BY DEF TypeOK
<1>2. At \in SUBSET (1 .. Len(order)) /\ Len(order) \in Nat
  BY <1>1
<1>3. At \in SUBSET Nat /\ IsFiniteSet(At)
  <2>1. IsFiniteSet(1 .. Len(order))
    BY <1>2, FS_Interval
  <2> QED
    BY <1>2, <2>1, FS_Subset
<1>4. At # {} => \E i \in At : \A j \in At : i <= j
  BY <1>3, LeastNumber
<1>5. owned_entry(kind)
        = IF At = {} THEN None ELSE order[CHOOSE i \in At : \A j \in At : i <= j]
  BY DEF owned_entry
<1> QED
  BY <1>4, <1>5

\* owned_entry finds an entry of the kind, if BootOrder names one.
LEMMA EntryFound ==
    ASSUME TypeOK, NEW kind
    PROVE  /\ owned_entry(kind) # None
                  => /\ owned_entry(kind) \in Range(order)
                     /\ variables[owned_entry(kind)] = kind
           /\ \A n \in Range(order) : variables[n] = kind => owned_entry(kind) # None
<1>1. PICK At : At = {i \in DOMAIN order : variables[order[i]] = kind}
  OBVIOUS
<1>2. Range(order) = {order[i] : i \in DOMAIN order} /\ Range(order) \subseteq Numbers
  BY DEF TypeOK, Range
<1>3. /\ At = {} => owned_entry(kind) = None
      /\ At # {} => \E i \in At : owned_entry(kind) = order[i]
  BY <1>1, EntryIsFirst
<1> QED
  BY <1>1, <1>2, <1>3, NoneIsNoNumber

\* The loader is the first entry exactly if the first variable is its own.
LEMMA FirstEntry ==
    ASSUME TypeOK
    PROVE  loader_first <=> HeadIsLoader
<1>1. order \in Seq(Numbers)
  BY DEF TypeOK
<1>2. order # <<>> => /\ Head(order) = order[1] /\ order[1] \in Range(order)
                      /\ order[1] \in Numbers /\ 1 \in DOMAIN order
  BY <1>1 DEF Range
<1>3. ASSUME loader_first PROVE HeadIsLoader
  BY <1>2, <1>3, EntryFound, NoneIsNoNumber DEF loader_first, HeadIsLoader
<1>4. ASSUME HeadIsLoader PROVE loader_first
  <2>1. PICK At : At = {i \in DOMAIN order : variables[order[i]] = "loader"}
    OBVIOUS
  <2>2. order # <<>> /\ 1 \in At
    BY <1>2, <1>4, <2>1 DEF HeadIsLoader
  <2>3. PICK i \in At : owned_entry("loader") = order[i] /\ \A j \in At : i <= j
    BY <2>1, <2>2, EntryIsFirst
  <2>4. i \in Nat /\ 1 <= i
    BY <1>1, <2>1
  <2>5. i = 1
    BY <2>2, <2>3, <2>4
  <2> QED
    BY <1>2, <2>2, <2>3, <2>5 DEF loader_first
<1> QED
  BY <1>3, <1>4

\* A stage gets the number it has, or one that BootOrder does not name.
LEMMA NumberOfStage ==
    ASSUME TypeOK, NEW kind, Number(kind) # None
    PROVE  /\ Number(kind) \in Numbers
           /\ Number(kind) \in Range(order) => variables[Number(kind)] = kind
<1> DEFINE Free == Numbers \ Range(order)
<1>1. Range(order) \subseteq Numbers
  BY DEF TypeOK, Range
<1>2. CASE owned_entry(kind) # None
  BY <1>1, <1>2, EntryFound DEF Number
<1>3. CASE owned_entry(kind) = None
  <2>1. Number(kind) = free_number
    BY <1>3 DEF Number
  <2>2. Free # {} /\ free_number = CHOOSE n \in Free : \A m \in Free : n <= m
    BY <2>1 DEF free_number
  <2>3. Free \in SUBSET Nat /\ IsFiniteSet(Free)
    <3>1. Free \in SUBSET Numbers
      OBVIOUS
    <3> QED
      BY <3>1, NumbersFinite, FS_Subset
  <2> HIDE DEF Free
  <2>4. \E n \in Free : \A m \in Free : n <= m
    BY <2>2, <2>3, LeastNumber
  <2>5. free_number \in Free
    BY <2>2, <2>4
  <2> QED
    BY <2>1, <2>5 DEF Free
<1> QED
  BY <1>2, <1>3

\* A number appended to BootOrder comes after Windows.
LEMMA AppendedLast ==
    ASSUME NEW s \in Orders, NEW n \in Numbers, n \notin Range(s),
           Windows \in Range(s)
    PROVE  /\ Append(s, n) \in Orders
           /\ s # <<>> /\ Append(s, n) # <<>> /\ Append(s, n)[1] = s[1]
           /\ Range(Append(s, n)) = Range(s) \cup {n}
           /\ BeforeWindows(Append(s, n)) = BeforeWindows(s)
<1> DEFINE t == Append(s, n)
<1>1. /\ s \in Seq(Numbers) /\ IsInjective(s)
      /\ Len(s) \in Nat /\ DOMAIN s = 1 .. Len(s)
  BY DEF Orders
<1>2. /\ t \in Seq(Numbers) /\ DOMAIN t = 1 .. Len(s) + 1
      /\ t[Len(s) + 1] = n
      /\ \A i \in DOMAIN s : t[i] = s[i]
  BY <1>1
<1>3. PICK w \in DOMAIN s : s[w] = Windows
  BY DEF Range
<1>4. 1 \in DOMAIN s /\ s # <<>> /\ t # <<>>
  BY <1>1, <1>3
<1> HIDE DEF t
<1>5. DOMAIN t = DOMAIN s \cup {Len(s) + 1}
  BY <1>1, <1>2
<1>6. Range(t) = Range(s) \cup {n}
  <2>1. Range(t) = {t[i] : i \in DOMAIN s \cup {Len(s) + 1}}
    BY <1>5 DEF Range
  <2>2. {t[i] : i \in DOMAIN s} = {s[i] : i \in DOMAIN s}
    BY <1>2
  <2>3. {t[i] : i \in DOMAIN s \cup {Len(s) + 1}} = {t[i] : i \in DOMAIN s} \cup {n}
    BY <1>2
  <2> QED
    BY <2>1, <2>2, <2>3 DEF Range
<1>7. IsInjective(t)
  BY <1>1, <1>2, <1>5 DEF IsInjective, Range
<1>8. BeforeWindows(t) = BeforeWindows(s)
  <2> DEFINE F(x, k) == \A j \in 1 .. k : x[j] # Windows
  <2>1. \A k \in DOMAIN s : F(t, k) <=> F(s, k)
    BY <1>1, <1>2
  <2>2. ~F(t, Len(s) + 1)
    <3>1. w \in 1 .. Len(s) + 1 /\ t[w] = Windows
      BY <1>1, <1>2, <1>3
    <3> QED
      BY <3>1
  <2>3. {k \in DOMAIN t : F(t, k)} = {k \in DOMAIN s : F(s, k)}
    <3> HIDE DEF F
    <3> QED
      BY <1>5, <2>1, <2>2
  <2>4. BeforeWindows(t) = {t[i] : i \in {k \in DOMAIN t : F(t, k)}}
    BY DEF BeforeWindows
  <2>5. BeforeWindows(s) = {s[i] : i \in {k \in DOMAIN s : F(s, k)}}
    BY DEF BeforeWindows
  <2> HIDE DEF F
  <2> QED
    BY <1>2, <2>3, <2>4, <2>5
<1> QED
  BY <1>2, <1>4, <1>6, <1>7, <1>8 DEF t, Orders

-----------------------------------------------------------------------------
(* The inductive invariant.                                                *)

Tried(plan) == plan # None /\ plan.source \in tried

NextIsDiagnostic == next # None /\ variables[next] = "diagnostic"

\* A result that lets the loader be made permanent.
Proven == widened /\ files.owner = "loader" /\ files.receipts # {}

OthersStay ==
    /\ Listed \subseteq Range(order)
    /\ \A n \in Listed : variables[n] \in {"windows", "foreign"}
    /\ variables[Windows] = "windows"

\* The firmware comes to Windows before it comes to a diagnostic.
NoDiagnosticFirst == \A n \in BeforeWindows(order) : variables[n] # "diagnostic"

DriveHasNoEntries == mode = "usb" => \A n \in Numbers : ~Owned(n)

LoaderNeedsStage == files.owner = None => ~HeadIsLoader

FirstHasTriedPlan == HeadIsLoader => Tried(files.plan)

ProvenPlan == Proven /\ LoaderListed => Tried(files.plan)

ReportOfPlan ==
    mode = "esp" /\ files.report # None /\ files.plan # None
        => files.plan.source = files.report

\* A diagnostic the next boot starts has no plan to contradict, also while
\* the firmware is on its way to it.
FreshDiagnostic == NextIsDiagnostic => files.plan = None /\ files.report = None

DiagnosticIsFresh ==
    mode = "esp" =>
        \A n \in BeforeWindows(chain) :
            n \in Numbers /\ (variables[n] = "diagnostic" => files.plan = None)

Booting == chain # <<>> => next = None /\ cmd = <<>>

Inventory == IsFiniteSet(files.receipts) /\ IsFiniteSet(files.torn)

Settled ==
    /\ OthersStay /\ NoDiagnosticFirst /\ DriveHasNoEntries
    /\ LoaderNeedsStage /\ FirstHasTriedPlan /\ ProvenPlan /\ ReportOfPlan
    /\ FreshDiagnostic /\ DiagnosticIsFresh /\ Booting /\ Inventory

-----------------------------------------------------------------------------
(* The writes a running command still has to make: c is cmd.               *)

Names ==
    {"report", "plan", "error", "diagnostic", "loader", "boot", "owner", "certificate"}

Commands ==
    {"prepare_diagnostic", "write_loader", "make_permanent", "remove",
     "save_certificate"}

Writes ==
    [store : {"file", "receipt", "variable", "order", "next", "answer"},
     key : Names \cup Commands \cup Machines \cup Numbers \cup {None},
     value : Stages \cup {"ours", None} \cup BOOLEAN \cup Plans \cup Orders
                \cup Numbers]

Is(v, w) == v.store = w.store /\ v.key = w.key /\ v.value = w.value

Earlier(c, i, w) == \E j \in 1 .. i - 1 : Is(c[j], w)

FileWrite(w, stage) ==
    \/ w.store = "file" /\ w.key = "error" /\ w.value = None
    \/ w.store = "file" /\ w.key = stage /\ w.value = TRUE
    \/ /\ w.store = "file" /\ w.key = "boot" /\ w.value = stage
       /\ files.boot # "foreign"
    \/ w.store = "file" /\ w.key = "owner" /\ w.value = stage
    \/ w.store = "receipt" /\ w.key \in Machines
    \/ w.store = "answer"

\* What schedule writes changes nothing before Windows.
SchedulingWrite(w, stage) ==
    /\ mode = "esp"
    /\ \/ /\ w.store = "variable" /\ w.key \in Numbers \ Listed /\ w.value = stage
          /\ w.key \in BeforeWindows(order) => variables[w.key] = stage
       \/ /\ w.store = "order" /\ w.value \in Orders
          /\ w.value # <<>> /\ order # <<>> /\ w.value[1] = order[1]
          /\ BeforeWindows(w.value) = BeforeWindows(order)
          /\ Listed \subseteq Range(w.value)
       \/ w.store = "next" /\ w.value \in Numbers

RemovalWrite(w) ==
    \/ w.store = "variable" /\ w.key \in Numbers \ Listed /\ w.value = None
    \/ w.store = "order" /\ w.value \in Orders /\ Listed \subseteq Range(w.value)
    \/ w.store = "next" /\ w.value = None
    \/ w.store = "answer"

Preparing(c) ==
    /\ ~HeadIsLoader /\ ~Proven
    /\ \A i \in DOMAIN c :
          \/ FileWrite(c[i], "diagnostic")
          \/ Is(c[i], File("report", None))
          \/ Is(c[i], File("plan", None))
          \/ /\ SchedulingWrite(c[i], "diagnostic")
             /\ files.report = None \/ Earlier(c, i, File("report", None))
             /\ files.plan = None \/ Earlier(c, i, File("plan", None))

WritingPlan(c, p) ==
    /\ files.report = p.source
    /\ files.owner # None
    /\ Proven => HeadIsLoader
    /\ HeadIsLoader => p.source \in tried
    /\ \A i \in DOMAIN c :
          \/ /\ FileWrite(c[i], "loader")
             /\ Is(c[i], File("owner", "loader")) =>
                   \A r \in files.receipts : Earlier(c, i, Receipt(r))
          \/ Is(c[i], File("plan", p))
          \/ /\ SchedulingWrite(c[i], "loader")
             /\ c[i].store = "next" =>
                   \/ variables[c[i].value] = "loader"
                   \/ Earlier(c, i, Variable(c[i].value, "loader"))

WritingLoader(c) == \E p \in Plans : WritingPlan(c, p)

MakingPermanent(c) ==
    /\ mode = "esp" /\ files.owner # None /\ Tried(files.plan)
    /\ \A i \in DOMAIN c :
          /\ RemovalWrite(c[i])
          /\ c[i].store = "order" =>
                \A n \in BeforeWindows(c[i].value) : variables[n] # "diagnostic"

\* The variables go before the plan does.
Removing(c) ==
    \A i \in DOMAIN c :
        \/ /\ RemovalWrite(c[i])
           /\ c[i].store = "order" => \A n \in Range(c[i].value) : ~Owned(n)
        \/ c[i].store = "receipt" /\ c[i].key \in Machines
        \/ /\ c[i].store = "file" /\ c[i].key \in {"report", "error"}
           /\ c[i].value = None
        \/ /\ c[i].store = "file" /\ c[i].key = "boot" /\ c[i].value = None
           /\ files.boot # "foreign"
        \/ c[i].store = "file" /\ c[i].key \in Stages /\ c[i].value = FALSE
        \/ /\ c[i].store = "file" /\ c[i].key \in {"plan", "owner"}
           /\ c[i].value = None
           /\ \A n \in Range(order) :
                 variables[n] = "loader" => Earlier(c, i, Variable(n, None))

SavingCertificate(c) ==
    \A i \in DOMAIN c :
        Is(c[i], File("certificate", "ours")) \/ c[i].store = "answer"

Running(c) ==
    /\ c \in Seq(Writes)
    /\ \/ c = <<>> \/ Preparing(c) \/ WritingLoader(c) \/ MakingPermanent(c)
       \/ Removing(c) \/ SavingCertificate(c)

IInv == TypeOK /\ Settled /\ Running(cmd)

-----------------------------------------------------------------------------
(* The lists the commands compute.                                         *)

LEMMA ConcatAt ==
    ASSUME NEW S, NEW a \in Seq(S), NEW b \in Seq(S)
    PROVE  /\ a \o b \in Seq(S)
           /\ Len(a \o b) = Len(a) + Len(b)
           /\ \A i \in DOMAIN (a \o b) :
                 \/ i \in DOMAIN a /\ (a \o b)[i] = a[i]
                 \/ \E k \in DOMAIN b : i = Len(a) + k /\ (a \o b)[i] = b[k]
           /\ \A i \in DOMAIN a : (a \o b)[i] = a[i]
           /\ \A k \in DOMAIN b : (a \o b)[Len(a) + k] = b[k]
<1>1. /\ Len(a) \in Nat /\ DOMAIN a = 1 .. Len(a)
      /\ Len(b) \in Nat /\ DOMAIN b = 1 .. Len(b)
  OBVIOUS
<1>2. a \o b \in Seq(S) /\ Len(a \o b) = Len(a) + Len(b)
  OBVIOUS
<1>3. DOMAIN (a \o b) = 1 .. Len(a) + Len(b)
  BY <1>2
<1>4. \A i \in DOMAIN a : (a \o b)[i] = a[i]
  OBVIOUS
<1>5. \A k \in DOMAIN b : (a \o b)[Len(a) + k] = b[k]
  BY <1>1
<1>6. ASSUME NEW i \in DOMAIN (a \o b), i \notin DOMAIN a
      PROVE  \E k \in DOMAIN b : i = Len(a) + k /\ (a \o b)[i] = b[k]
  <2>1. i - Len(a) \in DOMAIN b /\ i = Len(a) + (i - Len(a))
    BY <1>1, <1>3, <1>6
  <2>2. (a \o b)[i] = b[i - Len(a)]
    BY <1>5, <2>1
  <2> QED
    BY <2>1, <2>2
<1> QED
  BY <1>2, <1>4, <1>5, <1>6

LEMMA AtFront ==
    ASSUME NEW S, NEW w \in S, NEW b \in Seq(S)
    PROVE  /\ <<w>> \o b \in Seq(S)
           /\ DOMAIN (<<w>> \o b) = 1 .. 1 + Len(b)
           /\ (<<w>> \o b)[1] = w
           /\ \A k \in DOMAIN b : (<<w>> \o b)[1 + k] = b[k]
<1> DEFINE a == <<w>>
<1>1. a \in Seq(S) /\ Len(a) = 1 /\ a[1] = w
  OBVIOUS
<1> HIDE DEF a
<1>5. 1 \in DOMAIN a /\ Len(b) \in Nat
  BY <1>1
<1>2. a \o b \in Seq(S) /\ Len(a \o b) = 1 + Len(b)
  BY <1>1, ConcatAt
<1>3. (a \o b)[1] = w
  BY <1>5, <1>1, ConcatAt
<1>4. \A k \in DOMAIN b : (a \o b)[1 + k] = b[k]
  <2>1. \A k \in DOMAIN b : (a \o b)[Len(a) + k] = b[k]
    <3>1. a \in Seq(S)
      BY <1>1
    <3> QED
      BY <3>1, ConcatAt
  <2> QED
    BY <1>1, <2>1
<1> QED
  BY <1>2, <1>3, <1>4 DEF a

LEMMA AtEnd ==
    ASSUME NEW S, NEW a \in Seq(S), NEW w \in S
    PROVE  /\ a \o <<w>> \in Seq(S)
           /\ DOMAIN (a \o <<w>>) = 1 .. Len(a) + 1
           /\ (a \o <<w>>)[Len(a) + 1] = w
           /\ \A i \in DOMAIN a : (a \o <<w>>)[i] = a[i]
<1> DEFINE b == <<w>>
<1>1. b \in Seq(S) /\ Len(b) = 1 /\ b[1] = w
  OBVIOUS
<1> HIDE DEF b
<1>5. 1 \in DOMAIN b /\ Len(a) \in Nat
  BY <1>1
<1>2. a \o b \in Seq(S) /\ Len(a \o b) = Len(a) + 1
  BY <1>1, ConcatAt
<1>3. (a \o b)[Len(a) + 1] = w
  BY <1>5, <1>1, ConcatAt
<1>4. \A i \in DOMAIN a : (a \o b)[i] = a[i]
  BY <1>1, ConcatAt
<1> QED
  BY <1>2, <1>3, <1>4 DEF b

LEMMA WriteTypes ==
    /\ \A p \in Plans \cup {None} : File("plan", p) \in Writes
    /\ \A k \in Stages : \A b \in BOOLEAN : File(k, b) \in Writes
    /\ \A x \in Stages \cup {None} :
          File("boot", x) \in Writes /\ File("owner", x) \in Writes
    /\ File("report", None) \in Writes /\ File("error", None) \in Writes
    /\ File("certificate", "ours") \in Writes
    /\ \A m \in Machines : Receipt(m) \in Writes
    /\ \A n \in Numbers : \A k \in Stages \cup {None} : Variable(n, k) \in Writes
    /\ \A o \in Orders : BootOrder(o) \in Writes
    /\ \A n \in Numbers \cup {None} : BootNext(n) \in Writes
    /\ \A x \in Commands : Answer(x) \in Writes
<1> DEFINE K == Names \cup Commands \cup Machines \cup Numbers \cup {None}
           V == Stages \cup {"ours", None} \cup BOOLEAN \cup Plans \cup Orders
                   \cup Numbers
           S == {"file", "receipt", "variable", "order", "next", "answer"}
<1>1. Writes = [store : S, key : K, value : V]
  BY DEF Writes
<1>2. /\ \A k \in K, v \in V : File(k, v) \in Writes
      /\ \A m \in K, v \in V : m \in Machines /\ v = None => Receipt(m) \in Writes
      /\ \A n \in K, v \in V : Variable(n, v) \in Writes
      /\ \A k \in K, v \in V : k = None => BootOrder(v) \in Writes
      /\ \A k \in K, v \in V : k = None => BootNext(v) \in Writes
      /\ \A x \in K, v \in V : v = None => Answer(x) \in Writes
  <2> DEFINE Put(s, k, v) == [store |-> s, key |-> k, value |-> v]
  <2>1. \A s \in S, k \in K, v \in V : Put(s, k, v) \in Writes
    <3> HIDE DEF S, K, V
    <3> QED
      BY <1>1
  <2>2. /\ "file" \in S /\ "receipt" \in S /\ "variable" \in S
        /\ "order" \in S /\ "next" \in S /\ "answer" \in S
    OBVIOUS
  <2> HIDE DEF S, K, V
  <2> QED
    BY <2>1, <2>2 DEF File, Receipt, Variable, BootOrder, BootNext, Answer
<1>3. /\ \A p \in Plans \cup Stages \cup Orders \cup Numbers \cup BOOLEAN : p \in V
      /\ None \in V /\ "ours" \in V
  OBVIOUS
<1>4. /\ \A m \in Machines \cup Numbers \cup Commands \cup Names : m \in K
      /\ None \in K
  OBVIOUS
<1>5. \A x \in {"plan", "boot", "owner", "report", "error", "certificate"} \cup Stages :
         x \in Names
  BY DEF Names, Stages
<1> HIDE DEF S, K, V
<1> QED
  BY <1>2, <1>3, <1>4, <1>5

\* delete_receipts removes every receipt, whole or torn.
LEMMA ReceiptsListed ==
    ASSUME TypeOK, Inventory
    PROVE  /\ delete_receipts \in Seq(Writes)
           /\ \A i \in DOMAIN delete_receipts :
                 /\ delete_receipts[i].store = "receipt"
                 /\ delete_receipts[i].key \in Machines
           /\ \A r \in files.receipts :
                 \E i \in DOMAIN delete_receipts : delete_receipts[i] = Receipt(r)
<1> DEFINE R == files.receipts \cup files.torn
           n == Cardinality(R)
           all == SetToSeq(R)
<1>1. IsFiniteSet(R)
  BY FS_Union DEF Inventory
<1>2. n \in Nat /\ ExistsBijection(1 .. n, R)
  BY <1>1, FS_CardinalityType
<1>3. all \in [1 .. n -> R] /\ IsInjective(all)
  <2>1. \E f \in [1 .. n -> R] : IsInjective(f)
    BY <1>2 DEF ExistsBijection, Bijection, Injection
  <2>2. all = CHOOSE f \in [1 .. n -> R] : IsInjective(f)
    BY DEF SetToSeq
  <2> HIDE DEF all, n, R
  <2> QED
    BY <2>1, <2>2
<1>4. all \in Surjection(1 .. n, R)
  <2>1. IsFiniteSet(1 .. n) /\ Cardinality(1 .. n) = n
    BY <1>2, FS_Interval
  <2>2. all \in Injection(1 .. n, R)
    BY <1>3 DEF Injection
  <2> HIDE DEF all
  <2> QED
    BY <1>1, <2>1, <2>2, FS_Injection
<1>5. R \subseteq Machines
  BY DEF TypeOK
<1>6. delete_receipts = [i \in DOMAIN all |-> Receipt(all[i])]
  BY DEF delete_receipts
<1> HIDE DEF all, R
<1>7. delete_receipts = [i \in 1 .. n |-> Receipt(all[i])]
  BY <1>3, <1>6
<1>8. \A i \in 1 .. n : all[i] \in Machines
  BY <1>3, <1>5
<1>9. \A i \in 1 .. n : Receipt(all[i]) \in Writes
  BY <1>8, WriteTypes
<1>10. delete_receipts \in Seq(Writes) /\ DOMAIN delete_receipts = 1 .. n
  <2> HIDE DEF n
  <2> QED
    BY <1>2, <1>7, <1>9
<1>11. \A i \in 1 .. n : delete_receipts[i].store = "receipt"
                         /\ delete_receipts[i].key \in Machines
  BY <1>7, <1>8 DEF Receipt
<1>12. \A r \in R : \E i \in 1 .. n : all[i] = r
  BY <1>4 DEF Surjection
<1>13. \A r \in R : \E i \in 1 .. n : delete_receipts[i] = Receipt(r)
  BY <1>7, <1>12
<1> QED
  BY <1>10, <1>11, <1>13 DEF R

\* schedule writes the entry, names it last in BootOrder and starts it next.
LEMMA ScheduleListed ==
    ASSUME TypeOK, OthersStay, mode = "esp",
           NEW kind \in Stages, Number(kind) # None
    PROVE  /\ schedule(kind) \in Seq(Writes)
           /\ \A i \in DOMAIN schedule(kind) :
                 /\ SchedulingWrite(schedule(kind)[i], kind)
                 /\ schedule(kind)[i].store = "next" =>
                       Earlier(schedule(kind), i,
                               Variable(schedule(kind)[i].value, kind))
<1> DEFINE n == Number(kind)
           V == Variable(n, kind)
           O == BootOrder(Append(order, n))
           N == BootNext(n)
           X == IF n \in Range(order) THEN <<>> ELSE <<O>>
<1>1. /\ n \in Numbers
      /\ n \in Range(order) => variables[n] = kind
  BY NumberOfStage
<1>2. order \in Orders /\ Windows \in Range(order)
  BY DEF TypeOK, Orders, OthersStay, Listed
<1>3. n \notin Listed
  BY <1>1 DEF OthersStay, Stages
<1>4. BeforeWindows(order) \subseteq Range(order)
  BY DEF BeforeWindows, Range
<1> HIDE DEF n
<1>5. V \in Writes /\ N \in Writes /\ SchedulingWrite(V, kind) /\ SchedulingWrite(N, kind)
  <2>1. V \in Writes /\ N \in Writes
    BY <1>1, WriteTypes
  <2>2. V.store = "variable" /\ V.key = n /\ V.value = kind
    BY DEF Variable
  <2>3. N.store = "next" /\ N.value = n
    BY DEF BootNext
  <2> HIDE DEF V, N
  <2> QED
    BY <1>1, <1>3, <1>4, <2>1, <2>2, <2>3 DEF SchedulingWrite
<1>6. n \notin Range(order) => O \in Writes /\ SchedulingWrite(O, kind)
  <2> HAVE n \notin Range(order)
  <2>1. /\ Append(order, n) \in Orders
        /\ order # <<>> /\ Append(order, n) # <<>> /\ Append(order, n)[1] = order[1]
        /\ Range(Append(order, n)) = Range(order) \cup {n}
        /\ BeforeWindows(Append(order, n)) = BeforeWindows(order)
    BY <1>1, <1>2, AppendedLast
  <2>2. O.store = "order" /\ O.value = Append(order, n) /\ O \in Writes
    BY <2>1, WriteTypes DEF BootOrder
  <2>3. Listed \subseteq Range(order)
    BY DEF OthersStay
  <2> HIDE DEF O
  <2> QED
    BY <2>1, <2>2, <2>3 DEF SchedulingWrite
<1>7. schedule(kind) = (<<V>> \o X) \o <<N>>
  BY DEF schedule, n
<1>8. /\ X \in Seq(Writes)
      /\ \A k \in DOMAIN X : SchedulingWrite(X[k], kind) /\ X[k].store = "order"
  <2>1. CASE n \in Range(order)
    BY <2>1
  <2>2. CASE n \notin Range(order)
    <3>1. O.store = "order"
      BY DEF BootOrder
    <3> HIDE DEF O
    <3> QED
      BY <1>6, <2>2, <3>1
  <2> QED
    BY <2>1, <2>2
<1>9. V.store = "variable" /\ N.store = "next" /\ N.value = n
  BY DEF Variable, BootNext
<1> HIDE DEF X
<1> SUFFICES ASSUME NEW s, s = (<<V>> \o X) \o <<N>>
             PROVE  /\ s \in Seq(Writes)
                    /\ \A i \in DOMAIN s :
                          /\ SchedulingWrite(s[i], kind)
                          /\ s[i].store = "next"
                                => Earlier(s, i, Variable(s[i].value, kind))
  BY <1>7
<1> DEFINE a == <<V>> \o X
<1>10. /\ a \in Seq(Writes) /\ DOMAIN a = 1 .. 1 + Len(X) /\ a[1] = V
       /\ \A i \in DOMAIN a : i = 1 \/ (SchedulingWrite(a[i], kind) /\ a[i].store = "order")
  <2> HIDE DEF V
  <2>1. /\ a \in Seq(Writes) /\ DOMAIN a = 1 .. 1 + Len(X) /\ a[1] = V
        /\ \A k \in DOMAIN X : a[1 + k] = X[k]
    BY <1>5, <1>8, AtFront
  <2> HIDE DEF a
  <2>2. Len(X) \in Nat /\ DOMAIN X = 1 .. Len(X)
    BY <1>8
  <2>3. \A i \in DOMAIN a : i = 1 \/ (i - 1 \in DOMAIN X /\ a[i] = X[i - 1])
    <3> TAKE i \in DOMAIN a
    <3>1. i # 1 => i - 1 \in DOMAIN X /\ 1 + (i - 1) = i
      BY <2>1, <2>2
    <3> QED
      BY <2>1, <3>1
  <2> QED
    BY <1>8, <2>1, <2>3
<1> HIDE DEF a
<1>11. /\ s \in Seq(Writes) /\ DOMAIN s = 1 .. Len(a) + 1
       /\ s[Len(a) + 1] = N
       /\ \A i \in DOMAIN a : s[i] = a[i]
  <2> HIDE DEF N
  <2>1. s = a \o <<N>>
    BY DEF a
  <2>2. a \in Seq(Writes) /\ N \in Writes
    BY <1>5, <1>10
  <2>3. /\ a \o <<N>> \in Seq(Writes)
        /\ DOMAIN (a \o <<N>>) = 1 .. Len(a) + 1
        /\ (a \o <<N>>)[Len(a) + 1] = N
        /\ \A i \in DOMAIN a : (a \o <<N>>)[i] = a[i]
    BY <2>2, AtEnd
  <2> QED
    BY <2>1, <2>3
<1>12. /\ Len(a) \in Nat /\ Len(a) >= 1 /\ DOMAIN a = 1 .. Len(a)
       /\ \A i \in DOMAIN s : i \in DOMAIN a \/ i = Len(a) + 1
  <2>1. Len(X) \in Nat
    BY <1>8
  <2> QED
    BY <1>10, <1>11, <2>1
<1> HIDE DEF V, N
<1>13. ASSUME NEW i \in DOMAIN s, s[i].store = "next"
       PROVE  Earlier(s, i, Variable(s[i].value, kind))
  <2>1. s[i] = N /\ 1 \in 1 .. i - 1
    <3>1. i \notin DOMAIN a
      BY <1>9, <1>10, <1>11, <1>13
    <3> QED
      BY <1>11, <1>12, <3>1
  <2>2. s[1] = V
    BY <1>10, <1>11, <1>12
  <2>3. Is(V, Variable(n, kind))
    BY DEF Is, V
  <2> QED
    BY <1>9, <2>1, <2>2, <2>3 DEF Earlier
<1>14. \A i \in DOMAIN s : SchedulingWrite(s[i], kind)
  BY <1>5, <1>10, <1>11, <1>12
<1> QED
  BY <1>11, <1>13, <1>14

LEMMA Pair ==
    ASSUME NEW S, NEW x \in S, NEW y \in S
    PROVE  <<x, y>> \in Seq(S) /\ Len(<<x, y>>) = 2
OBVIOUS

LEMMA Triple ==
    ASSUME NEW S, NEW x \in S, NEW y \in S, NEW z \in S
    PROVE  <<x, y, z>> \in Seq(S) /\ Len(<<x, y, z>>) = 3
OBVIOUS

LEMMA Joined ==
    ASSUME NEW S, NEW a \in Seq(S), NEW b \in Seq(S)
    PROVE  a \o b \in Seq(S)
BY ConcatAt

LEMMA SeqOfMore ==
    ASSUME NEW S, NEW T, S \subseteq T, NEW a \in Seq(S)
    PROVE  a \in Seq(T)
<1>1. /\ Len(a) \in Nat /\ DOMAIN a = 1 .. Len(a)
      /\ \A i \in 1 .. Len(a) : a[i] \in T
  OBVIOUS
<1>2. a \in [1 .. Len(a) -> S]
  OBVIOUS
<1> QED
  BY <1>1, <1>2

\* A finished command answers.
LEMMA Answered ==
    ASSUME NEW a \in Seq(Writes), NEW command \in Commands
    PROVE  /\ Append(a, Answer(command)) \in Seq(Writes)
           /\ DOMAIN Append(a, Answer(command)) = 1 .. Len(a) + 1
           /\ \A i \in DOMAIN a : Append(a, Answer(command))[i] = a[i]
           /\ Append(a, Answer(command))[Len(a) + 1].store = "answer"
<1> DEFINE w == Answer(command)
<1>1. w \in Writes /\ w.store = "answer"
  BY WriteTypes DEF Answer
<1> HIDE DEF w
<1>2. Append(a, w) \in Seq(Writes)
  BY <1>1
<1>3. DOMAIN Append(a, w) = 1 .. Len(a) + 1
  BY <1>1
<1>4. \A i \in DOMAIN a : Append(a, w)[i] = a[i]
  BY <1>1
<1>5. Append(a, w)[Len(a) + 1] = w
  BY <1>1
<1> QED
  BY <1>1, <1>2, <1>3, <1>4, <1>5 DEF w

\* The last three writes of a stage.
LEMMA StageWrites ==
    ASSUME TypeOK, NEW stage \in Stages, Usable(stage)
    PROVE  /\ File("error", None) \in Writes /\ FileWrite(File("error", None), stage)
           /\ Image(stage) \in Writes /\ FileWrite(Image(stage), stage)
           /\ Owner(stage) \in Writes /\ FileWrite(Owner(stage), stage)
           /\ Image(stage).key # "owner" /\ Image(stage).store = "file"
<1>1. files.owner # None => files.owner \in Stages
  BY DEF TypeOK
<1>2. mode = "usb" => files.boot # "foreign"
  <2> SUFFICES ASSUME mode = "usb", files.boot = "foreign"
               PROVE  FALSE
    OBVIOUS
  <2>1. "foreign" # None
    BY RouteAssumption
  <2>2. usb_boot_is_owned
    BY <2>1 DEF Usable, usb_boot_is_foreign
  <2> QED
    BY <1>1, <2>2 DEF usb_boot_is_owned, Stages
<1>3. File("error", None) \in Writes /\ Image(stage) \in Writes /\ Owner(stage) \in Writes
  BY WriteTypes DEF Image, Owner
<1>4. FileWrite(File("error", None), stage) /\ FileWrite(Owner(stage), stage)
  BY DEF FileWrite, File, Owner
<1>5. FileWrite(Image(stage), stage)
  BY <1>2 DEF FileWrite, File, Image
<1>6. Image(stage).key # "owner" /\ Image(stage).store = "file"
  BY DEF Image, File, Stages
<1> QED
  BY <1>3, <1>4, <1>5, <1>6

\* The parts of a list: two lists and a last write.
Consists(c, a, b, w) ==
    /\ Len(a) \in Nat /\ DOMAIN a = 1 .. Len(a)
    /\ Len(b) \in Nat /\ DOMAIN b = 1 .. Len(b)
    /\ DOMAIN c = 1 .. Len(a) + Len(b) + 1
    /\ \A i \in DOMAIN a : c[i] = a[i]
    /\ \A k \in DOMAIN b : c[Len(a) + k] = b[k]
    /\ c[Len(a) + Len(b) + 1] = w

LEMMA Parts ==
    ASSUME NEW a \in Seq(Writes), NEW b \in Seq(Writes), NEW w \in Writes,
           NEW c, c = Append(a \o b, w)
    PROVE  c \in Seq(Writes) /\ Consists(c, a, b, w)
<1> DEFINE d == a \o b
<1>1. d \in Seq(Writes)
  BY ConcatAt
<1>2. Len(d) = Len(a) + Len(b)
  BY ConcatAt
<1>3. \A i \in DOMAIN a : d[i] = a[i]
  BY ConcatAt
<1>4. \A k \in DOMAIN b : d[Len(a) + k] = b[k]
  BY ConcatAt
<1>5. c = Append(d, w)
  OBVIOUS
<1> HIDE DEF d
<1>6. /\ Len(a) \in Nat /\ DOMAIN a = 1 .. Len(a)
      /\ Len(b) \in Nat /\ DOMAIN b = 1 .. Len(b)
      /\ Len(d) \in Nat /\ DOMAIN d = 1 .. Len(d)
  BY <1>1
<1>7. c \in Seq(Writes)
  BY <1>1, <1>5
<1>8. Len(c) = Len(d) + 1 /\ DOMAIN c = 1 .. Len(d) + 1
  BY <1>1, <1>5
<1>9. \A i \in DOMAIN d : c[i] = d[i]
  BY <1>1, <1>5
<1>10. c[Len(d) + 1] = w
  BY <1>1, <1>5
<1>11. \A i \in DOMAIN a : c[i] = a[i]
  BY <1>2, <1>3, <1>6, <1>9
<1>12. \A k \in DOMAIN b : c[Len(a) + k] = b[k]
  BY <1>2, <1>4, <1>6, <1>9
<1> QED
  BY <1>2, <1>6, <1>7, <1>8, <1>10, <1>11, <1>12 DEF Consists

\* The parts of a stage: the first file or files, the receipts, three files.
StageOf(c, a, b, x, y, z) ==
    /\ Len(a) \in Nat /\ DOMAIN a = 1 .. Len(a)
    /\ Len(b) \in Nat /\ DOMAIN b = 1 .. Len(b)
    /\ Len(c) = Len(a) + Len(b) + 3
    /\ \A i \in DOMAIN a : c[i] = a[i]
    /\ \A k \in DOMAIN b : c[Len(a) + k] = b[k]
    /\ c[Len(a) + Len(b) + 1] = x
    /\ c[Len(a) + Len(b) + 2] = y
    /\ c[Len(a) + Len(b) + 3] = z

LEMMA StageParts ==
    ASSUME NEW a \in Seq(Writes), NEW b \in Seq(Writes),
           NEW x \in Writes, NEW y \in Writes, NEW z \in Writes,
           NEW c, c = (a \o b) \o <<x, y, z>>
    PROVE  c \in Seq(Writes) /\ StageOf(c, a, b, x, y, z)
<1> DEFINE d == Append(a \o b, x)
           e == Append(d, y)
<1>1. /\ d \in Seq(Writes)
      /\ Len(a) \in Nat /\ DOMAIN a = 1 .. Len(a)
      /\ Len(b) \in Nat /\ DOMAIN b = 1 .. Len(b)
      /\ DOMAIN d = 1 .. Len(a) + Len(b) + 1
      /\ \A i \in DOMAIN a : d[i] = a[i]
      /\ \A k \in DOMAIN b : d[Len(a) + k] = b[k]
      /\ d[Len(a) + Len(b) + 1] = x
  <2> HIDE DEF d
  <2>1. d = Append(a \o b, x)
    BY DEF d
  <2> QED
    BY <2>1, Parts DEF Consists
<1>2. c = Append(e, z)
  <2> DEFINE f == a \o b
  <2>1. f \in Seq(Writes)
    BY ConcatAt
  <2>2. c = f \o <<x, y, z>>
    OBVIOUS
  <2> HIDE DEF f
  <2>3. f \o <<x, y, z>> = Append(Append(Append(f, x), y), z)
    BY <2>1
  <2> QED
    BY <2>2, <2>3 DEF f
<1> HIDE DEF d
<1>3. Len(d) = Len(a) + Len(b) + 1
  BY <1>1
<1>4. /\ e \in Seq(Writes) /\ Len(e) = Len(d) + 1
      /\ \A i \in DOMAIN d : e[i] = d[i]
      /\ e[Len(d) + 1] = y
  BY <1>1
<1> HIDE DEF e
<1>5. /\ c \in Seq(Writes) /\ Len(c) = Len(e) + 1
      /\ \A i \in DOMAIN e : c[i] = e[i]
      /\ c[Len(e) + 1] = z
  BY <1>2, <1>4
<1>6. DOMAIN e = 1 .. Len(a) + Len(b) + 2 /\ DOMAIN d = 1 .. Len(a) + Len(b) + 1
  BY <1>1, <1>3, <1>4
<1>7. \A i \in DOMAIN d : c[i] = d[i]
  BY <1>1, <1>4, <1>5, <1>6
<1>8. \A i \in DOMAIN a : c[i] = a[i]
  BY <1>1, <1>6, <1>7
<1>9. \A k \in DOMAIN b : c[Len(a) + k] = b[k]
  BY <1>1, <1>6, <1>7
<1>10. c[Len(a) + Len(b) + 1] = x
  BY <1>1, <1>6, <1>7
<1>11. c[Len(a) + Len(b) + 2] = y
  BY <1>1, <1>3, <1>4, <1>5, <1>6
<1>12. c[Len(a) + Len(b) + 3] = z
  BY <1>1, <1>3, <1>4, <1>5
<1>13. Len(c) = Len(a) + Len(b) + 3
  BY <1>1, <1>3, <1>4, <1>5
<1> QED
  BY <1>1, <1>5, <1>8, <1>9, <1>10, <1>11, <1>12, <1>13 DEF StageOf

LEMMA AnswerWrites ==
    \A x \in Commands : Answer(x) \in Writes /\ Answer(x).store = "answer"
BY WriteTypes DEF Answer

LEMMA ScheduleOrNone ==
    ASSUME TypeOK, OthersStay, NEW kind \in Stages, Usable(kind), NEW x,
           x = IF mode = "esp" THEN schedule(kind) ELSE <<>>
    PROVE  /\ x \in Seq(Writes)
           /\ \A i \in DOMAIN x :
                 /\ SchedulingWrite(x[i], kind)
                 /\ x[i].store = "next" => Earlier(x, i, Variable(x[i].value, kind))
<1>1. CASE mode = "esp"
  <2>1. Number(kind) # None
    BY <1>1 DEF Usable
  <2> QED
    BY <1>1, <2>1, ScheduleListed
<1>2. CASE mode # "esp"
  BY <1>2
<1> QED
  BY <1>1, <1>2

DiagnosticWrites ==
    Append(write_diagnostic_stage
           \o IF mode = "esp" THEN schedule("diagnostic") ELSE <<>>,
           Answer("prepare_diagnostic"))

LoaderWrites(p) ==
    Append(write_loader_stage(p)
           \o IF mode = "esp" THEN schedule("loader") ELSE <<>>,
           Answer("write_loader"))

\* PrepareDiagnostic never starts while the loader is the first entry, or
\* when a result could make it so.
LEMMA PrepareListed ==
    ASSUME TypeOK, Settled, ~HeadIsLoader, ~Proven,
           Usable("diagnostic")
    PROVE  DiagnosticWrites \in Seq(Writes) /\ Preparing(DiagnosticWrites)
<1> DEFINE c == DiagnosticWrites
           R == File("report", None)
           Q == File("plan", None)
           E == File("error", None)
           I == Image("diagnostic")
           O == Owner("diagnostic")
           A == <<R, Q>>
           D == delete_receipts
           W == write_diagnostic_stage
           X == IF mode = "esp" THEN schedule("diagnostic") ELSE <<>>
           w == Answer("prepare_diagnostic")
<1>1. R \in Writes /\ Q \in Writes /\ E \in Writes /\ I \in Writes /\ O \in Writes
  BY WriteTypes, StageWrites DEF Stages
<1>2. FileWrite(E, "diagnostic") /\ FileWrite(I, "diagnostic") /\ FileWrite(O, "diagnostic")
  BY StageWrites DEF Stages
<1>3. /\ D \in Seq(Writes)
      /\ \A i \in DOMAIN D : D[i].store = "receipt" /\ D[i].key \in Machines
  BY ReceiptsListed DEF Settled
<1>4. W = (A \o D) \o <<E, I, O>>
  BY DEF write_diagnostic_stage
<1>5. Is(R, R) /\ Is(Q, Q)
  BY DEF Is
<1>6. /\ X \in Seq(Writes)
      /\ \A i \in DOMAIN X : SchedulingWrite(X[i], "diagnostic")
  <2> HIDE DEF X
  <2>1. "diagnostic" \in Stages /\ OthersStay
    BY DEF Stages, Settled
  <2>2. X = IF mode = "esp" THEN schedule("diagnostic") ELSE <<>>
    BY DEF X
  <2> QED
    BY <2>1, <2>2, ScheduleOrNone
<1>7. w \in Writes /\ w.store = "answer"
  BY AnswerWrites DEF Commands
<1>8. c = Append(W \o X, w)
  BY DEF DiagnosticWrites
<1>9. A \in Seq(Writes) /\ Len(A) = 2 /\ A[1] = R /\ A[2] = Q
  BY <1>1, Pair
<1> HIDE DEF c, R, Q, E, I, O, A, D, W, X, w
<1>10. W \in Seq(Writes) /\ StageOf(W, A, D, E, I, O)
  BY <1>1, <1>3, <1>4, <1>9, StageParts
<1>11. c \in Seq(Writes) /\ Consists(c, W, X, w)
  BY <1>6, <1>7, <1>8, <1>10, Parts
<1>12. /\ c[1] = R /\ c[2] = Q
       /\ \A k \in DOMAIN D : c[2 + k] = D[k]
       /\ c[Len(D) + 3] = E /\ c[Len(D) + 4] = I /\ c[Len(D) + 5] = O
  <2>0. PICK n \in Nat : n = Len(D)
    BY <1>10 DEF StageOf
  <2>a. DOMAIN W = 1 .. n + 5
    BY <1>9, <1>10, <1>11, <2>0 DEF StageOf, Consists
  <2>b. \A i \in 1 .. n + 5 : c[i] = W[i]
    BY <1>11, <2>a DEF Consists
  <2>1. c[1] = R /\ c[2] = Q
    <3>1. W[1] = A[1] /\ W[2] = A[2]
      BY <1>9, <1>10 DEF StageOf
    <3>2. c[1] = W[1] /\ c[2] = W[2]
      BY <2>0, <2>b
    <3> QED
      BY <1>9, <3>1, <3>2
  <2>2. \A k \in DOMAIN D : c[2 + k] = D[k]
    <3>1. \A k \in DOMAIN D : W[2 + k] = D[k]
      BY <1>9, <1>10 DEF StageOf
    <3>2. DOMAIN D = 1 .. n
      BY <1>10, <2>0 DEF StageOf
    <3> QED
      BY <2>0, <2>b, <3>1, <3>2
  <2>3. c[n + 3] = E /\ c[n + 4] = I /\ c[n + 5] = O
    <3>1. W[n + 3] = E /\ W[n + 4] = I /\ W[n + 5] = O
      BY <1>9, <1>10, <2>0 DEF StageOf
    <3> QED
      BY <2>0, <2>b, <3>1
  <2> QED
    BY <2>1, <2>0, <2>2, <2>3
<1>13. ASSUME NEW i \in DOMAIN c
       PROVE  \/ FileWrite(c[i], "diagnostic") \/ Is(c[i], R) \/ Is(c[i], Q)
              \/ /\ SchedulingWrite(c[i], "diagnostic")
                 /\ Earlier(c, i, R) /\ Earlier(c, i, Q)
  <2>1. CASE i = 1 \/ i = 2
    BY <1>5, <1>12, <2>1
  <2>2. CASE i \in 3 .. Len(D) + 2
    <3>1. i - 2 \in DOMAIN D /\ 2 + (i - 2) = i
      BY <1>10, <2>2 DEF StageOf
    <3>2. c[i] = D[i - 2]
      BY <1>12, <3>1
    <3> QED
      BY <1>3, <3>1, <3>2 DEF FileWrite
  <2>3. CASE i = Len(D) + 3 \/ i = Len(D) + 4 \/ i = Len(D) + 5
    BY <1>2, <1>12, <2>3
  <2>4. CASE i \in Len(W) + 1 .. Len(W) + Len(X)
    <3>1. i - Len(W) \in DOMAIN X /\ Len(W) + (i - Len(W)) = i
      BY <1>11, <2>4 DEF Consists
    <3>2. SchedulingWrite(c[i], "diagnostic")
      BY <1>6, <1>11, <3>1 DEF Consists
    <3>3. 1 \in 1 .. i - 1 /\ 2 \in 1 .. i - 1
      BY <1>9, <1>10, <1>11, <2>4 DEF StageOf, Consists
    <3> QED
      BY <1>5, <1>12, <3>2, <3>3 DEF Earlier
  <2>5. CASE i = Len(W) + Len(X) + 1
    BY <1>7, <1>11, <2>5 DEF FileWrite, Consists
  <2>6. PICK n \in Nat, m \in Nat : n = Len(D) /\ m = Len(X)
    BY <1>10, <1>11 DEF StageOf, Consists
  <2>7. Len(W) = n + 5
    BY <1>9, <1>10, <2>6 DEF StageOf
  <2>8. i \in 1 .. n + 5 + m + 1
    BY <1>11, <2>6, <2>7 DEF Consists
  <2>9. \/ i = 1 \/ i = 2 \/ i \in 3 .. n + 2
        \/ i = n + 3 \/ i = n + 4 \/ i = n + 5
        \/ i \in n + 6 .. n + 5 + m \/ i = n + 5 + m + 1
    BY <2>8
  <2> QED
    BY <2>1, <2>2, <2>3, <2>4, <2>5, <2>6, <2>7, <2>9
<1> QED
  BY <1>11, <1>13 DEF Preparing, R, Q, Consists, c

\* WriteLoader plans for the machine of the report.
LEMMA LoaderListedWrites ==
    ASSUME TypeOK, Settled, NEW p \in Plans,
           files.report = p.source, files.owner # None,
           Proven => HeadIsLoader, HeadIsLoader => p.source \in tried,
           Usable("loader")
    PROVE  LoaderWrites(p) \in Seq(Writes) /\ WritingLoader(LoaderWrites(p))
<1> DEFINE c == LoaderWrites(p)
           Q == File("plan", p)
           E == File("error", None)
           I == Image("loader")
           O == Owner("loader")
           D == delete_receipts
           A == <<Q>>
           W == write_loader_stage(p)
           X == IF mode = "esp" THEN schedule("loader") ELSE <<>>
           w == Answer("write_loader")
<1>1. Q \in Writes /\ E \in Writes /\ I \in Writes /\ O \in Writes
  BY WriteTypes, StageWrites DEF Stages
<1>2. /\ D \in Seq(Writes)
      /\ \A i \in DOMAIN D : D[i].store = "receipt" /\ D[i].key \in Machines
      /\ \A r \in files.receipts : \E i \in DOMAIN D : D[i] = Receipt(r)
  BY ReceiptsListed DEF Settled
<1>3. W = (A \o D) \o <<E, I, O>>
  BY DEF write_loader_stage
<1>4. FileWrite(E, "loader") /\ FileWrite(I, "loader") /\ FileWrite(O, "loader")
  BY StageWrites DEF Stages
<1>5. E.key # "owner" /\ I.key # "owner" /\ Is(Q, File("plan", p))
  BY StageWrites DEF File, Stages, Is
<1>6. A \in Seq(Writes) /\ Len(A) = 1 /\ A[1] = Q
  BY <1>1
<1>7. /\ X \in Seq(Writes)
      /\ \A i \in DOMAIN X :
            /\ SchedulingWrite(X[i], "loader")
            /\ X[i].store = "next" => Earlier(X, i, Variable(X[i].value, "loader"))
  <2> HIDE DEF X
  <2>1. "loader" \in Stages /\ OthersStay
    BY DEF Stages, Settled
  <2>2. X = IF mode = "esp" THEN schedule("loader") ELSE <<>>
    BY DEF X
  <2> QED
    BY <2>1, <2>2, ScheduleOrNone
<1>8. w \in Writes /\ w.store = "answer"
  BY AnswerWrites DEF Commands
<1>9. c = Append(W \o X, w)
  BY DEF LoaderWrites
<1> HIDE DEF c, Q, E, I, O, A, D, W, X, w
<1>10. W \in Seq(Writes) /\ StageOf(W, A, D, E, I, O)
  BY <1>1, <1>2, <1>3, <1>6, StageParts
<1>11. c \in Seq(Writes) /\ Consists(c, W, X, w)
  BY <1>7, <1>8, <1>9, <1>10, Parts
<1>12. /\ c[1] = Q
       /\ \A k \in DOMAIN D : c[1 + k] = D[k]
       /\ c[Len(D) + 2] = E /\ c[Len(D) + 3] = I /\ c[Len(D) + 4] = O
  <2>0. PICK n \in Nat : n = Len(D)
    BY <1>10 DEF StageOf
  <2>a. DOMAIN W = 1 .. n + 4
    BY <1>6, <1>10, <1>11, <2>0 DEF StageOf, Consists
  <2>b. \A i \in 1 .. n + 4 : c[i] = W[i]
    BY <1>11, <2>a DEF Consists
  <2>1. c[1] = Q
    <3>1. W[1] = A[1]
      BY <1>6, <1>10 DEF StageOf
    <3>2. c[1] = W[1]
      BY <2>0, <2>b
    <3> QED
      BY <1>6, <3>1, <3>2
  <2>2. \A k \in DOMAIN D : c[1 + k] = D[k]
    <3>1. \A k \in DOMAIN D : W[1 + k] = D[k]
      BY <1>6, <1>10 DEF StageOf
    <3>2. DOMAIN D = 1 .. n
      BY <1>10, <2>0 DEF StageOf
    <3> QED
      BY <2>0, <2>b, <3>1, <3>2
  <2>3. c[n + 2] = E /\ c[n + 3] = I /\ c[n + 4] = O
    <3>1. W[n + 2] = E /\ W[n + 3] = I /\ W[n + 4] = O
      BY <1>6, <1>10, <2>0 DEF StageOf
    <3> QED
      BY <2>0, <2>b, <3>1
  <2> QED
    BY <2>1, <2>0, <2>2, <2>3
<1>13. \A r \in files.receipts : Earlier(c, Len(D) + 4, Receipt(r))
  <2> TAKE r \in files.receipts
  <2>1. PICK k \in DOMAIN D : D[k] = Receipt(r)
    BY <1>2
  <2>2. 1 + k \in 1 .. (Len(D) + 4) - 1 /\ c[1 + k] = Receipt(r)
    BY <1>10, <1>12, <2>1 DEF StageOf
  <2>3. Is(Receipt(r), Receipt(r))
    BY DEF Is
  <2> QED
    BY <2>2, <2>3 DEF Earlier
<1>14. ASSUME NEW i \in DOMAIN c
       PROVE  \/ /\ FileWrite(c[i], "loader")
                 /\ Is(c[i], File("owner", "loader")) =>
                       \A r \in files.receipts : Earlier(c, i, Receipt(r))
              \/ Is(c[i], File("plan", p))
              \/ /\ SchedulingWrite(c[i], "loader")
                 /\ c[i].store = "next" =>
                       \/ variables[c[i].value] = "loader"
                       \/ Earlier(c, i, Variable(c[i].value, "loader"))
  <2>1. CASE i = 1
    BY <1>5, <1>12, <2>1
  <2>2. CASE i \in 2 .. Len(D) + 1
    <3>1. i - 1 \in DOMAIN D /\ 1 + (i - 1) = i
      BY <1>10, <2>2 DEF StageOf
    <3>2. c[i] = D[i - 1]
      BY <1>12, <3>1
    <3>3. c[i].store = "receipt" /\ c[i].key \in Machines
      BY <1>2, <3>1, <3>2
    <3> QED
      BY <3>3 DEF FileWrite, Is, File
  <2>3. CASE i = Len(D) + 2 \/ i = Len(D) + 3
    <3>1. c[i] = E \/ c[i] = I
      BY <1>12, <2>3
    <3>2. ~Is(c[i], File("owner", "loader"))
      BY <1>5, <3>1 DEF Is, File
    <3> QED
      BY <1>4, <3>1, <3>2
  <2>4. CASE i = Len(D) + 4
    BY <1>4, <1>12, <1>13, <2>4
  <2>5. CASE i \in Len(W) + 1 .. Len(W) + Len(X)
    <3>1. PICK k \in DOMAIN X : i = Len(W) + k
      <4>1. i - Len(W) \in DOMAIN X /\ Len(W) + (i - Len(W)) = i
        BY <1>11, <2>5 DEF Consists
      <4> QED
        BY <4>1
    <3>2. c[i] = X[k]
      BY <1>11, <3>1 DEF Consists
    <3>3. ASSUME X[k].store = "next"
          PROVE  Earlier(c, i, Variable(c[i].value, "loader"))
      <4>1. PICK j \in 1 .. k - 1 : Is(X[j], Variable(X[k].value, "loader"))
        BY <1>7, <3>1, <3>3 DEF Earlier
      <4>2. j \in DOMAIN X /\ Len(W) + j \in 1 .. i - 1
        BY <1>11, <3>1 DEF Consists
      <4>3. c[Len(W) + j] = X[j]
        BY <1>11, <4>2 DEF Consists
      <4> QED
        BY <3>2, <4>1, <4>2, <4>3 DEF Earlier
    <3> QED
      BY <1>7, <3>1, <3>2, <3>3
  <2>6. CASE i = Len(W) + Len(X) + 1
    <3>1. c[i].store = "answer"
      BY <1>8, <1>11, <2>6 DEF Consists
    <3> QED
      BY <3>1 DEF FileWrite, Is, File
  <2>7. PICK n \in Nat, m \in Nat : n = Len(D) /\ m = Len(X)
    BY <1>10, <1>11 DEF StageOf, Consists
  <2>8. Len(W) = n + 4
    BY <1>6, <1>10, <2>7 DEF StageOf
  <2>9. i \in 1 .. n + 4 + m + 1
    BY <1>11, <2>7, <2>8 DEF Consists
  <2>10. \/ i = 1 \/ i \in 2 .. n + 1
         \/ i = n + 2 \/ i = n + 3 \/ i = n + 4
         \/ i \in n + 5 .. n + 4 + m \/ i = n + 4 + m + 1
    BY <2>9
  <2> QED
    BY <2>1, <2>2, <2>3, <2>4, <2>5, <2>6, <2>7, <2>8, <2>10
<1> QED
  BY <1>11, <1>14 DEF WritingLoader, WritingPlan, Consists, c

\* A number put in front is the only one that comes before Windows anew.
LEMMA FrontBefore ==
    ASSUME NEW S, NEW n \in S, NEW s \in Seq(S)
    PROVE  BeforeWindows(<<n>> \o s) \subseteq {n} \cup BeforeWindows(s)
<1> DEFINE t == <<n>> \o s
<1>1. /\ DOMAIN t = 1 .. 1 + Len(s) /\ t[1] = n
      /\ \A k \in DOMAIN s : t[1 + k] = s[k]
  BY AtFront
<1>2. Len(s) \in Nat /\ DOMAIN s = 1 .. Len(s)
  OBVIOUS
<1> HIDE DEF t
<1>3. SUFFICES ASSUME NEW i \in DOMAIN t, \A j \in 1 .. i : t[j] # Windows, i # 1
               PROVE  t[i] \in BeforeWindows(s)
  <2>1. \A i \in DOMAIN t :
           (\A j \in 1 .. i : t[j] # Windows) => t[i] = n \/ t[i] \in BeforeWindows(s)
    BY <1>1, <1>3
  <2> HIDE DEF t
  <2>2. BeforeWindows(t) \subseteq {n} \cup BeforeWindows(s)
    BY <2>1 DEF BeforeWindows
  <2> QED
    BY <2>2 DEF t
<1>4. PICK m \in Nat : m = Len(s)
  BY <1>2
<1>5. i - 1 \in DOMAIN s /\ i - 1 \in Nat /\ i \in Nat
  BY <1>1, <1>2, <1>3, <1>4
<1>6. PICK k \in DOMAIN s : i = 1 + k /\ k \in Nat
  BY <1>5
<1>7. t[i] = s[k]
  BY <1>1, <1>6
<1>8. \A j \in 1 .. k : s[j] # Windows
  <2> TAKE j \in 1 .. k
  <2>1. j \in DOMAIN s /\ 1 + j \in 1 .. i
    BY <1>2, <1>4, <1>6
  <2> QED
    BY <1>1, <1>3, <2>1
<1> QED
  BY <1>6, <1>7, <1>8 DEF BeforeWindows

LEMMA FrontOrder ==
    ASSUME NEW n \in Numbers, NEW s \in Orders, n \notin Range(s)
    PROVE  <<n>> \o s \in Orders /\ Range(<<n>> \o s) = {n} \cup Range(s)
<1> DEFINE t == <<n>> \o s
<1>0. s \in Seq(Numbers) /\ IsInjective(s)
  BY DEF Orders
<1>1. /\ t \in Seq(Numbers)
      /\ DOMAIN t = 1 .. 1 + Len(s) /\ t[1] = n
      /\ \A k \in DOMAIN s : t[1 + k] = s[k]
  BY <1>0, AtFront
<1>2. PICK m \in Nat : m = Len(s) /\ DOMAIN s = 1 .. m
  BY <1>0
<1> HIDE DEF t
<1>3. \A i \in DOMAIN t : i = 1 \/ \E k \in DOMAIN s : i = 1 + k /\ t[i] = s[k]
  <2> TAKE i \in DOMAIN t
  <2>1. i \in 1 .. 1 + m
    BY <1>1, <1>2
  <2>2. i # 1 => i - 1 \in 1 .. m /\ i = 1 + (i - 1)
    BY <2>1
  <2> QED
    BY <1>1, <1>2, <2>2
<1>4. Range(t) = {n} \cup Range(s)
  <2>1. ASSUME NEW x \in Range(t) PROVE x \in {n} \cup Range(s)
    BY <1>1, <1>3 DEF Range
  <2>2. ASSUME NEW x \in Range(s) PROVE x \in Range(t)
    <3>1. PICK k \in DOMAIN s : s[k] = x
      BY DEF Range
    <3>2. 1 + k \in DOMAIN t
      BY <1>1, <1>2
    <3> QED
      BY <1>1, <3>1, <3>2 DEF Range
  <2>3. n \in Range(t)
    <3>1. 1 \in DOMAIN t
      BY <1>1, <1>2
    <3> QED
      BY <1>1, <3>1 DEF Range
  <2> QED
    BY <2>1, <2>2, <2>3
<1>5. IsInjective(t)
  <2> SUFFICES ASSUME NEW i \in DOMAIN t, NEW j \in DOMAIN t, t[i] = t[j]
               PROVE  i = j
    BY DEF IsInjective
  <2>1. \A k \in DOMAIN s : s[k] # n
    BY DEF Range
  <2>2. CASE i = 1 \/ j = 1
    BY <1>1, <1>3, <2>1, <2>2
  <2>3. CASE i # 1 /\ j # 1
    BY <1>0, <1>3, <2>3 DEF IsInjective
  <2> QED
    BY <2>2, <2>3
<1> QED
  BY <1>1, <1>4, <1>5 DEF Orders, t

\* make_permanent puts the loader first and leaves no diagnostic before Windows.
LEMMA FirstOrder ==
    ASSUME TypeOK, Settled, owned_entry("loader") # None, NEW First, First = LoaderFirst
    PROVE  /\ First \in Orders /\ Listed \subseteq Range(First)
           /\ \A n \in BeforeWindows(First) : variables[n] # "diagnostic"
<1> DEFINE L == owned_entry("loader")
           G == owned_entry("diagnostic")
           r == Retain(order, Numbers \ {L, G})
<1>1. /\ L \in Range(order) /\ variables[L] = "loader"
      /\ G # None => variables[G] = "diagnostic"
  BY EntryFound
<1>2. order \in Seq(Numbers) /\ IsInjective(order) /\ Range(order) \subseteq Numbers
  BY DEF TypeOK, Range
<1>3. Listed \subseteq Numbers \ {L, G}
  <2>1. Listed \subseteq Numbers
    BY RouteAssumption DEF Listed, Numbers, Windows
  <2>2. \A n \in Listed : variables[n] # "loader" /\ variables[n] # "diagnostic"
    BY DEF Settled, OthersStay
  <2> HIDE DEF L, G
  <2> QED
    BY <1>1, <2>1, <2>2, NoneIsNoNumber
<1>4. First = <<L>> \o r
  BY DEF LoaderFirst
<1> HIDE DEF L, G
<1>5. /\ r \in Seq(Numbers) /\ Range(r) = Range(order) \cap (Numbers \ {L, G})
      /\ IsInjective(r)
  BY <1>2, RetainOrder
<1>6. Windows \in Listed /\ Listed \subseteq Range(order)
  BY DEF Listed, Settled, OthersStay
<1>7. BeforeWindows(r) \subseteq BeforeWindows(order)
  <2>1. Windows \in Numbers \ {L, G}
    BY <1>3, <1>6
  <2> QED
    BY <1>2, <2>1, RetainBefore
<1> HIDE DEF r
<1>8. r \in Orders /\ L \in Numbers /\ L \notin Range(r) /\ Windows \in Range(r)
  BY <1>1, <1>2, <1>3, <1>5, <1>6 DEF Orders
<1>9. First \in Orders /\ Range(First) = {L} \cup Range(r)
  BY <1>4, <1>8, FrontOrder
<1>10. BeforeWindows(First) \subseteq {L} \cup BeforeWindows(r)
  BY <1>4, <1>5, <1>8, FrontBefore
<1>11. Listed \subseteq Range(First)
  BY <1>3, <1>5, <1>6, <1>9
<1>12. \A n \in BeforeWindows(First) : variables[n] # "diagnostic"
  <2>1. \A n \in BeforeWindows(order) : variables[n] # "diagnostic"
    BY DEF Settled, NoDiagnosticFirst
  <2> QED
    BY <1>1, <1>7, <1>10, <2>1
<1> QED
  BY <1>9, <1>11, <1>12

LEMMA NoneNotStage == None \notin Stages \cup {"windows", "foreign"}
BY RouteAssumption

MakeFirstWrites == Append(make_first, Answer("make_permanent"))

\* MakePermanent only deletes entries, and what it puts first is tried.
LEMMA MakeFirstListed ==
    ASSUME TypeOK, Settled, mode = "esp", files.owner # None, Tried(files.plan),
           owned_entry("loader") # None
    PROVE  MakeFirstWrites \in Seq(Writes) /\ MakingPermanent(MakeFirstWrites)
<1> DEFINE P == {w \in Writes :
                    /\ RemovalWrite(w)
                    /\ w.store = "order" =>
                          \A n \in BeforeWindows(w.value) : variables[n] # "diagnostic"}
           G == owned_entry("diagnostic")
           First == LoaderFirst
           a == IF G = None THEN <<>> ELSE <<Variable(G, None)>>
           b == IF First = order THEN <<>> ELSE <<BootOrder(First)>>
           d == IF G # None /\ next = G THEN <<BootNext(None)>> ELSE <<>>
           w == Answer("make_permanent")
<1>1. /\ First \in Orders /\ Listed \subseteq Range(First)
      /\ \A n \in BeforeWindows(First) : variables[n] # "diagnostic"
  BY FirstOrder
<1>2. G # None => G \in Numbers \ Listed
  <2>1. G # None => G \in Range(order) /\ variables[G] = "diagnostic"
    BY EntryFound
  <2>2. Range(order) \subseteq Numbers
    BY DEF TypeOK, Range
  <2>3. \A n \in Listed : variables[n] # "diagnostic"
    BY DEF Settled, OthersStay
  <2> HIDE DEF G
  <2> QED
    BY <2>1, <2>2, <2>3
<1>3. make_first = (a \o b) \o d
  BY DEF make_first
<1> HIDE DEF G, First
<1>4. G # None => Variable(G, None) \in P
  <2> HAVE G # None
  <2>1. Variable(G, None) \in Writes
    BY <1>2, WriteTypes
  <2>2. RemovalWrite(Variable(G, None)) /\ Variable(G, None).store # "order"
    BY <1>2 DEF RemovalWrite, Variable
  <2> QED
    BY <2>1, <2>2
<1>5. BootOrder(First) \in P
  <2>1. BootOrder(First) \in Writes
    BY <1>1, WriteTypes
  <2>2. BootOrder(First).store = "order" /\ BootOrder(First).value = First
    BY DEF BootOrder
  <2> QED
    BY <1>1, <2>1, <2>2 DEF RemovalWrite
<1>6. BootNext(None) \in P
  <2>1. BootNext(None) \in Writes
    BY WriteTypes
  <2>2. BootNext(None).store = "next" /\ BootNext(None).value = None
    BY DEF BootNext
  <2> QED
    BY <2>1, <2>2 DEF RemovalWrite
<1>7. w \in P
  BY AnswerWrites DEF Commands, RemovalWrite
<1>8. P \subseteq Writes
  OBVIOUS
<1> HIDE DEF P, w
<1>9. a \in Seq(P)
  BY <1>4
<1>10. b \in Seq(P)
  BY <1>5
<1>11. d \in Seq(P)
  BY <1>6
<1> HIDE DEF a, b, d
<1>12. a \o b \in Seq(P)
  BY <1>9, <1>10, Joined
<1>13. make_first \in Seq(P)
  BY <1>3, <1>11, <1>12, Joined
<1>14. MakeFirstWrites = Append(make_first, w)
  BY DEF MakeFirstWrites, w
<1>15. MakeFirstWrites \in Seq(P)
  BY <1>7, <1>13, <1>14
<1>16. MakeFirstWrites \in Seq(Writes)
  BY <1>8, <1>15, SeqOfMore
<1>17. \A i \in DOMAIN MakeFirstWrites : MakeFirstWrites[i] \in P
  BY <1>15
<1> QED
  BY <1>16, <1>17 DEF MakingPermanent, P

SaveWrites == Append(write_certificate, Answer("save_certificate"))

LEMMA SaveListed == SaveWrites \in Seq(Writes) /\ SavingCertificate(SaveWrites)
<1> DEFINE P == {w \in Writes : Is(w, File("certificate", "ours")) \/ w.store = "answer"}
           F == File("certificate", "ours")
           w == Answer("save_certificate")
<1>1. F \in P
  BY WriteTypes DEF Is
<1>2. w \in P
  BY AnswerWrites DEF Commands
<1>3. write_certificate = IF files.certificate = None THEN <<F>> ELSE <<>>
  BY DEF write_certificate
<1>4. P \subseteq Writes
  OBVIOUS
<1> HIDE DEF P, F, w
<1>5. write_certificate \in Seq(P)
  BY <1>1, <1>3
<1>6. SaveWrites \in Seq(P)
  <2>1. SaveWrites = Append(write_certificate, w)
    BY DEF SaveWrites, w
  <2> QED
    BY <1>2, <1>5, <2>1
<1>7. SaveWrites \in Seq(Writes)
  BY <1>4, <1>6, SeqOfMore
<1>8. \A i \in DOMAIN SaveWrites : SaveWrites[i] \in P
  BY <1>6
<1> QED
  BY <1>7, <1>8 DEF SavingCertificate, P

LEMMA ListedNumbers == Listed \subseteq Numbers
BY RouteAssumption DEF Listed, Numbers, Windows

LEMMA ListedNotOwned ==
    ASSUME Settled
    PROVE  \A n \in Listed : ~Owned(n)
BY DEF Settled, OthersStay, Owned, Stages

\* remove_owned deletes every entry of the application that BootOrder names.
LEMMA OwnedListed ==
    ASSUME TypeOK, Settled
    PROVE  /\ remove_owned \in Seq(Writes)
           /\ \A i \in DOMAIN remove_owned :
                 /\ RemovalWrite(remove_owned[i])
                 /\ remove_owned[i].store = "order" =>
                       \A n \in Range(remove_owned[i].value) : ~Owned(n)
           /\ \A n \in Range(order) :
                 variables[n] = "loader" =>
                     \E j \in DOMAIN remove_owned : remove_owned[j] = Variable(n, None)
<1> DEFINE P == {w \in Writes :
                    /\ RemovalWrite(w)
                    /\ w.store = "order" => \A n \in Range(w.value) : ~Owned(n)}
           O == {n \in Entries : Owned(n)}
           All == Ascending(O)
           Left == Retain(order, NotOwned)
           a == [i \in DOMAIN All |-> Variable(All[i], None)]
           b == IF Left = order THEN <<>> ELSE <<BootOrder(Left)>>
           d == IF next # None /\ next \in Range(All) THEN <<BootNext(None)>> ELSE <<>>
<1>1. order \in Seq(Numbers) /\ IsInjective(order) /\ Range(order) \subseteq Numbers
  BY DEF TypeOK, Range
<1>2. O \in SUBSET Numbers /\ O \in SUBSET Nat /\ IsFiniteSet(O)
  <2>1. O \in SUBSET Numbers
    BY <1>1 DEF Entries
  <2> QED
    BY <2>1, NumbersFinite, FS_Subset
<1>3. \A n \in Listed : ~Owned(n) /\ n \in Numbers
  BY ListedNumbers, ListedNotOwned
<1>4. Left \in Seq(Numbers) /\ Range(Left) = Range(order) \cap NotOwned /\ IsInjective(Left)
  BY <1>1, RetainOrder
<1>5. remove_owned = (a \o b) \o d
  BY DEF remove_owned
<1>6. \A n \in O : Owned(n)
  OBVIOUS
<1>7. \A n \in Range(order) : variables[n] = "loader" => n \in O
  BY NoneNotStage DEF Entries, Owned, Stages
<1> HIDE DEF O
<1>8. PICK k \in Nat :
         /\ All \in [1 .. k -> O]
         /\ \A n \in O : \E i \in 1 .. k : All[i] = n
  BY <1>2, AscendingLists
<1> HIDE DEF All, Left
<1>9. \A n \in O : Variable(n, None) \in P
  <2> TAKE n \in O
  <2>1. n \in Numbers \ Listed
    BY <1>2, <1>3, <1>6
  <2>2. Variable(n, None) \in Writes
    BY <2>1, WriteTypes
  <2>3. RemovalWrite(Variable(n, None)) /\ Variable(n, None).store # "order"
    BY <2>1 DEF RemovalWrite, Variable
  <2> QED
    BY <2>2, <2>3
<1>10. BootOrder(Left) \in P
  <2>1. Left \in Orders
    BY <1>4 DEF Orders
  <2>2. BootOrder(Left) \in Writes
    BY <2>1, WriteTypes
  <2>3. BootOrder(Left).store = "order" /\ BootOrder(Left).value = Left
    BY DEF BootOrder
  <2>4. Listed \subseteq Range(Left)
    BY <1>3, <1>4 DEF NotOwned, Settled, OthersStay
  <2>5. \A n \in Range(Left) : ~Owned(n)
    BY <1>4 DEF NotOwned
  <2> QED
    BY <2>1, <2>2, <2>3, <2>4, <2>5 DEF RemovalWrite
<1>11. BootNext(None) \in P
  <2>1. BootNext(None) \in Writes
    BY WriteTypes
  <2>2. BootNext(None).store = "next" /\ BootNext(None).value = None
    BY DEF BootNext
  <2> QED
    BY <2>1, <2>2 DEF RemovalWrite
<1>12. P \subseteq Writes
  OBVIOUS
<1> HIDE DEF P
<1>13. DOMAIN All = 1 .. k
  BY <1>8
<1>14. a = [i \in 1 .. k |-> Variable(All[i], None)]
  BY <1>13
<1> HIDE DEF a
<1>15. a \in Seq(P) /\ DOMAIN a = 1 .. k
  <2>1. \A i \in 1 .. k : Variable(All[i], None) \in P
    BY <1>8, <1>9
  <2> QED
    BY <1>14, <2>1
<1>16. b \in Seq(P)
  BY <1>10
<1>17. d \in Seq(P)
  BY <1>11
<1> HIDE DEF b, d
<1>18. a \o b \in Seq(P) /\ \A i \in DOMAIN a : (a \o b)[i] = a[i]
  <2>1. a \o b \in Seq(P)
    BY <1>15, <1>16, Joined
  <2>2. \A i \in DOMAIN a : (a \o b)[i] = a[i]
    <3>1. a \in Seq(P)
      BY <1>15
    <3> QED
      BY <3>1, <1>16, ConcatAt
  <2> QED
    BY <2>1, <2>2
<1> DEFINE e == a \o b
           f == e \o d
<1>19. e \in Seq(P) /\ \A i \in DOMAIN a : e[i] = a[i]
  BY <1>18
<1>20. DOMAIN a \subseteq DOMAIN e
  <2>1. Len(a \o b) = Len(a) + Len(b) /\ Len(a) \in Nat /\ Len(b) \in Nat
    <3>1. a \in Seq(P)
      BY <1>15
    <3> QED
      BY <1>16, <3>1
  <2>2. DOMAIN a = 1 .. Len(a) /\ DOMAIN e = 1 .. Len(e)
    BY <1>15, <1>19
  <2> QED
    BY <2>1, <2>2
<1> HIDE DEF e
<1>21. f \in Seq(P)
  BY <1>17, <1>19, Joined
<1>22. \A i \in DOMAIN e : f[i] = e[i]
  <2>1. e \in Seq(P)
    BY <1>19
  <2> QED
    BY <2>1, <1>17, ConcatAt
<1>23. DOMAIN e \subseteq DOMAIN f
  <2>1. e \in Seq(P)
    BY <1>19
  <2>2. Len(f) = Len(e) + Len(d) /\ Len(e) \in Nat /\ Len(d) \in Nat
    BY <2>1, <1>17
  <2>3. DOMAIN e = 1 .. Len(e) /\ DOMAIN f = 1 .. Len(f)
    BY <2>1, <1>21
  <2> QED
    BY <2>2, <2>3
<1>24. remove_owned = f
  BY <1>5 DEF e
<1> HIDE DEF f
<1>25. f \in Seq(Writes) /\ \A i \in DOMAIN f : f[i] \in P
  <2>1. f \in Seq(Writes)
    BY <1>12, <1>21, SeqOfMore
  <2>2. \A i \in DOMAIN f : f[i] \in P
    BY <1>21
  <2> QED
    BY <2>1, <2>2
<1>26. \A n \in Range(order) :
          variables[n] = "loader" => \E j \in DOMAIN f : f[j] = Variable(n, None)
  <2> SUFFICES ASSUME NEW n \in O
               PROVE  \E j \in DOMAIN f : f[j] = Variable(n, None)
    BY <1>7
  <2>1. PICK i \in 1 .. k : All[i] = n
    BY <1>8
  <2>2. i \in DOMAIN a /\ a[i] = Variable(n, None)
    BY <1>14, <1>15, <2>1
  <2>3. i \in DOMAIN f /\ f[i] = a[i]
    BY <1>19, <1>20, <1>22, <1>23, <2>2
  <2> QED
    BY <2>2, <2>3
<1> QED
  BY <1>24, <1>25, <1>26 DEF P

RemovalWrites ==
    Append((IF mode = "esp" THEN remove_owned ELSE <<>>) \o remove_media, Answer("remove"))

\* remove_media deletes the files of the application only.
LEMMA MediaListed ==
    ASSUME TypeOK, Settled
    PROVE  /\ remove_media \in Seq(Writes)
           /\ \A i \in DOMAIN remove_media :
                 \/ remove_media[i].store = "receipt" /\ remove_media[i].key \in Machines
                 \/ /\ remove_media[i].store = "file"
                    /\ remove_media[i].key \in {"report", "error"}
                    /\ remove_media[i].value = None
                 \/ /\ remove_media[i].store = "file" /\ remove_media[i].key = "boot"
                    /\ remove_media[i].value = None
                    /\ files.boot # "foreign"
                 \/ /\ remove_media[i].store = "file" /\ remove_media[i].key \in Stages
                    /\ remove_media[i].value = FALSE
                 \/ /\ remove_media[i].store = "file"
                    /\ remove_media[i].key \in {"plan", "owner"}
                    /\ remove_media[i].value = None
<1> DEFINE Media(w) ==
              \/ w.store = "receipt" /\ w.key \in Machines
              \/ w.store = "file" /\ w.key \in {"report", "error"} /\ w.value = None
              \/ /\ w.store = "file" /\ w.key = "boot" /\ w.value = None
                 /\ files.boot # "foreign"
              \/ w.store = "file" /\ w.key \in Stages /\ w.value = FALSE
              \/ w.store = "file" /\ w.key \in {"plan", "owner"} /\ w.value = None
           P == {w \in Writes : Media(w)}
           D == delete_receipts
           B == File("boot", None)
           x == IF mode = "usb" /\ usb_boot_is_owned THEN <<B>> ELSE <<>>
           R == File("report", None)
           Q == File("plan", None)
           E == File("error", None)
           G == File("diagnostic", FALSE)
           L == File("loader", FALSE)
           O == File("owner", None)
           a == <<R, Q, E, G, L, O>>
<1>1. R \in P /\ Q \in P /\ E \in P
  BY WriteTypes DEF File
<1>2. G \in P /\ L \in P
  BY WriteTypes DEF File, Stages
<1>3. O \in P
  BY WriteTypes DEF File
<1>4. mode = "usb" /\ usb_boot_is_owned => B \in P
  <2> HAVE mode = "usb" /\ usb_boot_is_owned
  <2>1. files.owner \in Stages /\ files.boot = files.owner
    BY DEF usb_boot_is_owned, TypeOK
  <2>2. files.boot # "foreign"
    BY <2>1 DEF Stages
  <2> QED
    BY <2>2, WriteTypes DEF File
<1>5. D \in Seq(P)
  <2>1. /\ D \in Seq(Writes)
        /\ \A i \in DOMAIN D : D[i].store = "receipt" /\ D[i].key \in Machines
    BY ReceiptsListed DEF Settled
  <2>2. \A i \in DOMAIN D : D[i] \in P
    BY <2>1
  <2> HIDE DEF P
  <2> QED
    BY <2>1, <2>2
<1>6. remove_media = (a \o D) \o x
  BY DEF remove_media
<1>7. P \subseteq Writes
  OBVIOUS
<1> HIDE DEF P, B, R, Q, E, G, L, O, D
<1>8. a \in Seq(P)
  BY <1>1, <1>2, <1>3
<1>9. x \in Seq(P)
  BY <1>4
<1> HIDE DEF a, x
<1>10. a \o D \in Seq(P)
  BY <1>5, <1>8, Joined
<1>11. remove_media \in Seq(P)
  BY <1>6, <1>9, <1>10, Joined
<1>12. remove_media \in Seq(Writes)
  BY <1>7, <1>11, SeqOfMore
<1>13. \A i \in DOMAIN remove_media : remove_media[i] \in P
  BY <1>11
<1> QED
  BY <1>12, <1>13 DEF P

\* RemoveRoute deletes the entries of the loader before its plan and owner.
LEMMA RemovalListed ==
    ASSUME TypeOK, Settled
    PROVE  RemovalWrites \in Seq(Writes) /\ Removing(RemovalWrites)
<1> DEFINE c == RemovalWrites
           U == IF mode = "esp" THEN remove_owned ELSE <<>>
           M == remove_media
           w == Answer("remove")
<1>1. /\ U \in Seq(Writes)
      /\ \A i \in DOMAIN U :
            /\ RemovalWrite(U[i])
            /\ U[i].store = "order" => \A n \in Range(U[i].value) : ~Owned(n)
      /\ \A n \in Range(order) :
            variables[n] = "loader" => \E j \in DOMAIN U : U[j] = Variable(n, None)
  <2>1. CASE mode = "esp"
    <3>1. U = remove_owned
      BY <2>1
    <3> HIDE DEF U
    <3> QED
      BY <3>1, OwnedListed
  <2>2. CASE mode # "esp"
    <3>1. U = <<>> /\ mode = "usb"
      BY <2>2 DEF TypeOK
    <3>2. \A n \in Range(order) : n \in Numbers
      BY DEF TypeOK, Range
    <3>3. \A n \in Numbers : variables[n] # "loader"
      BY <3>1 DEF Settled, DriveHasNoEntries, Owned, Stages
    <3> HIDE DEF U
    <3>4. U \in Seq(Writes) /\ DOMAIN U = {}
      BY <3>1
    <3> QED
      BY <3>2, <3>3, <3>4
  <2> QED
    BY <2>1, <2>2
<1>2. w \in Writes /\ w.store = "answer"
  BY AnswerWrites DEF Commands
<1>3. c = Append(U \o M, w)
  BY DEF RemovalWrites
<1>4. M \in Seq(Writes)
  BY MediaListed
<1>5. \A n \in Numbers : Is(Variable(n, None), Variable(n, None))
  BY DEF Is
<1>6. Range(order) \subseteq Numbers
  BY DEF TypeOK, Range
<1> DEFINE Part(i) ==
        \/ /\ RemovalWrite(c[i])
           /\ c[i].store = "order" => \A n \in Range(c[i].value) : ~Owned(n)
        \/ c[i].store = "receipt" /\ c[i].key \in Machines
        \/ /\ c[i].store = "file" /\ c[i].key \in {"report", "error"}
           /\ c[i].value = None
        \/ /\ c[i].store = "file" /\ c[i].key = "boot" /\ c[i].value = None
           /\ files.boot # "foreign"
        \/ c[i].store = "file" /\ c[i].key \in Stages /\ c[i].value = FALSE
        \/ /\ c[i].store = "file" /\ c[i].key \in {"plan", "owner"}
           /\ c[i].value = None
           /\ \A n \in Range(order) :
                 variables[n] = "loader" => Earlier(c, i, Variable(n, None))
<1> HIDE DEF U, w, c
<1>7. c \in Seq(Writes) /\ Consists(c, U, M, w)
  BY <1>1, <1>2, <1>3, <1>4, Parts
<1>8. PICK n \in Nat, m \in Nat : n = Len(U) /\ m = Len(M)
  BY <1>7 DEF Consists
<1>9. /\ DOMAIN U = 1 .. n /\ DOMAIN M = 1 .. m
      /\ DOMAIN c = 1 .. n + m + 1
      /\ \A i \in 1 .. n : c[i] = U[i]
      /\ \A k \in 1 .. m : c[n + k] = M[k]
      /\ c[n + m + 1] = w
  BY <1>7, <1>8 DEF Consists
<1>10. ASSUME NEW i \in 1 .. n PROVE Part(i)
  BY <1>1, <1>9
<1>11. ASSUME NEW k \in 1 .. m PROVE Part(n + k)
  <2>1. c[n + k] = M[k]
    BY <1>9
  <2>2. \A x \in Range(order) :
           variables[x] = "loader" => Earlier(c, n + k, Variable(x, None))
    <3> SUFFICES ASSUME NEW x \in Range(order), variables[x] = "loader"
                 PROVE  Earlier(c, n + k, Variable(x, None))
      OBVIOUS
    <3>1. PICK j \in 1 .. n : U[j] = Variable(x, None)
      BY <1>1, <1>9
    <3>2. c[j] = Variable(x, None) /\ j \in 1 .. (n + k) - 1
      BY <1>9, <3>1
    <3>3. Is(c[j], Variable(x, None))
      BY <1>5, <1>6, <3>2
    <3> QED
      BY <3>2, <3>3 DEF Earlier
  <2>3. k \in DOMAIN remove_media
    BY <1>9
  <2> QED
    BY <2>1, <2>2, <2>3, MediaListed
<1>12. Part(n + m + 1)
  BY <1>2, <1>9 DEF RemovalWrite
<1>13. \A i \in DOMAIN c : Part(i)
  <2> SUFFICES ASSUME NEW i \in 1 .. n + m + 1
               PROVE  Part(i)
    BY <1>9
  <2>1. CASE i \in 1 .. n
    BY <1>10, <2>1
  <2>2. CASE i \in n + 1 .. n + m
    <3>1. PICK k \in 1 .. m : i = n + k
      <4>1. i - n \in 1 .. m /\ i = n + (i - n)
        BY <2>2
      <4> QED
        BY <4>1
    <3> QED
      BY <1>11, <3>1
  <2>3. CASE i = n + m + 1
    BY <1>12, <2>3
  <2> HIDE DEF Part
  <2> QED
    BY <2>1, <2>2, <2>3
<1> QED
  BY <1>7, <1>13 DEF Removing, c

-----------------------------------------------------------------------------
(* A command starts.                                                       *)

\* Everything the invariant is about, but the command.
SameState ==
    UNCHANGED <<mode, files, variables, order, next, machine, manager, secureBoot, chain,
                restarted, widened, tried, disturbances>>

LEMMA SameSettled ==
    ASSUME TypeOK, Settled, SameState, chain = <<>>
    PROVE  TypeOK' /\ Settled'
<1>1. TypeOK'
  BY DEF TypeOK, SameState
<1>2. OthersStay' /\ NoDiagnosticFirst' /\ DriveHasNoEntries'
  BY DEF Settled, SameState, OthersStay, NoDiagnosticFirst, DriveHasNoEntries, Owned
<1>3. LoaderNeedsStage' /\ FirstHasTriedPlan' /\ ProvenPlan' /\ ReportOfPlan'
  BY DEF Settled, SameState, LoaderNeedsStage, FirstHasTriedPlan, ProvenPlan,
         ReportOfPlan, HeadIsLoader, LoaderListed, Proven, Tried
<1>4. FreshDiagnostic' /\ DiagnosticIsFresh' /\ Inventory'
  BY DEF Settled, SameState, FreshDiagnostic, DiagnosticIsFresh, Inventory,
         NextIsDiagnostic
<1>5. Booting'
  BY DEF Booting, SameState
<1> QED
  BY <1>1, <1>2, <1>3, <1>4, <1>5 DEF Settled

LEMMA StartPreparing ==
    ASSUME NEW c, Preparing(c), SameState, cmd' = c
    PROVE  Preparing(cmd)'
BY DEF Preparing, SameState, FileWrite, SchedulingWrite, HeadIsLoader, Proven,
       Earlier, Is

LEMMA StartWriting ==
    ASSUME NEW c, WritingLoader(c), SameState, cmd' = c
    PROVE  WritingLoader(cmd)'
BY DEF WritingLoader, WritingPlan, SameState, FileWrite, SchedulingWrite, HeadIsLoader, Proven,
       Earlier, Is

LEMMA StartPermanent ==
    ASSUME NEW c, MakingPermanent(c), SameState, cmd' = c
    PROVE  MakingPermanent(cmd)'
BY DEF MakingPermanent, SameState, RemovalWrite, Tried

LEMMA StartRemoving ==
    ASSUME NEW c, Removing(c), SameState, cmd' = c
    PROVE  Removing(cmd)'
BY DEF Removing, SameState, RemovalWrite, Owned, Earlier, Is

LEMMA StartSaving ==
    ASSUME NEW c, SavingCertificate(c), SameState, cmd' = c
    PROVE  SavingCertificate(cmd)'
BY DEF SavingCertificate, Is

LEMMA DriveHead ==
    ASSUME TypeOK, Settled, mode = "usb"
    PROVE  ~HeadIsLoader
<1> SUFFICES ASSUME HeadIsLoader PROVE FALSE
  OBVIOUS
<1>1. order \in Seq(Numbers) /\ order # <<>>
  BY DEF TypeOK, HeadIsLoader
<1>2. order[1] \in Numbers
  BY <1>1
<1>3. variables[order[1]] = "loader"
  BY DEF HeadIsLoader
<1> QED
  BY <1>2, <1>3 DEF Settled, DriveHasNoEntries, Owned, Stages

\* A screen that is not the installed one: the loader is not the first entry.
LEMMA OtherScreen ==
    ASSUME TypeOK, Settled, externalScreen \notin {"failed", "installed"}
    PROVE  ~HeadIsLoader
<1>1. CASE files.owner = None
  BY <1>1 DEF Settled, LoaderNeedsStage
<1>2. CASE files.owner # None
  <2>1. ~(mode = "esp" /\ loader_first)
    BY <1>2 DEF externalScreen
  <2>2. mode = "esp" \/ mode = "usb"
    BY DEF TypeOK
  <2> QED
    BY <2>1, <2>2, FirstEntry, DriveHead
<1> QED
  BY <1>1, <1>2

\* What the screens say of the stage.
LEMMA ScreenStage ==
    ASSUME TypeOK
    PROVE  /\ externalScreen = "choose" => files.owner = None
           /\ externalScreen \in {"diagnosticMissing", "pickGpu"} =>
                 files.owner = "diagnostic"
           /\ externalScreen = "loaderMissing" =>
                 files.receipts = {} /\ files.owner = "loader"
           /\ externalScreen = "installed" =>
                 files.owner # None /\ mode = "esp" /\ loader_first
           /\ externalScreen = "result" => files.owner = "loader"
<1>1. files.owner \in {"diagnostic", "loader", None}
  BY DEF TypeOK, Stages
<1> QED
  BY <1>1 DEF externalScreen

LEMMA NotProvenHere ==
    ASSUME TypeOK,
           \/ externalScreen \in {"choose", "diagnosticMissing", "pickGpu", "loaderMissing"}
           \/ externalScreen = "result" /\ ~widened
    PROVE  ~Proven
<1>1. files.owner = None => files.owner # "loader"
  BY RouteAssumption DEF Stages
<1> QED
  BY <1>1, ScreenStage DEF Proven

LEMMA ChainEmpty == ASSUME InWindows PROVE chain = <<>>
BY DEF InWindows

\* PrepareDiagnostic keeps the invariant.
LEMMA PrepareKeeps ==
    ASSUME IInv, PrepareDiagnostic
    PROVE  IInv'
<1>1. TypeOK /\ Settled
  BY DEF IInv
<1>2. PICK s \in {"choose", "diagnosticMissing", "pickGpu", "loaderMissing", "result"} :
         /\ externalScreen = s /\ InWindows
         /\ s = "result" => ~widened
         /\ prepare_diagnostic
  BY DEF PrepareDiagnostic, Choose, DiagnoseAgain, On
<1>3. ~HeadIsLoader /\ ~Proven
  BY <1>1, <1>2, OtherScreen, NotProvenHere
<1>4. /\ Usable("diagnostic")
      /\ cmd' = DiagnosticWrites
      /\ SameState
  BY <1>2 DEF prepare_diagnostic, Start, DiagnosticWrites, SameState, firmware, history
<1>5. DiagnosticWrites \in Seq(Writes) /\ Preparing(DiagnosticWrites)
  BY <1>1, <1>3, <1>4, PrepareListed
<1>6. TypeOK' /\ Settled'
  BY <1>1, <1>2, <1>4, ChainEmpty, SameSettled
<1>7. Preparing(cmd)'
  BY <1>4, <1>5, StartPreparing
<1>8. cmd' \in Seq(Writes)
  BY <1>4, <1>5
<1>9. Writes' = Writes
  BY DEF Writes
<1> QED
  BY <1>6, <1>7, <1>8, <1>9 DEF IInv, Running

\* WriteLoader keeps the invariant.
LEMMA WriteKeeps ==
    ASSUME IInv, WriteLoader
    PROVE  IInv'
<1> DEFINE p == [source |-> files.report, handoff |-> manager]
<1>1. TypeOK /\ Settled
  BY DEF IInv
<1>2. PICK s \in {"pickGpu", "loaderMissing", "installed"} :
         externalScreen = s /\ InWindows /\ write_loader
  BY DEF WriteLoader, PickGpu, TryAgain, Repin, On
<1>3. externalScreen = "installed" => successor_changed
  BY <1>2 DEF WriteLoader, PickGpu, TryAgain, Repin, On
<1>4. /\ files.report # None
      /\ Usable("loader")
      /\ cmd' = LoaderWrites(p)
      /\ SameState
  BY <1>2 DEF write_loader, Start, LoaderWrites, SameState, firmware, history
<1>5. p \in Plans /\ p.source = files.report
  BY <1>1, <1>4 DEF TypeOK, Plans
<1>6. files.owner # None
  BY <1>1, <1>2, ScreenStage, NoneNotStage DEF Stages
<1>7. (Proven => HeadIsLoader) /\ (HeadIsLoader => p.source \in tried)
  <2>1. CASE s \in {"pickGpu", "loaderMissing"}
    <3>1. ~HeadIsLoader
      BY <1>1, <1>2, <2>1, OtherScreen
    <3>2. ~Proven
      BY <1>1, <1>2, <2>1, NotProvenHere
    <3> QED
      BY <3>1, <3>2
  <2>2. CASE s = "installed"
    <3>1. mode = "esp" /\ HeadIsLoader
      BY <1>1, <1>2, <2>2, ScreenStage, FirstEntry
    <3>2. Tried(files.plan)
      BY <1>1, <3>1 DEF Settled, FirstHasTriedPlan
    <3>3. files.plan.source = files.report
      BY <1>1, <1>4, <3>1, <3>2 DEF Settled, ReportOfPlan, Tried
    <3> QED
      BY <1>5, <3>1, <3>2, <3>3 DEF Tried
  <2> QED
    BY <2>1, <2>2
<1> HIDE DEF p
<1>8. LoaderWrites(p) \in Seq(Writes) /\ WritingLoader(LoaderWrites(p))
  BY <1>1, <1>4, <1>5, <1>6, <1>7, LoaderListedWrites
<1>9. TypeOK' /\ Settled'
  BY <1>1, <1>2, <1>4, ChainEmpty, SameSettled
<1>10. WritingLoader(cmd)'
  BY <1>4, <1>8, StartWriting
<1>11. cmd' \in Seq(Writes) /\ Writes' = Writes
  BY <1>4, <1>8 DEF Writes
<1> QED
  BY <1>9, <1>10, <1>11 DEF IInv, Running

\* MakePermanent keeps the invariant.
LEMMA PermanentKeeps ==
    ASSUME IInv, MakePermanent
    PROVE  IInv'
<1>1. TypeOK /\ Settled
  BY DEF IInv
<1>2. /\ InWindows /\ widened /\ mode = "esp"
      /\ files.owner = "loader" /\ files.receipts # {}
      /\ owned_entry("loader") # None
      /\ cmd' = MakeFirstWrites
      /\ SameState
  BY DEF MakePermanent, On, Start, MakeFirstWrites, SameState, firmware, history
<1>3. Tried(files.plan)
  <2>1. Proven
    BY <1>2 DEF Proven
  <2>2. LoaderListed
    BY <1>1, <1>2, EntryFound DEF LoaderListed
  <2> QED
    BY <1>1, <2>1, <2>2 DEF Settled, ProvenPlan
<1>4. files.owner # None
  BY <1>2, NoneNotStage DEF Stages
<1>5. MakeFirstWrites \in Seq(Writes) /\ MakingPermanent(MakeFirstWrites)
  BY <1>1, <1>2, <1>3, <1>4, MakeFirstListed
<1>6. TypeOK' /\ Settled'
  BY <1>1, <1>2, ChainEmpty, SameSettled
<1>7. MakingPermanent(cmd)'
  BY <1>2, <1>5, StartPermanent
<1>8. cmd' \in Seq(Writes) /\ Writes' = Writes
  BY <1>2, <1>5 DEF Writes
<1> QED
  BY <1>6, <1>7, <1>8 DEF IInv, Running

\* RemoveRoute keeps the invariant.
LEMMA RemoveKeeps ==
    ASSUME IInv, RemoveRoute
    PROVE  IInv'
<1>1. TypeOK /\ Settled
  BY DEF IInv
<1>2. InWindows /\ cmd' = RemovalWrites /\ SameState
  BY DEF RemoveRoute, Start, RemovalWrites, SameState, firmware, history
<1>3. RemovalWrites \in Seq(Writes) /\ Removing(RemovalWrites)
  BY <1>1, RemovalListed
<1>4. TypeOK' /\ Settled'
  BY <1>1, <1>2, ChainEmpty, SameSettled
<1>5. Removing(cmd)'
  BY <1>2, <1>3, StartRemoving
<1>6. cmd' \in Seq(Writes) /\ Writes' = Writes
  BY <1>2, <1>3 DEF Writes
<1> QED
  BY <1>4, <1>5, <1>6 DEF IInv, Running

\* SaveCertificate keeps the invariant.
LEMMA SaveKeeps ==
    ASSUME IInv, SaveCertificate
    PROVE  IInv'
<1>1. TypeOK /\ Settled
  BY DEF IInv
<1>2. InWindows /\ cmd' = SaveWrites /\ SameState
  BY DEF SaveCertificate, On, Start, SaveWrites, SameState, firmware, history
<1>3. SaveWrites \in Seq(Writes) /\ SavingCertificate(SaveWrites)
  BY SaveListed
<1>4. TypeOK' /\ Settled'
  BY <1>1, <1>2, ChainEmpty, SameSettled
<1>5. SavingCertificate(cmd)'
  BY <1>2, <1>3, StartSaving
<1>6. cmd' \in Seq(Writes) /\ Writes' = Writes
  BY <1>2, <1>3 DEF Writes
<1> QED
  BY <1>4, <1>5, <1>6 DEF IInv, Running

-----------------------------------------------------------------------------
(* A write of the running command.                                         *)

\* A file of the medium that is not a receipt holds a value now.
FileWritten(k, v) == files' = [files EXCEPT ![k] = v]

FieldsAfter(k, v) ==
    /\ files'.report = IF k = "report" THEN v ELSE files.report
    /\ files'.plan = IF k = "plan" THEN v ELSE files.plan
    /\ files'.error = IF k = "error" THEN v ELSE files.error
    /\ files'.diagnostic = IF k = "diagnostic" THEN v ELSE files.diagnostic
    /\ files'.loader = IF k = "loader" THEN v ELSE files.loader
    /\ files'.boot = IF k = "boot" THEN v ELSE files.boot
    /\ files'.owner = IF k = "owner" THEN v ELSE files.owner
    /\ files'.certificate = IF k = "certificate" THEN v ELSE files.certificate
    /\ files'.receipts = files.receipts /\ files'.torn = files.torn

LEMMA FileSet ==
    ASSUME TypeOK, NEW k \in Names, NEW v, FileWritten(k, v)
    PROVE  FieldsAfter(k, v)
BY DEF TypeOK, Names, FileWritten, FieldsAfter

\* The files of the medium, as TypeOK has them.
Errors ==
    {None, write_last_error("diagnostic", "other")}
        \cup {write_last_error("loader", r) : r \in {"mismatch", "other"}}

Medium ==
    [report : Machines \cup {None}, plan : Plans \cup {None},
     receipts : SUBSET Machines, torn : SUBSET Machines, error : Errors,
     diagnostic : BOOLEAN, loader : BOOLEAN,
     boot : Stages \cup {None, "foreign"}, owner : Stages \cup {None},
     certificate : {None, "ours", "other"}]

MediumValue(k, v) ==
    \/ k = "report" /\ v = None
    \/ k = "plan" /\ v \in Plans \cup {None}
    \/ k = "error" /\ v = None
    \/ k \in Stages /\ v \in BOOLEAN
    \/ k \in {"boot", "owner"} /\ v \in Stages \cup {None}
    \/ k = "certificate" /\ v = "ours"

LEMMA FileTyped ==
    ASSUME files \in Medium, NEW k, NEW v, FileWritten(k, v), MediumValue(k, v)
    PROVE  files' \in Medium
<1>1. None \in Errors
  BY DEF Errors
<1>2. CASE k = "report" /\ v = None
  BY <1>2 DEF FileWritten, Medium
<1>3. CASE k = "plan" /\ v \in Plans \cup {None}
  BY <1>3 DEF FileWritten, Medium
<1>4. CASE k = "error" /\ v = None
  BY <1>1, <1>4 DEF FileWritten, Medium
<1>5. CASE k \in Stages /\ v \in BOOLEAN
  BY <1>5 DEF FileWritten, Medium, Stages
<1>6. CASE k \in {"boot", "owner"} /\ v \in Stages \cup {None}
  BY <1>6 DEF FileWritten, Medium
<1>7. CASE k = "certificate" /\ v = "ours"
  BY <1>7 DEF FileWritten, Medium
<1> QED
  BY <1>2, <1>3, <1>4, <1>5, <1>6, <1>7 DEF MediumValue

\* A receipt is gone.
ReceiptRemoved(m) ==
    files' = [files EXCEPT !.receipts = @ \ {m}, !.torn = @ \ {m}]

OnlyReceipts ==
    /\ files'.report = files.report /\ files'.plan = files.plan
    /\ files'.error = files.error /\ files'.boot = files.boot
    /\ files'.owner = files.owner
    /\ files'.receipts \subseteq files.receipts /\ files'.torn \subseteq files.torn

LEMMA ReceiptGone ==
    ASSUME files \in Medium, NEW m, ReceiptRemoved(m)
    PROVE  files' \in Medium /\ OnlyReceipts /\ files'.receipts = files.receipts \ {m}
BY DEF Medium, ReceiptRemoved, OnlyReceipts

LEMMA MediumType == TypeOK => files \in Medium
BY DEF TypeOK, Medium, Errors

\* What one write does.
StepDoes(w) ==
    /\ UNCHANGED <<mode, machine, manager, secureBoot, chain, widened, tried,
                   disturbances>>
    /\ restarted' \in BOOLEAN
    /\ w.store = "file" =>
          FileWritten(w.key, w.value) /\ UNCHANGED <<variables, order, next>>
    /\ w.store = "receipt" =>
          ReceiptRemoved(w.key) /\ UNCHANGED <<variables, order, next>>
    /\ w.store = "variable" =>
          /\ variables' = [variables EXCEPT ![w.key] = w.value]
          /\ UNCHANGED <<files, order, next>>
    /\ w.store = "order" => order' = w.value /\ UNCHANGED <<files, variables, next>>
    /\ w.store = "next" => next' = w.value /\ UNCHANGED <<files, variables, order>>
    /\ w.store = "answer" => UNCHANGED <<files, variables, order, next>>

LEMMA StepWrites ==
    ASSUME TypeOK, cmd \in Seq(Writes), Step
    PROVE  cmd # <<>> /\ cmd' = Tail(cmd) /\ StepDoes(cmd[1])
<1>1. cmd # <<>> /\ cmd' = Tail(cmd)
  BY DEF Step
<1>2. Head(cmd) = cmd[1]
  BY <1>1
<1>3. restarted \in BOOLEAN
  BY DEF TypeOK
<1>4. restarted' \in BOOLEAN
  BY <1>3 DEF Step
<1>5. UNCHANGED <<mode, machine, manager, secureBoot, chain, widened, tried,
                  disturbances>>
  BY DEF Step, history
<1>6. StepDoes(cmd[1])
  BY <1>2, <1>4, <1>5 DEF Step, StepDoes, FileWritten, ReceiptRemoved
<1> QED
  BY <1>1, <1>6

\* A step that leaves the Boot#### variables well typed leaves all of it so.
LEMMA StepTyped ==
    ASSUME TypeOK, chain = <<>>, files' \in Medium,
           UNCHANGED <<mode, machine, manager, secureBoot, chain, widened, tried,
                       disturbances>>,
           restarted' \in BOOLEAN,
           variables' \in [Numbers -> Stages \cup {None, "windows", "foreign"}],
           order' \in Orders, next' \in Numbers \cup {None}
    PROVE  TypeOK'
<1>1. order' \in Seq(Numbers) /\ IsInjective(order')
  BY DEF Orders
<1>2. files' \in [report : Machines \cup {None}, plan : Plans \cup {None},
                  receipts : SUBSET Machines, torn : SUBSET Machines,
                  error : {None, write_last_error("diagnostic", "other")}
                          \cup {write_last_error("loader", r) :
                                   r \in {"mismatch", "other"}},
                  diagnostic : BOOLEAN, loader : BOOLEAN,
                  boot : Stages \cup {None, "foreign"},
                  owner : Stages \cup {None},
                  certificate : {None, "ours", "other"}]
  BY DEF Medium, Errors
<1> QED
  BY <1>1, <1>2 DEF TypeOK

LEMMA TailOf ==
    ASSUME NEW S, NEW c \in Seq(S), c # <<>>
    PROVE  /\ Tail(c) \in Seq(S) /\ 1 \in DOMAIN c
           /\ \A i \in DOMAIN Tail(c) :
                 i \in Nat /\ i + 1 \in DOMAIN c /\ Tail(c)[i] = c[i + 1]
<1>1. PICK n \in Nat : n = Len(c) /\ DOMAIN c = 1 .. n /\ n # 0
  OBVIOUS
<1>2. Tail(c) \in Seq(S) /\ Len(Tail(c)) = n - 1
  BY <1>1
<1>3. DOMAIN Tail(c) = 1 .. n - 1
  BY <1>2
<1>4. \A i \in 1 .. n - 1 : Tail(c)[i] = c[i + 1]
  BY <1>1
<1> QED
  BY <1>1, <1>2, <1>3, <1>4

\* What came earlier than a write still does, or it was the first.
LEMMA EarlierTail ==
    ASSUME NEW c, NEW i \in Nat, NEW v, NEW t,
           \A j \in 1 .. i - 1 : t[j] = c[j + 1],
           Earlier(c, i + 1, v)
    PROVE  Is(c[1], v) \/ Earlier(t, i, v)
<1>1. PICK j \in 1 .. (i + 1) - 1 : Is(c[j], v)
  BY DEF Earlier
<1>2. CASE j = 1
  BY <1>1, <1>2
<1>3. CASE j # 1
  <2>1. j - 1 \in 1 .. i - 1 /\ (j - 1) + 1 = j
    BY <1>1, <1>3
  <2>2. t[j - 1] = c[j]
    BY <2>1
  <2> QED
    BY <1>1, <2>1, <2>2 DEF Earlier
<1> QED
  BY <1>2, <1>3

LEMMA EarlierFirst == \A c, v : ~Earlier(c, 1, v)
BY DEF Earlier

\* The rest of the command: t is its tail.
Rest(c, t) ==
    /\ t \in Seq(Writes)
    /\ \A i \in DOMAIN t :
          /\ i \in Nat /\ i + 1 \in DOMAIN c /\ t[i] = c[i + 1]
          /\ \A v : Earlier(c, i + 1, v) => Is(c[1], v) \/ Earlier(t, i, v)

LEMMA RestOf ==
    ASSUME NEW c \in Seq(Writes), c # <<>>
    PROVE  Rest(c, Tail(c)) /\ 1 \in DOMAIN c /\ c[1] \in Writes
<1> DEFINE t == Tail(c)
<1>1. /\ t \in Seq(Writes) /\ 1 \in DOMAIN c
      /\ \A i \in DOMAIN t : i \in Nat /\ i + 1 \in DOMAIN c /\ t[i] = c[i + 1]
  BY TailOf
<1> HIDE DEF t
<1>2. \A i \in DOMAIN t : \A j \in 1 .. i - 1 : t[j] = c[j + 1]
  <2>1. DOMAIN t = 1 .. Len(t) /\ Len(t) \in Nat
    BY <1>1
  <2> TAKE i \in DOMAIN t
  <2> TAKE j \in 1 .. i - 1
  <2>2. j \in DOMAIN t
    BY <2>1
  <2> QED
    BY <1>1, <2>2
<1>3. \A i \in DOMAIN t : \A v : Earlier(c, i + 1, v) => Is(c[1], v) \/ Earlier(t, i, v)
  BY <1>1, <1>2, EarlierTail
<1>4. c[1] \in Writes
  BY <1>1
<1> QED
  BY <1>1, <1>3, <1>4 DEF Rest, t

\* The head of a stage or a removal that replaces or removes a file.
Replaces(w, k, v) ==
    /\ w.store = "file" /\ w.key = k /\ w.value = v

LEMMA PreparingHead ==
    ASSUME NEW c, 1 \in DOMAIN c, Preparing(c)
    PROVE  \/ Replaces(c[1], "error", None) \/ Replaces(c[1], "diagnostic", TRUE)
           \/ Replaces(c[1], "boot", "diagnostic") /\ files.boot # "foreign"
           \/ Replaces(c[1], "owner", "diagnostic")
           \/ Replaces(c[1], "report", None) \/ Replaces(c[1], "plan", None)
           \/ c[1].store = "receipt" /\ c[1].key \in Machines
           \/ c[1].store = "answer"
           \/ /\ SchedulingWrite(c[1], "diagnostic")
              /\ files.report = None /\ files.plan = None
BY EarlierFirst DEF Preparing, FileWrite, Replaces, Is, File

LEMMA WritesSame == Writes' = Writes /\ Listed' = Listed
BY DEF Writes, Listed

LEMMA Shrinks ==
    ASSUME Inventory, files'.receipts \subseteq files.receipts,
           files'.torn \subseteq files.torn
    PROVE  Inventory'
<1>1. IsFiniteSet(files.receipts) /\ IsFiniteSet(files.torn)
  BY DEF Inventory
<1>2. files'.receipts \in SUBSET files.receipts /\ files'.torn \in SUBSET files.torn
  OBVIOUS
<1>3. IsFiniteSet(files'.receipts) /\ IsFiniteSet(files'.torn)
  BY <1>1, <1>2, FS_Subset
<1> QED
  BY <1>3 DEF Inventory

LEMMA NamesKnown ==
    ASSUME NEW k, k \in {"report", "plan", "error", "diagnostic", "loader", "boot",
                         "owner", "certificate"}
    PROVE  k \in Names
BY DEF Names

LEMMA SameRest ==
    ASSUME TypeOK
    PROVE  /\ variables \in [Numbers -> Stages \cup {None, "windows", "foreign"}]
           /\ order \in Orders /\ next \in Numbers \cup {None}
BY DEF TypeOK, Orders

\* PrepareDiagnostic: a write on the medium.
LEMMA PreparingFile ==
    ASSUME TypeOK, Settled, NEW c, chain = <<>>, 1 \in DOMAIN c, Preparing(c),
           StepDoes(c[1]), ~SchedulingWrite(c[1], "diagnostic")
    PROVE  /\ TypeOK' /\ Settled'
           /\ UNCHANGED <<mode, variables, order, next>>
           /\ ~HeadIsLoader' /\ ~Proven'
           /\ files.boot # "foreign" => files'.boot # "foreign"
           /\ files.report = None => files'.report = None
           /\ files.plan = None => files'.plan = None
           /\ Is(c[1], File("report", None)) => files'.report = None
           /\ Is(c[1], File("plan", None)) => files'.plan = None
<1> DEFINE w == c[1]
<1>1. \/ Replaces(w, "error", None) \/ Replaces(w, "diagnostic", TRUE)
      \/ Replaces(w, "boot", "diagnostic") \/ Replaces(w, "owner", "diagnostic")
      \/ Replaces(w, "report", None) \/ Replaces(w, "plan", None)
      \/ w.store = "receipt"
      \/ w.store = "answer"
  BY PreparingHead
<1>2. StepDoes(w)
  OBVIOUS
<1>3. files \in Medium
  BY MediumType
<1>4. ~HeadIsLoader /\ ~Proven
  BY DEF Preparing
<1>5. /\ Is(w, File("report", None)) => Replaces(w, "report", None)
      /\ Is(w, File("plan", None)) => Replaces(w, "plan", None)
  BY DEF Is, File, Replaces
<1> HIDE DEF w
<1>6. /\ UNCHANGED <<mode, machine, manager, secureBoot, chain, widened, tried,
                     disturbances, variables, order, next>>
      /\ restarted' \in BOOLEAN
  BY <1>1, <1>2 DEF StepDoes, Replaces
<1> DEFINE Done ==
           /\ files' \in Medium
           /\ files'.report \in {files.report, None} /\ files'.plan \in {files.plan, None}
           /\ files'.owner \in {files.owner, "diagnostic"}
           /\ files'.boot \in {files.boot, "diagnostic"}
           /\ files'.receipts \subseteq files.receipts /\ files'.torn \subseteq files.torn
           /\ Replaces(w, "report", None) => files'.report = None
           /\ Replaces(w, "plan", None) => files'.plan = None
<1>7. Done
  <2>1. CASE w.store = "file"
    <3>1. FileWritten(w.key, w.value)
      BY <1>2, <2>1 DEF StepDoes
    <3>2. w.key \in Names /\ MediumValue(w.key, w.value)
      BY <1>1, <2>1 DEF Replaces, Names, MediumValue, Stages
    <3>3. files' \in Medium
      BY <1>3, <3>1, <3>2, FileTyped
    <3>4. FieldsAfter(w.key, w.value)
      BY <3>1, <3>2, FileSet
    <3> QED
      BY <1>1, <2>1, <3>3, <3>4 DEF Replaces, FieldsAfter
  <2>2. CASE w.store = "receipt"
    <3>1. ReceiptRemoved(w.key)
      BY <1>2, <2>2 DEF StepDoes
    <3>2. files' \in Medium /\ OnlyReceipts
      BY <1>3, <3>1, ReceiptGone
    <3> QED
      BY <2>2, <3>2 DEF OnlyReceipts, Replaces
  <2>3. CASE w.store = "answer"
    BY <1>2, <1>3, <2>3 DEF StepDoes, Replaces
  <2> QED
    BY <1>1, <2>1, <2>2, <2>3 DEF Replaces
<1>8. TypeOK'
  BY <1>6, <1>7, StepTyped, SameRest
<1>9. ~HeadIsLoader' /\ ~Proven'
  BY <1>4, <1>6, <1>7 DEF HeadIsLoader, Proven
<1>10. OthersStay' /\ NoDiagnosticFirst' /\ DriveHasNoEntries'
  BY <1>6 DEF Settled, OthersStay, NoDiagnosticFirst, DriveHasNoEntries, Owned
<1>11. LoaderNeedsStage' /\ FirstHasTriedPlan' /\ ProvenPlan'
  BY <1>9 DEF LoaderNeedsStage, FirstHasTriedPlan, ProvenPlan
<1>12. ReportOfPlan' /\ FreshDiagnostic'
  BY <1>6, <1>7 DEF Settled, ReportOfPlan, FreshDiagnostic, NextIsDiagnostic
<1>13. DiagnosticIsFresh'
  <2>1. BeforeWindows(chain)' = {}
    BY <1>6 DEF BeforeWindows
  <2> QED
    BY <2>1 DEF DiagnosticIsFresh
<1>14. Booting' /\ Inventory'
  BY <1>6, <1>7, Shrinks DEF Booting, Settled
<1>15. Settled'
  BY <1>10, <1>11, <1>12, <1>13, <1>14 DEF Settled
<1>16. /\ files.boot # "foreign" => files'.boot # "foreign"
       /\ files.report = None => files'.report = None
       /\ files.plan = None => files'.plan = None
  BY <1>7
<1>17. /\ Is(w, File("report", None)) => files'.report = None
       /\ Is(w, File("plan", None)) => files'.plan = None
  BY <1>5, <1>7
<1> QED
  BY <1>6, <1>8, <1>9, <1>15, <1>16, <1>17 DEF w

LEMMA HeadNumber ==
    ASSUME TypeOK, order # <<>>
    PROVE  /\ order[1] \in Numbers /\ order[1] \in Range(order)
           /\ order[1] # Windows => order[1] \in BeforeWindows(order)
<1>1. order \in Seq(Numbers)
  BY DEF TypeOK
<1>2. 1 \in DOMAIN order /\ order[1] \in Numbers
  BY <1>1
<1>3. order[1] # Windows => \A j \in 1 .. 1 : order[j] # Windows
  OBVIOUS
<1> QED
  BY <1>2, <1>3 DEF Range, BeforeWindows

\* What a write of schedule leaves as it is.
Scheduled(kind) ==
    /\ UNCHANGED <<mode, files, machine, manager, secureBoot, chain, widened, tried,
                   disturbances>>
    /\ BeforeWindows(order') = BeforeWindows(order)
    /\ order # <<>> => order' # <<>> /\ order'[1] = order[1]
    /\ order = <<>> => order' = <<>>
    /\ \A n \in BeforeWindows(order) : variables'[n] = variables[n]
    /\ \A n \in Listed : variables'[n] = variables[n]
    /\ \A n \in Numbers : variables'[n] \in {variables[n], kind}
    /\ Listed \subseteq Range(order')
    /\ mode = "esp"

\* schedule changes nothing before Windows.
LEMMA ScheduleStep ==
    ASSUME TypeOK, Settled, NEW kind \in Stages, NEW w, StepDoes(w),
           SchedulingWrite(w, kind)
    PROVE  /\ Scheduled(kind)
           /\ restarted' \in BOOLEAN
           /\ variables' \in [Numbers -> Stages \cup {None, "windows", "foreign"}]
           /\ order' \in Orders /\ next' \in Numbers \cup {None}
           /\ w.store = "variable" => variables'[w.key] = kind /\ UNCHANGED next
           /\ w.store = "order" => UNCHANGED <<variables, next>>
           /\ w.store = "next" => next' = w.value /\ UNCHANGED variables
<1>1. /\ variables \in [Numbers -> Stages \cup {None, "windows", "foreign"}]
      /\ order \in Orders /\ next \in Numbers \cup {None}
  BY SameRest
<1>2. Listed \subseteq Numbers /\ Listed \subseteq Range(order)
  BY ListedNumbers DEF Settled, OthersStay
<1>3. BeforeWindows(order) \subseteq Numbers
  <2>1. Range(order) \subseteq Numbers
    BY DEF TypeOK, Range
  <2> QED
    BY <2>1 DEF BeforeWindows, Range
<1>4. /\ UNCHANGED <<mode, machine, manager, secureBoot, chain, widened, tried,
                     disturbances>>
      /\ restarted' \in BOOLEAN /\ mode = "esp"
  BY DEF StepDoes, SchedulingWrite
<1>5. CASE w.store = "variable"
  <2>1. /\ w.key \in Numbers \ Listed /\ w.value = kind
        /\ w.key \in BeforeWindows(order) => variables[w.key] = kind
    BY <1>5 DEF SchedulingWrite
  <2>2. variables' = [variables EXCEPT ![w.key] = w.value] /\ UNCHANGED <<files, order, next>>
    BY <1>5 DEF StepDoes
  <2>3. \A n \in Numbers : variables'[n] = IF n = w.key THEN kind ELSE variables[n]
    BY <1>1, <2>1, <2>2
  <2>4. variables' \in [Numbers -> Stages \cup {None, "windows", "foreign"}]
    BY <1>1, <2>1, <2>2
  <2>5. Scheduled(kind)
    BY <1>2, <1>3, <1>4, <2>1, <2>2, <2>3 DEF Scheduled
  <2> QED
    BY <1>1, <1>4, <1>5, <2>1, <2>2, <2>3, <2>4, <2>5
<1>6. CASE w.store = "order"
  <2>1. /\ w.value \in Orders
        /\ w.value # <<>> /\ order # <<>> /\ w.value[1] = order[1]
        /\ BeforeWindows(w.value) = BeforeWindows(order)
        /\ Listed \subseteq Range(w.value)
    BY <1>6 DEF SchedulingWrite
  <2>2. order' = w.value /\ UNCHANGED <<files, variables, next>>
    BY <1>6 DEF StepDoes
  <2>3. Scheduled(kind)
    BY <1>4, <2>1, <2>2 DEF Scheduled
  <2> QED
    BY <1>1, <1>4, <1>6, <2>1, <2>2, <2>3
<1>7. CASE w.store = "next"
  <2>1. w.value \in Numbers
    BY <1>7 DEF SchedulingWrite
  <2>2. next' = w.value /\ UNCHANGED <<files, variables, order>>
    BY <1>7 DEF StepDoes
  <2>3. Scheduled(kind)
    BY <1>2, <1>4, <2>1, <2>2 DEF Scheduled
  <2> QED
    BY <1>1, <1>4, <1>7, <2>1, <2>2, <2>3
<1> QED
  BY <1>5, <1>6, <1>7 DEF SchedulingWrite

LEMMA ScheduledKeeps ==
    ASSUME TypeOK, Settled, NEW kind \in Stages, Scheduled(kind), chain = <<>>
    PROVE  /\ OthersStay' /\ NoDiagnosticFirst' /\ DriveHasNoEntries'
           /\ (HeadIsLoader' <=> HeadIsLoader)
           /\ (Proven' <=> Proven)
           /\ LoaderNeedsStage' /\ FirstHasTriedPlan' /\ ReportOfPlan'
           /\ DiagnosticIsFresh' /\ Inventory'
<1>1. OthersStay'
  <2>1. Windows \in Listed /\ Listed' = Listed
    BY DEF Listed
  <2> QED
    BY <2>1 DEF Settled, OthersStay, Scheduled
<1>2. NoDiagnosticFirst'
  BY DEF Settled, NoDiagnosticFirst, Scheduled
<1>3. DriveHasNoEntries'
  BY DEF DriveHasNoEntries, Scheduled
<1>4. HeadIsLoader' <=> HeadIsLoader
  <2>1. order # <<>> => variables'[order[1]] = variables[order[1]]
    <3>1. Windows \in Listed
      BY DEF Listed
    <3> QED
      BY <3>1, HeadNumber DEF Scheduled
  <2> QED
    BY <2>1 DEF HeadIsLoader, Scheduled
<1>5. files' = files /\ widened' = widened /\ tried' = tried /\ mode' = mode /\ chain' = chain
  BY DEF Scheduled
<1>6. Proven' <=> Proven
  BY <1>5 DEF Proven
<1>7. LoaderNeedsStage' /\ FirstHasTriedPlan' /\ ReportOfPlan' /\ Inventory'
  BY <1>4, <1>5 DEF Settled, LoaderNeedsStage, FirstHasTriedPlan, ReportOfPlan,
                    Inventory, Tried
<1>8. DiagnosticIsFresh'
  <2>1. BeforeWindows(chain)' = {}
    BY <1>5 DEF BeforeWindows
  <2> QED
    BY <2>1 DEF DiagnosticIsFresh
<1> QED
  BY <1>1, <1>2, <1>3, <1>4, <1>6, <1>7, <1>8

LEMMA SchedulingStays ==
    ASSUME NEW kind \in Stages, Scheduled(kind), NEW v, SchedulingWrite(v, kind)
    PROVE  SchedulingWrite(v, kind)'
<1>1. Listed' = Listed /\ Numbers' = Numbers /\ Orders' = Orders
  BY DEF Listed, Numbers, Orders
<1>2. \A n \in Numbers : variables[n] = kind => variables'[n] = kind
  BY DEF Scheduled
<1> QED
  BY <1>1, <1>2 DEF SchedulingWrite, Scheduled

LEMMA FileWriteStays ==
    ASSUME NEW kind, NEW v, FileWrite(v, kind),
           files.boot # "foreign" => files'.boot # "foreign"
    PROVE  FileWrite(v, kind)'
BY DEF FileWrite

\* A scheduling write that nothing changed for.
LEMMA SchedulingSame ==
    ASSUME NEW kind, NEW v, SchedulingWrite(v, kind), UNCHANGED <<mode, variables, order>>
    PROVE  SchedulingWrite(v, kind)'
BY DEF SchedulingWrite

\* A prepare_diagnostic goes on.
LEMMA PreparingKeeps ==
    ASSUME TypeOK, Settled, chain = <<>>, NEW c, NEW t, 1 \in DOMAIN c, Rest(c, t),
           cmd' = t, StepDoes(c[1]), Preparing(c)
    PROVE  TypeOK' /\ Settled' /\ Preparing(cmd)'
<1> DEFINE R == File("report", None)
           Q == File("plan", None)
<1>1. \A i \in DOMAIN t :
         \/ FileWrite(t[i], "diagnostic") \/ Is(t[i], R) \/ Is(t[i], Q)
         \/ /\ SchedulingWrite(t[i], "diagnostic")
            /\ files.report = None \/ Is(c[1], R) \/ Earlier(t, i, R)
            /\ files.plan = None \/ Is(c[1], Q) \/ Earlier(t, i, Q)
  BY DEF Preparing, Rest
<1>2. R' = R /\ Q' = Q
  BY DEF File
<1> HIDE DEF R, Q
<1>3. CASE ~SchedulingWrite(c[1], "diagnostic")
  <2>1. /\ TypeOK' /\ Settled'
        /\ UNCHANGED <<mode, variables, order, next>>
        /\ ~HeadIsLoader' /\ ~Proven'
        /\ files.boot # "foreign" => files'.boot # "foreign"
        /\ files.report = None => files'.report = None
        /\ files.plan = None => files'.plan = None
        /\ Is(c[1], R) => files'.report = None
        /\ Is(c[1], Q) => files'.plan = None
    BY <1>3, PreparingFile DEF R, Q
  <2>2. \A i \in DOMAIN t :
           /\ FileWrite(t[i], "diagnostic") => FileWrite(t[i], "diagnostic")'
           /\ SchedulingWrite(t[i], "diagnostic") => SchedulingWrite(t[i], "diagnostic")'
    BY <2>1, FileWriteStays, SchedulingSame
  <2>3. \A i \in DOMAIN t :
           \/ FileWrite(t[i], "diagnostic")' \/ Is(t[i], R) \/ Is(t[i], Q)
           \/ /\ SchedulingWrite(t[i], "diagnostic")'
              /\ files'.report = None \/ Earlier(t, i, R)
              /\ files'.plan = None \/ Earlier(t, i, Q)
    BY <1>1, <2>1, <2>2
  <2>4. Preparing(cmd)'
    BY <2>1, <2>3 DEF Preparing, R, Q
  <2> QED
    BY <2>1, <2>4
<1>4. CASE SchedulingWrite(c[1], "diagnostic")
  <2>1. files.report = None /\ files.plan = None
    BY <1>4, PreparingHead
         DEF SchedulingWrite, Replaces
  <2>2. /\ Scheduled("diagnostic")
        /\ restarted' \in BOOLEAN
        /\ variables' \in [Numbers -> Stages \cup {None, "windows", "foreign"}]
        /\ order' \in Orders /\ next' \in Numbers \cup {None}
    BY <1>4, ScheduleStep DEF Stages
  <2>3. UNCHANGED <<mode, files, machine, manager, secureBoot, chain, widened, tried,
                    disturbances>>
    BY <2>2 DEF Scheduled
  <2>4. TypeOK'
    BY <2>2, <2>3, MediumType, StepTyped
  <2>5. /\ OthersStay' /\ NoDiagnosticFirst' /\ DriveHasNoEntries'
        /\ (HeadIsLoader' <=> HeadIsLoader)
        /\ (Proven' <=> Proven)
        /\ LoaderNeedsStage' /\ FirstHasTriedPlan' /\ ReportOfPlan'
        /\ DiagnosticIsFresh' /\ Inventory'
    BY <2>2, ScheduledKeeps DEF Stages
  <2>6. ~HeadIsLoader' /\ ~Proven'
    BY <2>5 DEF Preparing
  <2>7. ProvenPlan' /\ FreshDiagnostic' /\ Booting'
    BY <2>1, <2>3, <2>6 DEF ProvenPlan, FreshDiagnostic, Booting
  <2>8. Settled'
    BY <2>5, <2>7 DEF Settled
  <2>9. \A i \in DOMAIN t :
           /\ FileWrite(t[i], "diagnostic") => FileWrite(t[i], "diagnostic")'
           /\ SchedulingWrite(t[i], "diagnostic") => SchedulingWrite(t[i], "diagnostic")'
    BY <2>2, <2>3, FileWriteStays, SchedulingStays DEF Stages
  <2>10. \A i \in DOMAIN t :
            \/ FileWrite(t[i], "diagnostic")' \/ Is(t[i], R) \/ Is(t[i], Q)
            \/ /\ SchedulingWrite(t[i], "diagnostic")'
               /\ files'.report = None
               /\ files'.plan = None
    BY <1>1, <2>1, <2>3, <2>9
  <2>11. Preparing(cmd)'
    BY <2>6, <2>10 DEF Preparing, R, Q
  <2> QED
    BY <2>4, <2>8, <2>11
<1> QED
  BY <1>3, <1>4

LEMMA WritingHead ==
    ASSUME NEW c, NEW p, 1 \in DOMAIN c, WritingPlan(c, p)
    PROVE  \/ Replaces(c[1], "error", None) \/ Replaces(c[1], "loader", TRUE)
           \/ Replaces(c[1], "boot", "loader") /\ files.boot # "foreign"
           \/ Replaces(c[1], "owner", "loader") /\ files.receipts = {}
           \/ Replaces(c[1], "plan", p)
           \/ c[1].store = "receipt" /\ c[1].key \in Machines
           \/ c[1].store = "answer"
           \/ /\ SchedulingWrite(c[1], "loader")
              /\ c[1].store = "next" => variables[c[1].value] = "loader"
<1>1. \/ /\ FileWrite(c[1], "loader")
         /\ Is(c[1], File("owner", "loader")) => files.receipts = {}
      \/ Is(c[1], File("plan", p))
      \/ /\ SchedulingWrite(c[1], "loader")
         /\ c[1].store = "next" => variables[c[1].value] = "loader"
  BY EarlierFirst DEF WritingPlan
<1>2. Replaces(c[1], "owner", "loader") => Is(c[1], File("owner", "loader"))
  BY DEF Replaces, Is, File
<1>3. Is(c[1], File("plan", p)) => Replaces(c[1], "plan", p)
  BY DEF Replaces, Is, File
<1> QED
  BY <1>1, <1>2, <1>3 DEF FileWrite, Replaces

\* write_loader: a write on the medium.
LEMMA WritingFile ==
    ASSUME TypeOK, Settled, NEW c, NEW p \in Plans, chain = <<>>, 1 \in DOMAIN c,
           WritingPlan(c, p), StepDoes(c[1]), ~SchedulingWrite(c[1], "loader")
    PROVE  /\ TypeOK' /\ Settled'
           /\ UNCHANGED <<mode, variables, order, next, tried>>
           /\ (Proven' => HeadIsLoader')
           /\ files'.report = files.report /\ files'.owner # None
           /\ files.boot # "foreign" => files'.boot # "foreign"
           /\ \A r \in files'.receipts :
                 r \in files.receipts /\ ~Is(c[1], Receipt(r))
<1> DEFINE w == c[1]
<1>1. \/ Replaces(w, "error", None) \/ Replaces(w, "loader", TRUE)
      \/ Replaces(w, "boot", "loader")
      \/ Replaces(w, "owner", "loader") /\ files.receipts = {}
      \/ Replaces(w, "plan", p)
      \/ w.store = "receipt"
      \/ w.store = "answer"
  BY WritingHead
<1>2. StepDoes(w)
  OBVIOUS
<1>3. files \in Medium
  BY MediumType
<1>4. /\ Proven => HeadIsLoader
      /\ HeadIsLoader => p.source \in tried
      /\ files.report = p.source /\ files.owner # None
  BY DEF WritingPlan
<1>5. \A r : Is(w, Receipt(r)) => w.store = "receipt" /\ w.key = r
  BY DEF Is, Receipt
<1> HIDE DEF w
<1>6. /\ UNCHANGED <<mode, machine, manager, secureBoot, chain, widened, tried,
                     disturbances, variables, order, next>>
      /\ restarted' \in BOOLEAN
  BY <1>1, <1>2 DEF StepDoes, Replaces
<1> DEFINE Done ==
           /\ files' \in Medium
           /\ files'.report = files.report /\ files'.plan \in {files.plan, p}
           /\ files'.owner \in {files.owner, "loader"}
           /\ files'.owner = files.owner \/ files.receipts = {}
           /\ files'.boot \in {files.boot, "loader"}
           /\ files'.receipts \subseteq files.receipts /\ files'.torn \subseteq files.torn
           /\ w.store = "receipt" => files'.receipts = files.receipts \ {w.key}
<1>7. Done
  <2>1. CASE w.store = "file"
    <3>1. FileWritten(w.key, w.value)
      BY <1>2, <2>1 DEF StepDoes
    <3>2. w.key \in Names /\ MediumValue(w.key, w.value)
      BY <1>1, <2>1 DEF Replaces, Names, MediumValue, Stages
    <3>3. files' \in Medium
      BY <1>3, <3>1, <3>2, FileTyped
    <3>4. FieldsAfter(w.key, w.value)
      BY <3>1, <3>2, FileSet
    <3> QED
      BY <1>1, <2>1, <3>3, <3>4 DEF Replaces, FieldsAfter
  <2>2. CASE w.store = "receipt"
    <3>1. ReceiptRemoved(w.key)
      BY <1>2, <2>2 DEF StepDoes
    <3>2. files' \in Medium /\ OnlyReceipts /\ files'.receipts = files.receipts \ {w.key}
      BY <1>3, <3>1, ReceiptGone
    <3> QED
      BY <2>2, <3>2 DEF OnlyReceipts
  <2>3. CASE w.store = "answer"
    BY <1>2, <1>3, <2>3 DEF StepDoes
  <2> QED
    BY <1>1, <2>1, <2>2, <2>3 DEF Replaces
<1>8. TypeOK'
  BY <1>6, <1>7, StepTyped, SameRest
<1>9. (HeadIsLoader' <=> HeadIsLoader) /\ (LoaderListed' <=> LoaderListed)
  BY <1>6 DEF HeadIsLoader, LoaderListed
<1>10. Proven' => Proven
  BY <1>6, <1>7 DEF Proven
<1>11. OthersStay' /\ NoDiagnosticFirst' /\ DriveHasNoEntries'
  BY <1>6 DEF Settled, OthersStay, NoDiagnosticFirst, DriveHasNoEntries, Owned
<1>12. files'.owner # None
  BY <1>4, <1>7, NoneNotStage DEF Stages
<1>13. HeadIsLoader' => Tried(files.plan)'
  <2> HAVE HeadIsLoader'
  <2>1. Tried(files.plan) /\ p.source \in tried /\ p # None
    BY <1>4, <1>9, RouteAssumption DEF Settled, FirstHasTriedPlan
  <2> QED
    BY <1>6, <1>7, <2>1 DEF Tried
<1>14. LoaderNeedsStage' /\ FirstHasTriedPlan' /\ ProvenPlan'
  BY <1>4, <1>9, <1>10, <1>12, <1>13
     DEF LoaderNeedsStage, FirstHasTriedPlan, ProvenPlan
<1>15. ReportOfPlan'
  BY <1>4, <1>6, <1>7 DEF Settled, ReportOfPlan
<1>16. FreshDiagnostic'
  <2>1. files.report # None
    BY <1>4, RouteAssumption DEF Plans
  <2>2. ~NextIsDiagnostic
    BY <2>1 DEF Settled, FreshDiagnostic
  <2> QED
    BY <1>6, <2>2 DEF FreshDiagnostic, NextIsDiagnostic
<1>17. DiagnosticIsFresh'
  <2>1. BeforeWindows(chain)' = {}
    BY <1>6 DEF BeforeWindows
  <2> QED
    BY <2>1 DEF DiagnosticIsFresh
<1>18. Booting' /\ Inventory'
  BY <1>6, <1>7, Shrinks DEF Booting, Settled
<1>19. Settled'
  BY <1>11, <1>14, <1>15, <1>16, <1>17, <1>18 DEF Settled
<1>20. /\ files.boot # "foreign" => files'.boot # "foreign"
       /\ files'.report = files.report
       /\ Proven' => HeadIsLoader'
  BY <1>4, <1>7, <1>9, <1>10
<1>21. \A r \in files'.receipts : r \in files.receipts /\ ~Is(w, Receipt(r))
  BY <1>5, <1>7
<1> QED
  BY <1>6, <1>8, <1>12, <1>19, <1>20, <1>21 DEF w

\* A write_loader goes on.
LEMMA WritingKeeps ==
    ASSUME TypeOK, Settled, chain = <<>>, NEW c, NEW t, 1 \in DOMAIN c, Rest(c, t),
           cmd' = t, StepDoes(c[1]), WritingLoader(c)
    PROVE  TypeOK' /\ Settled' /\ WritingLoader(cmd)'
<1>1. PICK p \in Plans : WritingPlan(c, p)
  BY DEF WritingLoader
<1> DEFINE Q == File("plan", p)
           O == File("owner", "loader")
<1>2. \A i \in DOMAIN t :
         \/ /\ FileWrite(t[i], "loader")
            /\ Is(t[i], O) =>
                  \A r \in files.receipts : Is(c[1], Receipt(r)) \/ Earlier(t, i, Receipt(r))
         \/ Is(t[i], Q)
         \/ /\ SchedulingWrite(t[i], "loader")
            /\ t[i].store = "next" =>
                  \/ variables[t[i].value] = "loader"
                  \/ Is(c[1], Variable(t[i].value, "loader"))
                  \/ Earlier(t, i, Variable(t[i].value, "loader"))
  BY <1>1 DEF WritingPlan, Rest
<1>3. /\ Proven => HeadIsLoader
      /\ HeadIsLoader => p.source \in tried
      /\ files.report = p.source /\ files.owner # None
  BY <1>1 DEF WritingPlan
<1> HIDE DEF Q, O
<1>4. CASE ~SchedulingWrite(c[1], "loader")
  <2>1. /\ TypeOK' /\ Settled'
        /\ UNCHANGED <<mode, variables, order, next, tried>>
        /\ (Proven' => HeadIsLoader')
        /\ files'.report = files.report /\ files'.owner # None
        /\ files.boot # "foreign" => files'.boot # "foreign"
        /\ \A r \in files'.receipts : r \in files.receipts /\ ~Is(c[1], Receipt(r))
    BY <1>1, <1>4, WritingFile
  <2>2. \A i \in DOMAIN t :
           /\ FileWrite(t[i], "loader") => FileWrite(t[i], "loader")'
           /\ SchedulingWrite(t[i], "loader") => SchedulingWrite(t[i], "loader")'
    BY <2>1, FileWriteStays, SchedulingSame
  <2>3. \A v : Is(c[1], Variable(v, "loader")) => FALSE
    <3>1. c[1].store # "variable"
      BY <1>1, <1>4, WritingHead DEF Replaces
    <3> QED
      BY <3>1 DEF Is, Variable
  <2>4. \A i \in DOMAIN t :
           \/ /\ FileWrite(t[i], "loader")'
              /\ Is(t[i], O) => \A r \in files'.receipts : Earlier(t, i, Receipt(r))
           \/ Is(t[i], Q)
           \/ /\ SchedulingWrite(t[i], "loader")'
              /\ t[i].store = "next" =>
                    \/ variables'[t[i].value] = "loader"
                    \/ Earlier(t, i, Variable(t[i].value, "loader"))
    BY <1>2, <2>1, <2>2, <2>3
  <2>5. HeadIsLoader' => p.source \in tried'
    BY <1>3, <2>1 DEF HeadIsLoader
  <2>6. WritingPlan(cmd, p)'
    BY <1>3, <2>1, <2>4, <2>5 DEF WritingPlan, Q, O
  <2> QED
    BY <2>1, <2>6 DEF WritingLoader
<1>5. CASE SchedulingWrite(c[1], "loader")
  <2>1. /\ Scheduled("loader")
        /\ restarted' \in BOOLEAN
        /\ variables' \in [Numbers -> Stages \cup {None, "windows", "foreign"}]
        /\ order' \in Orders /\ next' \in Numbers \cup {None}
        /\ c[1].store = "variable" => variables'[c[1].key] = "loader" /\ UNCHANGED next
        /\ c[1].store = "order" => UNCHANGED <<variables, next>>
        /\ c[1].store = "next" => next' = c[1].value /\ UNCHANGED variables
    BY <1>5, ScheduleStep DEF Stages
  <2>2. UNCHANGED <<mode, files, machine, manager, secureBoot, chain, widened, tried,
                    disturbances>>
    BY <2>1 DEF Scheduled
  <2>3. TypeOK'
    BY <2>1, <2>2, MediumType, StepTyped
  <2>4. /\ OthersStay' /\ NoDiagnosticFirst' /\ DriveHasNoEntries'
        /\ (HeadIsLoader' <=> HeadIsLoader)
        /\ (Proven' <=> Proven)
        /\ LoaderNeedsStage' /\ FirstHasTriedPlan' /\ ReportOfPlan'
        /\ DiagnosticIsFresh' /\ Inventory'
    BY <2>1, ScheduledKeeps DEF Stages
  <2>5. ProvenPlan' /\ Booting'
    BY <1>3, <2>2, <2>4 DEF ProvenPlan, FirstHasTriedPlan, Booting
  <2>6. FreshDiagnostic'
    <3>1. files.report # None
      BY <1>3, RouteAssumption DEF Plans
    <3>2. ~NextIsDiagnostic
      BY <3>1 DEF Settled, FreshDiagnostic
    <3>3. c[1].store \in {"variable", "order", "next"}
      BY <1>5 DEF SchedulingWrite
    <3>4. c[1].store = "next" => variables[c[1].value] = "loader"
      BY <1>1, <1>5, WritingHead DEF Replaces
    <3>5. next # None => variables'[next] \in {variables[next], "loader"}
      BY <2>1 DEF Scheduled, TypeOK
    <3>6. ~NextIsDiagnostic'
      BY <2>1, <3>2, <3>3, <3>4, <3>5 DEF NextIsDiagnostic
    <3> QED
      BY <3>6 DEF FreshDiagnostic
  <2>7. Settled'
    BY <2>4, <2>5, <2>6 DEF Settled
  <2>8. \A i \in DOMAIN t :
           /\ FileWrite(t[i], "loader") => FileWrite(t[i], "loader")'
           /\ SchedulingWrite(t[i], "loader") => SchedulingWrite(t[i], "loader")'
    BY <2>1, <2>2, FileWriteStays, SchedulingStays DEF Stages
  <2>9. \A r : ~Is(c[1], Receipt(r))
    BY <1>5 DEF SchedulingWrite, Is, Receipt
  <2>10. \A v : Is(c[1], Variable(v, "loader")) => variables'[v] = "loader"
    BY <2>1 DEF Is, Variable
  <2>11. \A i \in DOMAIN t :
            t[i].store = "next" /\ SchedulingWrite(t[i], "loader") => t[i].value \in Numbers
    BY DEF SchedulingWrite
  <2>12. \A n \in Numbers : variables[n] = "loader" => variables'[n] = "loader"
    BY <2>1 DEF Scheduled
  <2>13. \A i \in DOMAIN t :
            \/ /\ FileWrite(t[i], "loader")'
               /\ Is(t[i], O) => \A r \in files'.receipts : Earlier(t, i, Receipt(r))
            \/ Is(t[i], Q)
            \/ /\ SchedulingWrite(t[i], "loader")'
               /\ t[i].store = "next" =>
                     \/ variables'[t[i].value] = "loader"
                     \/ Earlier(t, i, Variable(t[i].value, "loader"))
    BY <1>2, <2>2, <2>8, <2>9, <2>10, <2>11, <2>12
  <2>14. WritingPlan(cmd, p)'
    BY <1>3, <2>2, <2>4, <2>13 DEF WritingPlan, Q, O
  <2> QED
    BY <2>3, <2>7, <2>14 DEF WritingLoader
<1> QED
  BY <1>4, <1>5

\* What a removal of entries leaves as it is.
Unlisted(w) ==
    /\ UNCHANGED <<mode, files, machine, manager, secureBoot, chain, widened, tried,
                   disturbances>>
    /\ \A n \in Numbers : variables'[n] \in {variables[n], None}
    /\ \A n \in Listed : variables'[n] = variables[n]
    /\ Listed \subseteq Range(order')
    /\ next' \in {next, None}
    /\ \/ order' = order
       \/ w.store = "order" /\ order' = w.value /\ variables' = variables

LEMMA RemovalStep ==
    ASSUME TypeOK, Settled, NEW w, StepDoes(w), RemovalWrite(w)
    PROVE  /\ Unlisted(w)
           /\ restarted' \in BOOLEAN
           /\ variables' \in [Numbers -> Stages \cup {None, "windows", "foreign"}]
           /\ order' \in Orders /\ next' \in Numbers \cup {None}
           /\ \A n : Is(w, Variable(n, None)) => variables'[n] = None
<1>1. /\ variables \in [Numbers -> Stages \cup {None, "windows", "foreign"}]
      /\ order \in Orders /\ next \in Numbers \cup {None}
  BY SameRest
<1>2. Listed \subseteq Numbers /\ Listed \subseteq Range(order)
  BY ListedNumbers DEF Settled, OthersStay
<1>3. /\ UNCHANGED <<mode, machine, manager, secureBoot, chain, widened, tried,
                     disturbances>>
      /\ restarted' \in BOOLEAN
  BY DEF StepDoes
<1>4. \A n : Is(w, Variable(n, None)) => w.store = "variable" /\ w.key = n
  BY DEF Is, Variable
<1>5. CASE w.store = "variable"
  <2>1. w.key \in Numbers \ Listed /\ w.value = None
    BY <1>5 DEF RemovalWrite
  <2>2. variables' = [variables EXCEPT ![w.key] = w.value] /\ UNCHANGED <<files, order, next>>
    BY <1>5 DEF StepDoes
  <2>3. \A n \in Numbers : variables'[n] = IF n = w.key THEN None ELSE variables[n]
    BY <1>1, <2>1, <2>2
  <2>4. variables' \in [Numbers -> Stages \cup {None, "windows", "foreign"}]
    BY <1>1, <2>1, <2>2
  <2>5. Unlisted(w)
    BY <1>2, <1>3, <2>1, <2>2, <2>3 DEF Unlisted
  <2>6. \A n : Is(w, Variable(n, None)) => variables'[n] = None
    BY <1>4, <2>1, <2>3
  <2> QED
    BY <1>1, <1>3, <2>2, <2>4, <2>5, <2>6
<1>6. CASE w.store = "order"
  <2>1. w.value \in Orders /\ Listed \subseteq Range(w.value)
    BY <1>6 DEF RemovalWrite
  <2>2. order' = w.value /\ UNCHANGED <<files, variables, next>>
    BY <1>6 DEF StepDoes
  <2>3. Unlisted(w)
    BY <1>3, <1>6, <2>1, <2>2 DEF Unlisted
  <2> QED
    BY <1>1, <1>3, <1>4, <1>6, <2>1, <2>2, <2>3
<1>7. CASE w.store = "next"
  <2>1. w.value = None
    BY <1>7 DEF RemovalWrite
  <2>2. next' = w.value /\ UNCHANGED <<files, variables, order>>
    BY <1>7 DEF StepDoes
  <2>3. Unlisted(w)
    BY <1>2, <1>3, <2>1, <2>2 DEF Unlisted
  <2> QED
    BY <1>1, <1>3, <1>4, <1>7, <2>1, <2>2, <2>3
<1>8. CASE w.store = "answer"
  <2>1. UNCHANGED <<files, variables, order, next>>
    BY <1>8 DEF StepDoes
  <2>2. Unlisted(w)
    BY <1>2, <1>3, <2>1 DEF Unlisted
  <2> QED
    BY <1>1, <1>3, <1>4, <1>8, <2>1, <2>2
<1> QED
  BY <1>5, <1>6, <1>7, <1>8 DEF RemovalWrite

LEMMA UnlistedKeeps ==
    ASSUME TypeOK, Settled, chain = <<>>, NEW w, Unlisted(w)
    PROVE  /\ OthersStay' /\ DriveHasNoEntries' /\ ReportOfPlan' /\ FreshDiagnostic'
           /\ DiagnosticIsFresh' /\ Booting' /\ Inventory'
           /\ (Proven' <=> Proven)
<1>1. OthersStay'
  <2>1. Windows \in Listed /\ Listed' = Listed
    BY DEF Listed
  <2> QED
    BY <2>1 DEF Settled, OthersStay, Unlisted
<1>2. files' = files /\ widened' = widened /\ tried' = tried /\ mode' = mode /\ chain' = chain
  BY DEF Unlisted
<1>3. DriveHasNoEntries'
  <2>1. \A n \in Numbers : variables'[n] \in {variables[n], None}
    BY DEF Unlisted
  <2> QED
    BY <1>2, <2>1, NoneNotStage DEF Settled, DriveHasNoEntries, Owned, Stages
<1>4. ReportOfPlan' /\ Inventory' /\ (Proven' <=> Proven)
  BY <1>2 DEF Settled, ReportOfPlan, Inventory, Proven
<1>5. FreshDiagnostic'
  <2>1. next' # None => next' = next /\ next \in Numbers
    BY DEF Unlisted, TypeOK
  <2>2. NextIsDiagnostic' => NextIsDiagnostic
    BY <2>1, NoneNotStage DEF NextIsDiagnostic, Unlisted, Stages
  <2> QED
    BY <1>2, <2>2 DEF Settled, FreshDiagnostic
<1>6. DiagnosticIsFresh' /\ Booting'
  <2>1. BeforeWindows(chain)' = {}
    BY <1>2 DEF BeforeWindows
  <2> QED
    BY <1>2, <2>1 DEF DiagnosticIsFresh, Booting
<1> QED
  BY <1>1, <1>3, <1>4, <1>5, <1>6

\* What comes before Windows is listed, and a number.
LEMMA BeforeListed ==
    ASSUME NEW s \in Orders
    PROVE  BeforeWindows(s) \subseteq Range(s) /\ Range(s) \subseteq Numbers
<1>1. s \in Seq(Numbers)
  BY DEF Orders
<1> QED
  BY <1>1 DEF BeforeWindows, Range

\* A make_permanent goes on.
LEMMA MakingKeeps ==
    ASSUME TypeOK, Settled, chain = <<>>, NEW c, NEW t, 1 \in DOMAIN c, Rest(c, t),
           cmd' = t, StepDoes(c[1]), MakingPermanent(c)
    PROVE  TypeOK' /\ Settled' /\ MakingPermanent(cmd)'
<1>1. /\ RemovalWrite(c[1])
      /\ c[1].store = "order" =>
            \A n \in BeforeWindows(c[1].value) : variables[n] # "diagnostic"
      /\ mode = "esp" /\ files.owner # None /\ Tried(files.plan)
  BY DEF MakingPermanent
<1>2. \A i \in DOMAIN t :
         /\ RemovalWrite(t[i])
         /\ t[i].store = "order" =>
               t[i].value \in Orders
                  /\ \A n \in BeforeWindows(t[i].value) : variables[n] # "diagnostic"
  BY DEF MakingPermanent, Rest, RemovalWrite
<1>3. /\ Unlisted(c[1])
      /\ restarted' \in BOOLEAN
      /\ variables' \in [Numbers -> Stages \cup {None, "windows", "foreign"}]
      /\ order' \in Orders /\ next' \in Numbers \cup {None}
  BY <1>1, RemovalStep
<1>4. /\ UNCHANGED <<mode, files, machine, manager, secureBoot, chain, widened, tried,
                     disturbances>>
      /\ \A n \in Numbers : variables'[n] \in {variables[n], None}
      /\ \/ order' = order
         \/ c[1].store = "order" /\ order' = c[1].value /\ variables' = variables
  BY <1>3 DEF Unlisted
<1>5. TypeOK'
  BY <1>3, <1>4, MediumType, StepTyped
<1>6. /\ OthersStay' /\ DriveHasNoEntries' /\ ReportOfPlan' /\ FreshDiagnostic'
      /\ DiagnosticIsFresh' /\ Booting' /\ Inventory'
  BY <1>3, UnlistedKeeps
<1>7. LoaderNeedsStage' /\ FirstHasTriedPlan' /\ ProvenPlan' /\ Tried(files.plan)'
  BY <1>1, <1>4 DEF LoaderNeedsStage, FirstHasTriedPlan, ProvenPlan, Tried
<1>8. \A n \in Numbers : variables[n] # "diagnostic" => variables'[n] # "diagnostic"
  BY <1>4, NoneNotStage DEF Stages
<1>9. NoDiagnosticFirst'
  <2>1. order \in Orders
    BY SameRest
  <2>2. \A n \in BeforeWindows(order') : variables[n] # "diagnostic"
    BY <1>1, <1>4 DEF Settled, NoDiagnosticFirst
  <2> QED
    BY <1>3, <1>8, <2>2, BeforeListed DEF NoDiagnosticFirst
<1>10. Settled'
  BY <1>6, <1>7, <1>9 DEF Settled
<1>11. \A i \in DOMAIN t :
          /\ RemovalWrite(t[i])'
          /\ t[i].store = "order" =>
                \A n \in BeforeWindows(t[i].value) : variables'[n] # "diagnostic"
  <2>1. \A i \in DOMAIN t : RemovalWrite(t[i])'
    BY <1>2 DEF RemovalWrite
  <2>2. \A i \in DOMAIN t : t[i].store = "order" =>
           \A n \in BeforeWindows(t[i].value) : variables'[n] # "diagnostic"
    BY <1>2, <1>8, BeforeListed
  <2> QED
    BY <2>1, <2>2
<1>12. MakingPermanent(cmd)'
  BY <1>1, <1>4, <1>7, <1>11 DEF MakingPermanent
<1> QED
  BY <1>5, <1>10, <1>12

\* A save_certificate goes on.
LEMMA SavingKeeps ==
    ASSUME TypeOK, Settled, chain = <<>>, NEW c, NEW t, 1 \in DOMAIN c, Rest(c, t),
           cmd' = t, StepDoes(c[1]), SavingCertificate(c)
    PROVE  TypeOK' /\ Settled' /\ SavingCertificate(cmd)'
<1> DEFINE w == c[1]
<1>1. Replaces(w, "certificate", "ours") \/ w.store = "answer"
  BY DEF SavingCertificate, Is, File, Replaces
<1>2. StepDoes(w)
  OBVIOUS
<1> HIDE DEF w
<1>3. /\ UNCHANGED <<mode, machine, manager, secureBoot, chain, widened, tried,
                     disturbances, variables, order, next>>
      /\ restarted' \in BOOLEAN
  BY <1>1, <1>2 DEF StepDoes, Replaces
<1>4. /\ files' \in Medium
      /\ files'.report = files.report /\ files'.plan = files.plan
      /\ files'.owner = files.owner
      /\ files'.receipts = files.receipts /\ files'.torn = files.torn
  <2>1. CASE w.store = "answer"
    BY <1>2, <2>1, MediumType DEF StepDoes
  <2>2. CASE Replaces(w, "certificate", "ours")
    <3>1. FileWritten("certificate", "ours")
      BY <1>2, <2>2 DEF StepDoes, Replaces
    <3>2. "certificate" \in Names /\ MediumValue("certificate", "ours")
      BY DEF Names, MediumValue
    <3>3. files' \in Medium
      BY <3>1, <3>2, FileTyped, MediumType
    <3>4. FieldsAfter("certificate", "ours")
      BY <3>1, <3>2, FileSet
    <3> QED
      BY <3>3, <3>4 DEF FieldsAfter
  <2> QED
    BY <1>1, <2>1, <2>2
<1>5. TypeOK'
  BY <1>3, <1>4, StepTyped, SameRest
<1>6. OthersStay' /\ NoDiagnosticFirst' /\ DriveHasNoEntries'
  BY <1>3 DEF Settled, OthersStay, NoDiagnosticFirst, DriveHasNoEntries, Owned
<1>7. LoaderNeedsStage' /\ FirstHasTriedPlan' /\ ProvenPlan' /\ ReportOfPlan'
  BY <1>3, <1>4 DEF Settled, LoaderNeedsStage, FirstHasTriedPlan, ProvenPlan,
         ReportOfPlan, HeadIsLoader, LoaderListed, Proven, Tried
<1>8. FreshDiagnostic'
  BY <1>3, <1>4 DEF Settled, FreshDiagnostic, NextIsDiagnostic
<1>9. DiagnosticIsFresh' /\ Booting'
  <2>1. BeforeWindows(chain)' = {}
    BY <1>3 DEF BeforeWindows
  <2> QED
    BY <1>3, <2>1 DEF DiagnosticIsFresh, Booting
<1>10. Inventory'
  BY <1>4 DEF Settled, Inventory
<1>11. SavingCertificate(cmd)'
  BY DEF SavingCertificate, Rest, Is, File
<1> QED
  BY <1>5, <1>6, <1>7, <1>8, <1>9, <1>10, <1>11 DEF Settled

\* A write of remove, but for what it says of earlier writes.
RemovingWrite(w) ==
    \/ /\ RemovalWrite(w)
       /\ w.store = "order" => \A n \in Range(w.value) : ~Owned(n)
    \/ w.store = "receipt" /\ w.key \in Machines
    \/ /\ w.store = "file" /\ w.key \in {"report", "error"}
       /\ w.value = None
    \/ /\ w.store = "file" /\ w.key = "boot" /\ w.value = None
       /\ files.boot # "foreign"
    \/ w.store = "file" /\ w.key \in Stages /\ w.value = FALSE

LastWrite(w) ==
    w.store = "file" /\ w.key \in {"plan", "owner"} /\ w.value = None

LEMMA RemovingParts ==
    ASSUME NEW c
    PROVE  Removing(c) <=>
              \A i \in DOMAIN c :
                 \/ RemovingWrite(c[i])
                 \/ /\ LastWrite(c[i])
                    /\ \A n \in Range(order) :
                          variables[n] = "loader" => Earlier(c, i, Variable(n, None))
BY DEF Removing, RemovingWrite, LastWrite

\* remove: a write on the medium.
LEMMA RemovingFile ==
    ASSUME TypeOK, Settled, NEW w, chain = <<>>, StepDoes(w), ~RemovalWrite(w),
           \/ RemovingWrite(w)
           \/ LastWrite(w) /\ ~LoaderListed
    PROVE  /\ TypeOK' /\ Settled'
           /\ UNCHANGED <<mode, variables, order, next>>
           /\ files.boot # "foreign" => files'.boot # "foreign"
           /\ w.store # "variable"
<1>1. \/ Replaces(w, "report", None) \/ Replaces(w, "error", None)
      \/ Replaces(w, "boot", None)
      \/ Replaces(w, "diagnostic", FALSE) \/ Replaces(w, "loader", FALSE)
      \/ Replaces(w, "plan", None) /\ ~LoaderListed
      \/ Replaces(w, "owner", None) /\ ~LoaderListed
      \/ w.store = "receipt"
  BY DEF RemovingWrite, LastWrite, Replaces, Stages
<1>2. files \in Medium
  BY MediumType
<1>3. /\ UNCHANGED <<mode, machine, manager, secureBoot, chain, widened, tried,
                     disturbances, variables, order, next>>
      /\ restarted' \in BOOLEAN
      /\ w.store # "variable"
  BY <1>1 DEF StepDoes, Replaces
<1> DEFINE Done ==
           /\ files' \in Medium
           /\ files'.report \in {files.report, None} /\ files'.plan \in {files.plan, None}
           /\ files'.plan = files.plan \/ ~LoaderListed
           /\ files'.owner \in {files.owner, None}
           /\ files'.owner = files.owner \/ ~LoaderListed
           /\ files'.boot \in {files.boot, None}
           /\ files'.receipts \subseteq files.receipts /\ files'.torn \subseteq files.torn
<1>4. Done
  <2>1. CASE w.store = "file"
    <3>1. FileWritten(w.key, w.value)
      BY <2>1 DEF StepDoes
    <3>2. w.key \in Names /\ MediumValue(w.key, w.value)
      BY <1>1, <2>1 DEF Replaces, Names, MediumValue, Stages
    <3>3. files' \in Medium
      BY <1>2, <3>1, <3>2, FileTyped
    <3>4. FieldsAfter(w.key, w.value)
      BY <3>1, <3>2, FileSet
    <3> QED
      BY <1>1, <2>1, <3>3, <3>4 DEF Replaces, FieldsAfter
  <2>2. CASE w.store = "receipt"
    <3>1. ReceiptRemoved(w.key)
      BY <2>2 DEF StepDoes
    <3>2. files' \in Medium /\ OnlyReceipts
      BY <1>2, <3>1, ReceiptGone
    <3> QED
      BY <3>2 DEF OnlyReceipts
  <2> QED
    BY <1>1, <2>1, <2>2 DEF Replaces
<1>5. TypeOK'
  BY <1>3, <1>4, StepTyped, SameRest
<1>6. (HeadIsLoader' <=> HeadIsLoader) /\ (LoaderListed' <=> LoaderListed)
  BY <1>3 DEF HeadIsLoader, LoaderListed
<1>7. HeadIsLoader => LoaderListed
  BY HeadNumber DEF HeadIsLoader, LoaderListed
<1>8. Proven' => Proven
  <2>1. None # "loader"
    BY NoneNotStage DEF Stages
  <2> QED
    BY <1>3, <1>4, <2>1 DEF Proven
<1>9. OthersStay' /\ NoDiagnosticFirst' /\ DriveHasNoEntries'
  BY <1>3 DEF Settled, OthersStay, NoDiagnosticFirst, DriveHasNoEntries, Owned
<1>10. LoaderNeedsStage'
  BY <1>4, <1>6, <1>7 DEF Settled, LoaderNeedsStage
<1>11. FirstHasTriedPlan' /\ ProvenPlan'
  <2>1. LoaderListed => Tried(files.plan)' = Tried(files.plan)
    BY <1>3, <1>4 DEF Tried
  <2> QED
    BY <1>6, <1>7, <1>8, <2>1 DEF Settled, FirstHasTriedPlan, ProvenPlan
<1>12. ReportOfPlan' /\ FreshDiagnostic'
  BY <1>3, <1>4 DEF Settled, ReportOfPlan, FreshDiagnostic, NextIsDiagnostic
<1>13. DiagnosticIsFresh' /\ Booting'
  <2>1. BeforeWindows(chain)' = {}
    BY <1>3 DEF BeforeWindows
  <2> QED
    BY <1>3, <2>1 DEF DiagnosticIsFresh, Booting
<1>14. Inventory'
  BY <1>4, Shrinks DEF Settled
<1>15. Settled'
  BY <1>9, <1>10, <1>11, <1>12, <1>13, <1>14 DEF Settled
<1>16. files.boot # "foreign" => files'.boot # "foreign"
  <2>1. None # "foreign"
    BY NoneNotStage
  <2> QED
    BY <1>4, <2>1
<1> QED
  BY <1>3, <1>5, <1>15, <1>16

\* A remove goes on.
LEMMA RemovingKeeps ==
    ASSUME TypeOK, Settled, chain = <<>>, NEW c, NEW t, 1 \in DOMAIN c, Rest(c, t),
           cmd' = t, StepDoes(c[1]), Removing(c)
    PROVE  TypeOK' /\ Settled' /\ Removing(cmd)'
<1>1. /\ \/ RemovingWrite(c[1])
         \/ LastWrite(c[1]) /\ ~LoaderListed
      /\ \A i \in DOMAIN t :
            \/ RemovingWrite(t[i])
            \/ /\ LastWrite(t[i])
               /\ \A n \in Range(order) :
                     variables[n] = "loader" =>
                        Is(c[1], Variable(n, None)) \/ Earlier(t, i, Variable(n, None))
  <2>1. \A i \in DOMAIN c :
           \/ RemovingWrite(c[i])
           \/ /\ LastWrite(c[i])
              /\ \A n \in Range(order) :
                    variables[n] = "loader" => Earlier(c, i, Variable(n, None))
    BY RemovingParts
  <2>2. \/ RemovingWrite(c[1])
        \/ LastWrite(c[1]) /\ ~LoaderListed
    BY <2>1, EarlierFirst DEF LoaderListed
  <2>3. \A i \in DOMAIN t :
            \/ RemovingWrite(t[i])
            \/ /\ LastWrite(t[i])
               /\ \A n \in Range(order) :
                     variables[n] = "loader" =>
                        Is(c[1], Variable(n, None)) \/ Earlier(t, i, Variable(n, None))
    BY <2>1 DEF Rest
  <2> QED
    BY <2>2, <2>3
<1>2. order \in Orders /\ Range(order) \subseteq Numbers
  BY SameRest, BeforeListed
<1> DEFINE Left ==
           \A i \in DOMAIN t :
              \/ RemovingWrite(t[i])'
              \/ /\ LastWrite(t[i])
                 /\ \A n \in Range(order') :
                       variables'[n] = "loader" => Earlier(t, i, Variable(n, None))
<1>3. ASSUME Left PROVE Removing(cmd)'
  BY <1>3 DEF Removing, RemovingWrite, LastWrite
<1> HIDE DEF Left
<1>4. CASE ~RemovalWrite(c[1])
  <2>1. /\ TypeOK' /\ Settled'
        /\ UNCHANGED <<mode, variables, order, next>>
        /\ files.boot # "foreign" => files'.boot # "foreign"
        /\ c[1].store # "variable"
    BY <1>1, <1>4, RemovingFile
  <2>2. \A i \in DOMAIN t : RemovingWrite(t[i]) => RemovingWrite(t[i])'
    BY <2>1 DEF RemovingWrite, RemovalWrite, Owned
  <2>3. \A n : ~Is(c[1], Variable(n, None))
    BY <2>1 DEF Is, Variable
  <2>4. Left
    BY <1>1, <2>1, <2>2, <2>3 DEF Left
  <2> QED
    BY <1>3, <2>1, <2>4
<1>5. CASE RemovalWrite(c[1])
  <2>1. /\ Unlisted(c[1])
        /\ restarted' \in BOOLEAN
        /\ variables' \in [Numbers -> Stages \cup {None, "windows", "foreign"}]
        /\ order' \in Orders /\ next' \in Numbers \cup {None}
        /\ \A n : Is(c[1], Variable(n, None)) => variables'[n] = None
    BY <1>5, RemovalStep
  <2>2. /\ UNCHANGED <<mode, files, machine, manager, secureBoot, chain, widened, tried,
                       disturbances>>
        /\ \A n \in Numbers : variables'[n] \in {variables[n], None}
        /\ \/ order' = order
           \/ c[1].store = "order" /\ order' = c[1].value /\ variables' = variables
    BY <2>1 DEF Unlisted
  <2>3. TypeOK'
    BY <2>1, <2>2, MediumType, StepTyped
  <2>4. /\ OthersStay' /\ DriveHasNoEntries' /\ ReportOfPlan' /\ FreshDiagnostic'
        /\ DiagnosticIsFresh' /\ Booting' /\ Inventory'
        /\ (Proven' <=> Proven)
    BY <2>1, UnlistedKeeps
  <2>5. order' = order \/ \A n \in Range(order') : ~Owned(n)'
    <3>1. c[1].store = "order" => \A n \in Range(c[1].value) : ~Owned(n)
      BY <1>1 DEF RemovingWrite, LastWrite
    <3> QED
      BY <2>2, <3>1 DEF Owned
  <2>6. \A n \in Range(order') :
           /\ variables'[n] = "loader" => n \in Range(order) /\ variables[n] = "loader"
           /\ variables'[n] = "loader" => order' = order
    <3>1. None # "loader"
      BY NoneNotStage DEF Stages
    <3>2. Range(order') \subseteq Numbers
      BY <2>1, BeforeListed
    <3> QED
      BY <2>2, <2>5, <3>1, <3>2 DEF Owned, Stages
  <2>7. (LoaderListed' => LoaderListed) /\ (HeadIsLoader' => HeadIsLoader)
    <3>1. LoaderListed' => LoaderListed
      BY <2>6 DEF LoaderListed
    <3>2. ASSUME HeadIsLoader' PROVE HeadIsLoader
      <4>1. order' # <<>> /\ variables'[order'[1]] = "loader"
        BY <3>2 DEF HeadIsLoader
      <4>2. order' \in Seq(Numbers)
        BY <2>1 DEF Orders
      <4>3. order'[1] \in Range(order')
        BY <4>1, <4>2 DEF Range
      <4>4. order' = order /\ variables[order'[1]] = "loader"
        BY <2>6, <4>1, <4>3
      <4> QED
        BY <4>1, <4>4 DEF HeadIsLoader
    <3> QED
      BY <3>1, <3>2
  <2>8. LoaderNeedsStage' /\ FirstHasTriedPlan' /\ ProvenPlan'
    BY <2>2, <2>4, <2>7
       DEF Settled, LoaderNeedsStage, FirstHasTriedPlan, ProvenPlan, Tried
  <2>9. NoDiagnosticFirst'
    <3>1. None # "diagnostic"
      BY NoneNotStage DEF Stages
    <3>2. /\ BeforeWindows(order') \subseteq Range(order')
          /\ BeforeWindows(order) \subseteq Numbers
      BY <1>2, <2>1, BeforeListed
    <3>3. CASE order' = order
      BY <2>2, <3>1, <3>2, <3>3 DEF Settled, NoDiagnosticFirst
    <3>4. CASE \A n \in Range(order') : ~Owned(n)'
      BY <3>2, <3>4 DEF NoDiagnosticFirst, Owned, Stages
    <3> QED
      BY <2>5, <3>3, <3>4
  <2>10. Settled'
    BY <2>4, <2>8, <2>9 DEF Settled
  <2>11. \A i \in DOMAIN t : RemovingWrite(t[i]) => RemovingWrite(t[i])'
    <3>1. \A n \in Numbers : ~Owned(n) => ~Owned(n)'
      BY <2>2, NoneNotStage DEF Owned, Stages
    <3>2. \A i \in DOMAIN t : RemovalWrite(t[i]) => RemovalWrite(t[i])'
      BY DEF RemovalWrite
    <3>3. \A i \in DOMAIN t :
             RemovalWrite(t[i]) /\ t[i].store = "order" => Range(t[i].value) \subseteq Numbers
      BY BeforeListed DEF RemovalWrite
    <3> QED
      BY <2>2, <3>1, <3>2, <3>3 DEF RemovingWrite
  <2>12. Left
    <3>1. \A n : Is(c[1], Variable(n, None)) => variables'[n] # "loader"
      BY <2>1, NoneNotStage DEF Stages
    <3> QED
      BY <1>1, <2>6, <2>11, <3>1 DEF Left
  <2> QED
    BY <1>3, <2>3, <2>10, <2>12
<1> QED
  BY <1>4, <1>5

\* The next write of a running command keeps the invariant.
LEMMA StepKeeps ==
    ASSUME IInv, Step
    PROVE  IInv'
<1>1. TypeOK /\ Settled /\ cmd \in Seq(Writes)
  BY DEF IInv, Running
<1>2. cmd # <<>> /\ cmd' = Tail(cmd) /\ StepDoes(cmd[1])
  BY <1>1, StepWrites
<1>3. chain = <<>>
  BY <1>1, <1>2 DEF Settled, Booting
<1>4. Rest(cmd, Tail(cmd)) /\ 1 \in DOMAIN cmd
  BY <1>1, <1>2, RestOf
<1>5. cmd' \in Seq(Writes)
  BY <1>2, <1>4 DEF Rest
<1>6. CASE Preparing(cmd)
  <2>1. TypeOK' /\ Settled' /\ Preparing(cmd)'
    BY <1>1, <1>2, <1>3, <1>4, <1>6, PreparingKeeps
  <2> QED
    BY <1>5, <2>1, WritesSame DEF IInv, Running
<1>7. CASE WritingLoader(cmd)
  <2>1. TypeOK' /\ Settled' /\ WritingLoader(cmd)'
    BY <1>1, <1>2, <1>3, <1>4, <1>7, WritingKeeps
  <2> QED
    BY <1>5, <2>1, WritesSame DEF IInv, Running
<1>8. CASE MakingPermanent(cmd)
  <2>1. TypeOK' /\ Settled' /\ MakingPermanent(cmd)'
    BY <1>1, <1>2, <1>3, <1>4, <1>8, MakingKeeps
  <2> QED
    BY <1>5, <2>1, WritesSame DEF IInv, Running
<1>9. CASE Removing(cmd)
  <2>1. TypeOK' /\ Settled' /\ Removing(cmd)'
    BY <1>1, <1>2, <1>3, <1>4, <1>9, RemovingKeeps
  <2> QED
    BY <1>5, <2>1, WritesSame DEF IInv, Running
<1>10. CASE SavingCertificate(cmd)
  <2>1. TypeOK' /\ Settled' /\ SavingCertificate(cmd)'
    BY <1>1, <1>2, <1>3, <1>4, <1>10, SavingKeeps
  <2> QED
    BY <1>5, <2>1, WritesSame DEF IInv, Running
<1> QED
  BY <1>2, <1>6, <1>7, <1>8, <1>9, <1>10 DEF IInv, Running

-----------------------------------------------------------------------------
(* A boot.                                                                 *)

\* No command runs: the state is settled, and that is the invariant.
LEMMA NoCommand ==
    ASSUME TypeOK', Settled', cmd' = <<>>
    PROVE  IInv'
<1>1. cmd' \in Seq(Writes)'
  OBVIOUS
<1> QED
  BY <1>1 DEF IInv, Running

LEMMA IdleHolds == ASSUME IInv PROVE TypeOK /\ Settled
BY DEF IInv

LEMMA Single == \A S : \A x \in S : <<x>> \in Seq(S)
OBVIOUS

LEMMA Nothing == \A S : <<>> \in Seq(S)
OBVIOUS

LEMMA NothingBefore ==
    ASSUME NEW S, NEW b \in Seq(S)
    PROVE  <<>> \o b = b
OBVIOUS

\* All that the firmware tries is an entry it has, or the drive.
LEMMA BootChain ==
    ASSUME TypeOK, Settled, NEW d \in BOOLEAN, Boot(d), d => mode = "usb"
    PROVE  /\ chain' \in Seq(Numbers \cup {None})
           /\ mode = "esp" =>
                 \A n \in BeforeWindows(chain') :
                    (n = next /\ next # None) \/ n \in BeforeWindows(order)
<1> DEFINE S == Numbers \cup {None}
           f == IF d THEN <<None>> ELSE <<>>
           g == IF next = None THEN <<>> ELSE <<next>>
           h == g \o order
<1>1. order \in Seq(Numbers) /\ order \in Seq(S) /\ next \in S
  BY SeqOfMore DEF TypeOK
<1>2. chain' = (f \o g) \o order
  BY DEF Boot
<1>3. f \in Seq(S) /\ g \in Seq(S)
  <2>1. None \in S
    OBVIOUS
  <2> HIDE DEF S
  <2> QED
    BY <1>1, <2>1, Single, Nothing
<1>4. f \o g \in Seq(S)
  BY <1>3, Joined
<1>5. chain' \in Seq(S)
  <2> HIDE DEF f, g, S
  <2> QED
    BY <1>1, <1>2, <1>4, Joined
<1>6. mode = "esp" => ~d
  OBVIOUS
<1>7. ASSUME mode = "esp", next = None
      PROVE  chain' = order
  <2>1. f = <<>> /\ g = <<>>
    BY <1>6, <1>7
  <2> HIDE DEF f, g
  <2> QED
    BY <1>1, <1>2, <2>1
<1>8. ASSUME mode = "esp", next # None
      PROVE  chain' = <<next>> \o order
  <2>1. f = <<>> /\ g = <<next>>
    BY <1>6, <1>8
  <2> HIDE DEF f, g, S
  <2>2. f \o g = g
    BY <1>3, <2>1, NothingBefore
  <2> QED
    BY <1>2, <2>1, <2>2
<1>9. next # None =>
         BeforeWindows(<<next>> \o order) \subseteq {next} \cup BeforeWindows(order)
  <2> HIDE DEF S
  <2> QED
    BY <1>1, FrontBefore
<1>10. ASSUME mode = "esp"
       PROVE  \A n \in BeforeWindows(chain') :
                 (n = next /\ next # None) \/ n \in BeforeWindows(order)
  <2>1. CASE next = None
    BY <1>7, <1>10, <2>1
  <2>2. CASE next # None
    BY <1>8, <1>9, <1>10, <2>2
  <2> QED
    BY <2>1, <2>2
<1> QED
  BY <1>5, <1>10

LEMMA BootKeeps ==
    ASSUME IInv, NEW d \in BOOLEAN, Boot(d), d => mode = "usb",
           UNCHANGED <<mode, files, variables, order, tried>>,
           machine' \in Machines, manager' \in Managers,
           secureBoot' \in [on : BOOLEAN, db : SUBSET (Stages \cup {"certificate"})],
           disturbances' \in 0 .. MaxDisturbances
    PROVE  IInv'
<1>1. TypeOK /\ Settled
  BY DEF IInv
<1>2. /\ chain' \in Seq(Numbers \cup {None})
      /\ mode = "esp" =>
            \A n \in BeforeWindows(chain') :
               (n = next /\ next # None) \/ n \in BeforeWindows(order)
  BY <1>1, BootChain
<1>3. next' = None /\ cmd' = <<>> /\ restarted' = TRUE /\ widened' = FALSE
  BY DEF Boot
<1>4. TypeOK'
  BY <1>1, <1>2, <1>3 DEF TypeOK
<1>5. OthersStay' /\ NoDiagnosticFirst' /\ DriveHasNoEntries'
  BY <1>1 DEF Settled, OthersStay, NoDiagnosticFirst, DriveHasNoEntries, Owned
<1>6. LoaderNeedsStage' /\ FirstHasTriedPlan' /\ ReportOfPlan' /\ Inventory'
  BY <1>1 DEF Settled, LoaderNeedsStage, FirstHasTriedPlan, ReportOfPlan, HeadIsLoader,
              Tried, Inventory
<1>7. ProvenPlan' /\ FreshDiagnostic' /\ Booting'
  BY <1>3 DEF ProvenPlan, Proven, FreshDiagnostic, NextIsDiagnostic, Booting
<1>8. DiagnosticIsFresh'
  <2> SUFFICES ASSUME mode = "esp", NEW n \in BeforeWindows(chain')
               PROVE  n \in Numbers /\ (variables[n] = "diagnostic" => files.plan = None)
    BY DEF DiagnosticIsFresh
  <2>1. (n = next /\ next # None) \/ n \in BeforeWindows(order)
    BY <1>2
  <2>2. CASE n = next /\ next # None
    <3>1. n \in Numbers
      BY <1>1, <2>2 DEF TypeOK
    <3>2. variables[n] = "diagnostic" => NextIsDiagnostic
      BY <2>2 DEF NextIsDiagnostic
    <3> QED
      BY <1>1, <3>1, <3>2 DEF Settled, FreshDiagnostic
  <2>3. CASE n \in BeforeWindows(order)
    <3>1. n \in Numbers
      BY <1>1, <2>3, SameRest, BeforeListed
    <3> QED
      BY <1>1, <2>3, <3>1 DEF Settled, NoDiagnosticFirst
  <2> QED
    BY <2>1, <2>2, <2>3
<1>9. Settled'
  BY <1>5, <1>6, <1>7, <1>8 DEF Settled
<1> QED
  BY <1>3, <1>4, <1>9, NoCommand

LEMMA ParametersTyped ==
    ASSUME TypeOK
    PROVE  /\ machine \in Machines /\ manager \in Managers
           /\ secureBoot \in [on : BOOLEAN, db : SUBSET (Stages \cup {"certificate"})]
           /\ disturbances \in 0 .. MaxDisturbances
BY DEF TypeOK

\* Every restart keeps the invariant.
LEMMA RestartsKeep ==
    ASSUME IInv,
           Restart \/ EnrollCertificate \/ TurnSecureBootOff \/ SpareBoot
              \/ MachineChanged \/ SecureBootChanged
    PROVE  IInv'
<1>1. TypeOK
  BY DEF IInv
<1>2. /\ machine \in Machines /\ manager \in Managers
      /\ secureBoot \in [on : BOOLEAN, db : SUBSET (Stages \cup {"certificate"})]
      /\ disturbances \in 0 .. MaxDisturbances
  BY <1>1, ParametersTyped
<1>3. Drive \in BOOLEAN /\ (Drive => mode = "usb")
  BY DEF Drive
<1>4. CASE Restart
  <2>1. Boot(Drive)
    BY <1>4 DEF Restart
  <2>2. UNCHANGED <<mode, files, variables, order, machine, manager, secureBoot, history>>
    BY <1>4 DEF Restart
  <2> QED
    BY <1>2, <1>3, <2>1, <2>2, BootKeeps DEF history
<1>5. CASE EnrollCertificate
  <2>1. /\ Boot(FALSE)
        /\ UNCHANGED <<mode, files, variables, order, machine, manager, history>>
        /\ secureBoot' = [secureBoot EXCEPT !.db = @ \cup {"certificate"}]
    BY <1>5 DEF EnrollCertificate
  <2>2. secureBoot' \in [on : BOOLEAN, db : SUBSET (Stages \cup {"certificate"})]
    BY <1>2, <2>1
  <2> QED
    BY <1>2, <2>1, <2>2, BootKeeps DEF history
<1>6. CASE TurnSecureBootOff
  <2>1. /\ Boot(FALSE)
        /\ UNCHANGED <<mode, files, variables, order, machine, manager, history>>
        /\ secureBoot' = [secureBoot EXCEPT !.on = FALSE]
    BY <1>6 DEF TurnSecureBootOff
  <2>2. secureBoot' \in [on : BOOLEAN, db : SUBSET (Stages \cup {"certificate"})]
    BY <1>2, <2>1
  <2> QED
    BY <1>2, <2>1, <2>2, BootKeeps DEF history
<1>7. ASSUME NEW kind, Disturb(kind)
      PROVE  disturbances' \in 0 .. MaxDisturbances
  BY <1>2, <1>7, RouteAssumption DEF Disturb
<1>8. CASE SpareBoot
  <2>1. /\ Boot(FALSE) /\ Disturb("spareBoot")
        /\ UNCHANGED <<mode, files, variables, order, machine, manager, secureBoot, tried>>
    BY <1>8 DEF SpareBoot
  <2> QED
    BY <1>2, <1>7, <2>1, BootKeeps
<1>9. CASE MachineChanged
  <2>1. /\ Boot(FALSE) /\ Disturb("machineChanged") /\ machine' \in Machines
        /\ UNCHANGED <<mode, files, variables, order, manager, secureBoot, tried>>
    BY <1>9 DEF MachineChanged
  <2> QED
    BY <1>2, <1>7, <2>1, BootKeeps
<1>10. CASE SecureBootChanged
  <2>1. /\ Boot(FALSE) /\ Disturb("secureBootChanged") /\ secureBoot' \in Secures
        /\ UNCHANGED <<mode, files, variables, order, machine, manager, tried>>
    BY <1>10 DEF SecureBootChanged
  <2>2. secureBoot' \in [on : BOOLEAN, db : SUBSET (Stages \cup {"certificate"})]
    BY <2>1, RouteAssumption DEF Secures, Stages
  <2> QED
    BY <1>2, <1>7, <2>1, <2>2, BootKeeps
<1> QED
  BY <1>4, <1>5, <1>6, <1>8, <1>9, <1>10

-----------------------------------------------------------------------------
(* The way of a boot.                                                      *)

LEMMA TailBefore ==
    ASSUME NEW S, NEW s \in Seq(S), s # <<>>, s[1] # Windows
    PROVE  /\ Tail(s) \in Seq(S)
           /\ BeforeWindows(Tail(s)) \subseteq BeforeWindows(s)
           /\ s[1] \in BeforeWindows(s)
<1> DEFINE t == Tail(s)
<1>1. /\ t \in Seq(S) /\ 1 \in DOMAIN s
      /\ \A i \in DOMAIN t : i \in Nat /\ i + 1 \in DOMAIN s /\ t[i] = s[i + 1]
  BY TailOf
<1>2. PICK m \in Nat : m = Len(t) /\ DOMAIN t = 1 .. m
  BY <1>1
<1> HIDE DEF t
<1>3. ASSUME NEW i \in DOMAIN t, \A j \in 1 .. i : t[j] # Windows
      PROVE  t[i] \in BeforeWindows(s)
  <2>1. i \in Nat /\ i + 1 \in DOMAIN s /\ t[i] = s[i + 1]
    BY <1>1
  <2>2. \A j \in 1 .. i + 1 : s[j] # Windows
    <3> TAKE j \in 1 .. i + 1
    <3>1. CASE j = 1
      BY <3>1
    <3>2. CASE j # 1
      <4>1. j - 1 \in 1 .. i /\ j - 1 \in DOMAIN t /\ (j - 1) + 1 = j
        BY <1>2, <1>3, <2>1, <3>2
      <4> QED
        BY <1>1, <1>3, <4>1
    <3> QED
      BY <3>1, <3>2
  <2> QED
    BY <2>1, <2>2 DEF BeforeWindows
<1>4. BeforeWindows(t) \subseteq BeforeWindows(s)
  BY <1>3 DEF BeforeWindows
<1>5. s[1] \in BeforeWindows(s)
  BY <1>1 DEF BeforeWindows
<1> QED
  BY <1>1, <1>4, <1>5 DEF t

\* Where the firmware does not start Windows, it tries something else.
LEMMA NotWindows ==
    ASSUME TypeOK, Settled, InFirmware, Program # "windows"
    PROVE  /\ chain # <<>> /\ Head(chain) = chain[1]
           /\ chain' = Tail(chain) => chain' \in Seq(Numbers \cup {None})
           /\ chain' = Tail(chain) => BeforeWindows(chain') \subseteq BeforeWindows(chain)
           /\ chain[1] \in BeforeWindows(chain)
<1>1. chain # <<>> /\ chain \in Seq(Numbers \cup {None})
  BY DEF InFirmware, TypeOK
<1>2. Head(chain) = chain[1]
  BY <1>1
<1>3. chain[1] # Windows
  <2> SUFFICES ASSUME chain[1] = Windows PROVE FALSE
    OBVIOUS
  <2>1. Windows # None
    BY NoneIsNoNumber, ListedNumbers DEF Listed
  <2>2. variables[Windows] = "windows"
    BY DEF Settled, OthersStay
  <2>3. Found(Windows) = "windows"
    BY <2>1, <2>2 DEF Found, Stages
  <2>4. Program = "windows"
    BY <1>2, <2>3 DEF Program, Stages
  <2> QED
    BY <2>4
<1>4. /\ Tail(chain) \in Seq(Numbers \cup {None})
      /\ BeforeWindows(Tail(chain)) \subseteq BeforeWindows(chain)
      /\ chain[1] \in BeforeWindows(chain)
  BY <1>1, <1>3, TailBefore
<1> QED
  BY <1>1, <1>2, <1>4

\* The steps of a boot, and the programs that it starts.
LEMMA OnTheWay ==
    ASSUME IInv, InFirmware,
           UNCHANGED <<mode, variables, order, next, machine, manager, secureBoot, cmd,
                       restarted>>,
           files' \in Medium, files'.plan = files.plan, files'.owner = files.owner,
           Inventory', ReportOfPlan',
           chain' \in Seq(Numbers \cup {None}),
           BeforeWindows(chain') \subseteq BeforeWindows(chain),
           widened' \in BOOLEAN, tried \subseteq tried', tried' \subseteq Machines,
           Proven' => Proven \/ Tried(files.plan)',
           disturbances' \in 0 .. MaxDisturbances
    PROVE  IInv'
<1>1. TypeOK /\ Settled
  BY DEF IInv
<1>2. next = None /\ cmd = <<>>
  BY <1>1 DEF InFirmware, Settled, Booting
<1>3. TypeOK'
  <2>1. files' \in [report : Machines \cup {None}, plan : Plans \cup {None},
                    receipts : SUBSET Machines, torn : SUBSET Machines,
                    error : {None, write_last_error("diagnostic", "other")}
                            \cup {write_last_error("loader", r) :
                                     r \in {"mismatch", "other"}},
                    diagnostic : BOOLEAN, loader : BOOLEAN,
                    boot : Stages \cup {None, "foreign"},
                    owner : Stages \cup {None},
                    certificate : {None, "ours", "other"}]
    BY DEF Medium, Errors
  <2> QED
    BY <1>1, <1>2, <2>1 DEF TypeOK
<1>4. OthersStay' /\ NoDiagnosticFirst' /\ DriveHasNoEntries'
  BY <1>1 DEF Settled, OthersStay, NoDiagnosticFirst, DriveHasNoEntries, Owned
<1>5. LoaderNeedsStage' /\ FirstHasTriedPlan'
  BY <1>1 DEF Settled, LoaderNeedsStage, FirstHasTriedPlan, HeadIsLoader, Tried
<1>6. ProvenPlan'
  <2>1. LoaderListed' <=> LoaderListed
    BY DEF LoaderListed
  <2>2. Tried(files.plan) => Tried(files.plan)'
    BY DEF Tried
  <2> QED
    BY <1>1, <2>1, <2>2 DEF Settled, ProvenPlan
<1>7. FreshDiagnostic' /\ Booting'
  BY <1>2 DEF FreshDiagnostic, NextIsDiagnostic, Booting
<1>8. DiagnosticIsFresh'
  BY <1>1 DEF Settled, DiagnosticIsFresh
<1>9. Settled'
  BY <1>4, <1>5, <1>6, <1>7, <1>8 DEF Settled
<1> QED
  BY <1>2, <1>3, <1>9, NoCommand

\* What no step of a boot but a good trial changes.
SameRoute ==
    /\ UNCHANGED <<mode, variables, order, next, machine, manager, secureBoot, cmd,
                   restarted, widened, tried>>

LEMMA TypedParts ==
    ASSUME TypeOK
    PROVE  /\ widened \in BOOLEAN /\ tried \subseteq Machines
           /\ disturbances \in 0 .. MaxDisturbances
           /\ machine \in Machines /\ files \in Medium
BY MediumType DEF TypeOK

LEMMA DisturbTyped ==
    ASSUME TypeOK, NEW kind, Disturb(kind)
    PROVE  disturbances' \in 0 .. MaxDisturbances
<1>1. disturbances \in 0 .. MaxDisturbances
  BY TypedParts
<1> QED
  BY <1>1, RouteAssumption DEF Disturb

LEMMA SkipKeeps ==
    ASSUME IInv, SkipEntry \/ StartWindows
    PROVE  IInv'
<1>1. TypeOK /\ Settled
  BY DEF IInv
<1>2. InFirmware /\ SameRoute /\ UNCHANGED <<files, disturbances>>
  BY DEF SkipEntry, StartWindows, SameRoute, firmware, history
<1>3. /\ chain' \in Seq(Numbers \cup {None})
      /\ BeforeWindows(chain') \subseteq BeforeWindows(chain)
  <2>1. CASE SkipEntry
    <3>1. Program # "windows" /\ chain' = Tail(chain)
      BY <2>1, NoneNotStage DEF SkipEntry
    <3> QED
      BY <1>1, <1>2, <3>1, NotWindows
  <2>2. CASE StartWindows
    <3>1. chain' = <<>>
      BY <2>2 DEF StartWindows
    <3> QED
      BY <3>1 DEF BeforeWindows
  <2> QED
    BY <2>1, <2>2
<1>4. /\ widened \in BOOLEAN /\ tried \subseteq Machines
      /\ disturbances \in 0 .. MaxDisturbances /\ files \in Medium
  BY <1>1, TypedParts
<1>5. Inventory' /\ ReportOfPlan' /\ (Proven' => Proven)
  BY <1>1, <1>2 DEF SameRoute, Settled, Inventory, ReportOfPlan, Proven
<1> QED
  BY <1>2, <1>3, <1>4, <1>5, OnTheWay DEF SameRoute

\* The diagnostic writes its report where there is no plan yet.
LEMMA DiagnosticKeeps ==
    ASSUME IInv, RunDiagnostic
    PROVE  IInv'
<1>1. TypeOK /\ Settled
  BY DEF IInv
<1>2. InFirmware /\ SameRoute /\ UNCHANGED disturbances /\ chain' = Tail(chain)
  BY DEF RunDiagnostic, SameRoute, firmware, history
<1>3. Program = "diagnostic"
  BY DEF RunDiagnostic
<1>4. /\ chain' \in Seq(Numbers \cup {None})
      /\ BeforeWindows(chain') \subseteq BeforeWindows(chain)
      /\ chain[1] \in BeforeWindows(chain) /\ Head(chain) = chain[1]
  BY <1>1, <1>2, <1>3, NotWindows
<1>5. /\ widened \in BOOLEAN /\ tried \subseteq Machines
      /\ disturbances \in 0 .. MaxDisturbances
      /\ machine \in Machines /\ files \in Medium
  BY <1>1, TypedParts
<1>6. /\ files' \in Medium /\ files'.plan = files.plan /\ files'.owner = files.owner
      /\ files'.receipts = files.receipts /\ files'.torn = files.torn
  <2>1. write_last_error("diagnostic", "other") \in Errors /\ None \in Errors
    BY DEF Errors
  <2>2. CASE files.report \in {None, machine}
    <3>1. files' = [files EXCEPT !.report = machine, !.error = None]
      BY <2>2 DEF RunDiagnostic
    <3> QED
      BY <1>5, <2>1, <3>1 DEF Medium
  <2>3. CASE files.report \notin {None, machine}
    <3>1. files' = [files EXCEPT !.error = write_last_error("diagnostic", "other")]
      BY <2>3 DEF RunDiagnostic
    <3> QED
      BY <1>5, <2>1, <3>1 DEF Medium
  <2> QED
    BY <2>2, <2>3
<1>7. ReportOfPlan'
  <2> SUFFICES ASSUME mode = "esp" PROVE files.plan = None
    BY <1>2, <1>6 DEF ReportOfPlan, SameRoute
  <2>1. chain[1] \in Numbers
    BY <1>1, <1>4 DEF Settled, DiagnosticIsFresh
  <2>2. Found(chain[1]) = "diagnostic"
    BY <1>3, <1>4, NoneNotStage DEF Program, Stages
  <2>3. variables[chain[1]] = "diagnostic"
    BY <2>1, <2>2, NoneIsNoNumber, NoneNotStage DEF Found, Stages
  <2> QED
    BY <1>1, <1>4, <2>3 DEF Settled, DiagnosticIsFresh
<1>8. Inventory' /\ (Proven' => Proven)
  BY <1>1, <1>2, <1>6 DEF SameRoute, Settled, Inventory, Proven
<1> QED
  BY <1>2, <1>4, <1>5, <1>6, <1>7, <1>8, OnTheWay DEF SameRoute

LEMMA RefusalKnown ==
    write_last_error("loader", Refusal) \in Errors
    /\ write_last_error("loader", "other") \in Errors /\ None \in Errors
<1>1. Refusal \in {"mismatch", "other"}
  BY DEF Refusal
<1> QED
  BY <1>1 DEF Errors

\* A loader that gives up leaves its reason, and goes on with the boot.
LEMMA GivesUp ==
    ASSUME IInv, InFirmware, Program = "loader", SameRoute, chain' = Tail(chain),
           disturbances' \in 0 .. MaxDisturbances,
           files' \in Medium, files'.plan = files.plan, files'.owner = files.owner,
           files'.report = files.report, files'.receipts = files.receipts,
           IsFiniteSet(files'.torn)
    PROVE  IInv'
<1>1. TypeOK /\ Settled
  BY DEF IInv
<1>2. Program # "windows"
  OBVIOUS
<1>3. /\ chain' \in Seq(Numbers \cup {None})
      /\ BeforeWindows(chain') \subseteq BeforeWindows(chain)
  BY <1>1, <1>2, NotWindows
<1>4. widened \in BOOLEAN /\ tried \subseteq Machines
  BY <1>1, TypedParts
<1>5. Inventory' /\ ReportOfPlan' /\ (Proven' => Proven)
  BY <1>1 DEF SameRoute, Settled, Inventory, ReportOfPlan, Proven
<1> QED
  BY <1>3, <1>4, <1>5, OnTheWay DEF SameRoute

\* The loader starts Windows on the hardware it then has tried, or gives up.
LEMMA LoaderKeeps ==
    ASSUME IInv, RunLoader
    PROVE  IInv'
<1>1. TypeOK /\ Settled
  BY DEF IInv
<1>2. /\ InFirmware /\ Program = "loader"
      /\ UNCHANGED <<mode, variables, order, next, machine, manager, secureBoot, cmd,
                     restarted, disturbances>>
  BY DEF RunLoader, firmware
<1>3. /\ widened \in BOOLEAN /\ tried \subseteq Machines
      /\ disturbances \in 0 .. MaxDisturbances
      /\ machine \in Machines /\ files \in Medium
  BY <1>1, TypedParts
<1>4. IsFiniteSet(files.receipts) /\ IsFiniteSet(files.torn)
  BY <1>1 DEF Settled, Inventory
<1>5. CASE Accepts
  <2>1. /\ files' = [files EXCEPT !.receipts = @ \cup {machine}, !.error = None]
        /\ chain' = <<>> /\ widened' = TRUE
        /\ tried' = tried \cup {machine}
    BY <1>5 DEF RunLoader
  <2>2. /\ files' \in Medium /\ files'.plan = files.plan /\ files'.owner = files.owner
        /\ files'.report = files.report /\ files'.torn = files.torn
        /\ files'.receipts = files.receipts \cup {machine}
    BY <1>3, <2>1, RefusalKnown DEF Medium
  <2>3. Tried(files.plan)'
    BY <1>5, <2>1, <2>2 DEF Accepts, Tried
  <2>4. Inventory'
    BY <1>4, <2>2, FS_AddElement DEF Inventory
  <2>5. ReportOfPlan'
    BY <1>1, <1>2, <2>2 DEF Settled, ReportOfPlan
  <2>6. /\ chain' \in Seq(Numbers \cup {None})
        /\ BeforeWindows(chain') \subseteq BeforeWindows(chain)
    BY <2>1 DEF BeforeWindows
  <2>7. widened' \in BOOLEAN /\ tried \subseteq tried' /\ tried' \subseteq Machines
    BY <1>3, <2>1
  <2> QED
    BY <1>2, <1>3, <2>2, <2>3, <2>4, <2>5, <2>6, <2>7, OnTheWay
<1>6. CASE ~Accepts
  <2>1. /\ files' = [files EXCEPT !.error = write_last_error("loader", Refusal)]
        /\ chain' = Tail(chain) /\ UNCHANGED <<widened, tried>>
    BY <1>6 DEF RunLoader
  <2>2. /\ files' \in Medium /\ files'.plan = files.plan /\ files'.owner = files.owner
        /\ files'.report = files.report /\ files'.torn = files.torn
        /\ files'.receipts = files.receipts
    BY <1>3, <2>1, RefusalKnown DEF Medium
  <2>3. SameRoute
    BY <1>2, <2>1 DEF SameRoute
  <2> QED
    BY <1>2, <1>3, <1>4, <2>1, <2>2, <2>3, GivesUp
<1> QED
  BY <1>5, <1>6

LEMMA FailsKeeps ==
    ASSUME IInv, LoaderFails \/ ReceiptTorn
    PROVE  IInv'
<1>1. TypeOK /\ Settled
  BY DEF IInv
<1>2. /\ InFirmware /\ Program = "loader" /\ SameRoute /\ chain' = Tail(chain)
      /\ Disturb("loaderFails") \/ Disturb("receiptTorn")
  BY DEF LoaderFails, ReceiptTorn, SameRoute, firmware
<1>3. disturbances' \in 0 .. MaxDisturbances
  BY <1>1, <1>2, DisturbTyped
<1>4. machine \in Machines /\ files \in Medium
  BY <1>1, TypedParts
<1>5. IsFiniteSet(files.receipts) /\ IsFiniteSet(files.torn)
  BY <1>1 DEF Settled, Inventory
<1>6. \/ files' = [files EXCEPT !.error = write_last_error("loader", "other")]
      \/ files' = [files EXCEPT !.torn = @ \cup {machine},
                                !.error = write_last_error("loader", "other")]
  BY DEF LoaderFails, ReceiptTorn
<1>7. /\ files' \in Medium /\ files'.plan = files.plan /\ files'.owner = files.owner
      /\ files'.report = files.report /\ files'.receipts = files.receipts
      /\ files'.torn \in {files.torn, files.torn \cup {machine}}
  <2> DEFINE e == write_last_error("loader", "other")
  <2>1. e \in Errors
    BY RefusalKnown
  <2> HIDE DEF e
  <2>2. CASE files' = [files EXCEPT !.error = e]
    BY <1>4, <2>1, <2>2 DEF Medium
  <2>3. CASE files' = [files EXCEPT !.torn = @ \cup {machine}, !.error = e]
    BY <1>4, <2>1, <2>3 DEF Medium
  <2> QED
    BY <1>6, <2>2, <2>3 DEF e
<1>8. IsFiniteSet(files'.torn)
  BY <1>5, <1>7, FS_AddElement
<1> QED
  BY <1>2, <1>3, <1>7, <1>8, GivesUp

-----------------------------------------------------------------------------
(* What goes wrong in Windows.                                             *)

\* A command that ends early leaves a settled state.
LEMMA AbortKeeps ==
    ASSUME IInv, Abort
    PROVE  IInv'
<1>1. TypeOK /\ Settled
  BY DEF IInv
<1>2. /\ UNCHANGED <<mode, files, variables, order, next, machine, manager, secureBoot,
                     chain, restarted, widened, tried>>
      /\ cmd' = <<>> /\ Disturb("abort")
  BY DEF Abort, firmware
<1>3. disturbances' \in 0 .. MaxDisturbances
  BY <1>1, <1>2, DisturbTyped
<1>4. TypeOK'
  BY <1>1, <1>2, <1>3 DEF TypeOK
<1>5. OthersStay' /\ NoDiagnosticFirst' /\ DriveHasNoEntries'
  BY <1>1, <1>2 DEF Settled, OthersStay, NoDiagnosticFirst, DriveHasNoEntries, Owned
<1>6. LoaderNeedsStage' /\ FirstHasTriedPlan' /\ ProvenPlan' /\ ReportOfPlan'
  BY <1>1, <1>2 DEF Settled, LoaderNeedsStage, FirstHasTriedPlan, ProvenPlan,
         ReportOfPlan, HeadIsLoader, LoaderListed, Proven, Tried
<1>7. FreshDiagnostic' /\ DiagnosticIsFresh' /\ Inventory' /\ Booting'
  BY <1>1, <1>2 DEF Settled, FreshDiagnostic, DiagnosticIsFresh, Inventory,
         NextIsDiagnostic, Booting
<1>8. Settled'
  BY <1>5, <1>6, <1>7 DEF Settled
<1> QED
  BY <1>2, <1>4, <1>8, NoCommand

LEMMA RenameKeeps ==
    ASSUME IInv, RenameOther
    PROVE  IInv'
<1>1. TypeOK /\ Settled
  BY DEF IInv
<1>2. /\ UNCHANGED <<mode, variables, order, next, machine, manager, secureBoot, cmd,
                     chain, restarted, widened, tried, disturbances>>
      /\ chain = <<>> /\ cmd = <<>>
      /\ FileWritten("certificate", None)
  BY DEF RenameOther, On, InWindows, firmware, history, FileWritten
<1>3. /\ files'.report = files.report /\ files'.plan = files.plan
      /\ files'.owner = files.owner
      /\ files'.receipts = files.receipts /\ files'.torn = files.torn
  <2>1. "certificate" \in Names
    BY DEF Names
  <2>2. FieldsAfter("certificate", None)
    BY <1>1, <1>2, <2>1, FileSet
  <2> QED
    BY <2>2 DEF FieldsAfter
<1>4. files' \in Medium
  BY <1>1, <1>2, MediumType DEF FileWritten, Medium
<1>5. restarted' \in BOOLEAN
  BY <1>1, <1>2 DEF TypeOK
<1>6. TypeOK'
  BY <1>1, <1>2, <1>4, <1>5, StepTyped, SameRest
<1>7. OthersStay' /\ NoDiagnosticFirst' /\ DriveHasNoEntries'
  BY <1>1, <1>2 DEF Settled, OthersStay, NoDiagnosticFirst, DriveHasNoEntries, Owned
<1>8. LoaderNeedsStage' /\ FirstHasTriedPlan' /\ ProvenPlan' /\ ReportOfPlan'
  BY <1>1, <1>2, <1>3 DEF Settled, LoaderNeedsStage, FirstHasTriedPlan, ProvenPlan,
         ReportOfPlan, HeadIsLoader, LoaderListed, Proven, Tried
<1>9. FreshDiagnostic' /\ DiagnosticIsFresh' /\ Inventory' /\ Booting'
  BY <1>1, <1>2, <1>3 DEF Settled, FreshDiagnostic, DiagnosticIsFresh, Inventory,
         NextIsDiagnostic, Booting
<1>10. Settled'
  BY <1>7, <1>8, <1>9 DEF Settled
<1> QED
  BY <1>2, <1>6, <1>10, NoCommand

\* Nothing comes before Windows where Windows comes first.
LEMMA WindowsFirst ==
    ASSUME NEW s \in Orders, Windows \notin Range(s), NEW t, t = <<Windows>> \o s
    PROVE  /\ t \in Orders /\ Range(t) = {Windows} \cup Range(s)
           /\ t # <<>> /\ t[1] = Windows
           /\ BeforeWindows(t) = {}
<1>1. Windows \in Numbers /\ s \in Seq(Numbers)
  BY ListedNumbers DEF Listed, Orders
<1>2. t \in Orders /\ Range(t) = {Windows} \cup Range(s)
  BY <1>1, FrontOrder
<1>3. t[1] = Windows /\ DOMAIN t = 1 .. 1 + Len(s)
  BY <1>1, AtFront
<1>4. PICK m \in Nat : m = Len(s)
  BY <1>1
<1>5. 1 \in DOMAIN t
  BY <1>3, <1>4
<1>6. t # <<>>
  BY <1>5
<1>7. \A k \in DOMAIN t : 1 \in 1 .. k
  BY <1>3, <1>4
<1>8. BeforeWindows(t) = {}
  BY <1>3, <1>7 DEF BeforeWindows
<1> QED
  BY <1>2, <1>3, <1>6, <1>8

\* Another version of the boot manager may put its entry first.
LEMMA ManagerKeeps ==
    ASSUME IInv, ManagerUpdated
    PROVE  IInv'
<1>1. TypeOK /\ Settled
  BY DEF IInv
<1>2. /\ UNCHANGED <<mode, files, variables, next, machine, secureBoot, cmd, chain,
                     restarted, widened, tried>>
      /\ chain = <<>> /\ cmd = <<>>
      /\ Disturb("managerUpdated") /\ manager' \in Managers
      /\ order' \in {order, <<Windows>> \o Retain(order, Numbers \ {Windows})}
  BY DEF ManagerUpdated, InWindows
<1>3. order \in Orders /\ Windows \in Range(order) /\ variables[Windows] = "windows"
  BY <1>1, SameRest DEF Settled, OthersStay, Listed
<1>4. /\ order' \in Orders
      /\ Range(order') = Range(order)
      /\ BeforeWindows(order') \subseteq BeforeWindows(order)
      /\ order' = order \/ (order' # <<>> /\ order'[1] = Windows)
  <2> DEFINE r == Retain(order, Numbers \ {Windows})
  <2>1. /\ r \in Orders /\ Range(r) = Range(order) \ {Windows}
    <3>1. order \in Seq(Numbers) /\ IsInjective(order) /\ Range(order) \subseteq Numbers
      BY <1>3, BeforeListed DEF Orders
    <3>2. /\ r \in Seq(Numbers) /\ IsInjective(r)
          /\ Range(r) = Range(order) \cap (Numbers \ {Windows})
      BY <3>1, RetainOrder
    <3> HIDE DEF r
    <3> QED
      BY <3>1, <3>2 DEF Orders
  <2>2. CASE order' = order
    BY <1>3, <2>2
  <2>3. CASE order' = <<Windows>> \o r
    <3> HIDE DEF r
    <3>1. /\ order' \in Orders /\ Range(order') = {Windows} \cup Range(r)
          /\ order' # <<>> /\ order'[1] = Windows
          /\ BeforeWindows(order') = {}
      BY <2>1, <2>3, WindowsFirst
    <3> QED
      BY <1>3, <2>1, <3>1
  <2> QED
    BY <1>2, <2>2, <2>3
<1>5. disturbances' \in 0 .. MaxDisturbances
  BY <1>1, <1>2, DisturbTyped
<1>6. TypeOK'
  <2>1. order' \in Seq(Numbers) /\ IsInjective(order')
    BY <1>4 DEF Orders
  <2> QED
    BY <1>1, <1>2, <1>5, <2>1 DEF TypeOK
<1>7. (HeadIsLoader' => HeadIsLoader) /\ (LoaderListed' <=> LoaderListed)
  BY <1>2, <1>3, <1>4 DEF HeadIsLoader, LoaderListed
<1>8. OthersStay' /\ NoDiagnosticFirst' /\ DriveHasNoEntries'
  BY <1>1, <1>2, <1>4, WritesSame
     DEF Settled, OthersStay, NoDiagnosticFirst, DriveHasNoEntries, Owned
<1>9. LoaderNeedsStage' /\ FirstHasTriedPlan' /\ ProvenPlan' /\ ReportOfPlan'
  BY <1>1, <1>2, <1>7 DEF Settled, LoaderNeedsStage, FirstHasTriedPlan, ProvenPlan,
         ReportOfPlan, Proven, Tried
<1>10. FreshDiagnostic' /\ DiagnosticIsFresh' /\ Inventory' /\ Booting'
  BY <1>1, <1>2 DEF Settled, FreshDiagnostic, DiagnosticIsFresh, Inventory,
         NextIsDiagnostic, Booting
<1>11. Settled'
  BY <1>8, <1>9, <1>10 DEF Settled
<1> QED
  BY <1>2, <1>6, <1>11, NoCommand

-----------------------------------------------------------------------------
(* The invariant holds.                                                    *)

\* BootOrder at first: Windows, then the others.
LEMMA FirstBootOrder ==
    ASSUME NEW o, o = <<Windows>> \o Ascending(Foreign)
    PROVE  /\ o \in Orders /\ Range(o) = Listed
           /\ o # <<>> /\ o[1] = Windows
           /\ BeforeWindows(o) = {}
<1> DEFINE a == Ascending(Foreign)
           n == Cardinality(Foreign)
<1>1. Foreign \in SUBSET Nat /\ IsFiniteSet(Foreign) /\ Foreign \subseteq Numbers
  <2>1. Foreign \in SUBSET Numbers /\ Numbers \in SUBSET Nat /\ IsFiniteSet(Numbers)
    BY NumbersFinite, RouteAssumption
  <2> QED
    BY <2>1, FS_Subset
<1>2. /\ n \in Nat /\ a \in [1 .. n -> Foreign]
      /\ \A i, j \in 1 .. n : i < j => a[i] < a[j]
      /\ \A x \in Foreign : \E i \in 1 .. n : a[i] = x
  BY <1>1, AscendingLists
<1> HIDE DEF a, n
<1>3. a \in Seq(Numbers) /\ DOMAIN a = 1 .. n
  <2>1. a \in [1 .. n -> Numbers]
    BY <1>1, <1>2
  <2> QED
    BY <1>2, <2>1
<1>4. Range(a) = Foreign
  BY <1>2, <1>3 DEF Range
<1>5. IsInjective(a)
  <2> SUFFICES ASSUME NEW i \in 1 .. n, NEW j \in 1 .. n, a[i] = a[j]
               PROVE  i = j
    BY <1>3 DEF IsInjective
  <2>1. i \in Nat /\ j \in Nat /\ a[i] \in Nat /\ a[j] \in Nat
    <3>1. a \in [1 .. n -> Foreign]
      BY <1>2
    <3>2. a[i] \in Foreign /\ a[j] \in Foreign
      BY <3>1
    <3>3. i \in Nat /\ j \in Nat
      BY <1>2
    <3> QED
      BY <1>1, <3>2, <3>3
  <2>2. ~(i < j) /\ ~(j < i)
    BY <1>2, <2>1
  <2> QED
    BY <2>1, <2>2
<1>6. a \in Orders /\ Windows \notin Range(a)
  BY <1>3, <1>4, <1>5, RouteAssumption DEF Orders
<1>7. o = <<Windows>> \o a
  BY DEF a
<1> QED
  BY <1>4, <1>6, <1>7, WindowsFirst DEF Listed

LEMMA InitHolds ==
    ASSUME Init
    PROVE  IInv
<1>1. /\ order \in Orders /\ Range(order) = Listed
      /\ order # <<>> /\ order[1] = Windows
      /\ BeforeWindows(order) = {}
  BY FirstBootOrder DEF Init
<1>2. /\ \A n \in Numbers : variables[n] =
            IF n = Windows THEN "windows"
            ELSE IF n \in Foreign \cup Hidden THEN "foreign" ELSE None
      /\ variables \in [Numbers -> Stages \cup {None, "windows", "foreign"}]
  BY DEF Init
<1>3. /\ files \in Medium
      /\ files.report = None /\ files.plan = None
      /\ files.receipts = {} /\ files.torn = {}
  <2>1. files \in FirstFiles
    BY DEF Init
  <2>2. /\ NoFiles.report = None /\ NoFiles.plan = None
        /\ NoFiles.receipts = {} /\ NoFiles.torn = {}
        /\ NoFiles \in Medium
    BY DEF NoFiles, Medium, Errors
  <2>3. PICK b \in {None, "foreign"}, c \in {None, "other"} :
           files = [NoFiles EXCEPT !.boot = b, !.certificate = c]
    <3> DEFINE M(b, c) == [NoFiles EXCEPT !.boot = b, !.certificate = c]
               B == IF mode = "usb" THEN {None, "foreign"} ELSE {None}
               C == IF secureBoot.on THEN {None, "other"} ELSE {None}
    <3>1. FirstFiles = {M(b, c) : b \in B, c \in C}
      BY DEF FirstFiles
    <3>2. B \subseteq {None, "foreign"} /\ C \subseteq {None, "other"}
      OBVIOUS
    <3> HIDE DEF M, B, C
    <3>3. \E b \in {None, "foreign"}, c \in {None, "other"} : files = M(b, c)
      BY <2>1, <3>1, <3>2
    <3> QED
      BY <3>3 DEF M
  <2> QED
    BY <2>2, <2>3 DEF Medium
<1>a. chain = <<>> /\ cmd = <<>>
  BY DEF Init
<1>4. TypeOK
  <2>1. files \in [report : Machines \cup {None}, plan : Plans \cup {None},
                   receipts : SUBSET Machines, torn : SUBSET Machines,
                   error : {None, write_last_error("diagnostic", "other")}
                           \cup {write_last_error("loader", r) :
                                    r \in {"mismatch", "other"}},
                   diagnostic : BOOLEAN, loader : BOOLEAN,
                   boot : Stages \cup {None, "foreign"},
                   owner : Stages \cup {None},
                   certificate : {None, "ours", "other"}]
    BY <1>3 DEF Medium, Errors
  <2>2. order \in Seq(Numbers) /\ IsInjective(order)
    BY <1>1 DEF Orders
  <2>3. secureBoot \in [on : BOOLEAN, db : SUBSET (Stages \cup {"certificate"})]
    <3>1. secureBoot \in [on : BOOLEAN, db : {{}}]
      BY DEF Init
    <3> QED
      BY <3>1
  <2>4. 0 \in 0 .. MaxDisturbances
    BY RouteAssumption
  <2>5. chain \in Seq(Numbers \cup {None})
    BY <1>a
  <2>6. /\ mode \in {"esp", "usb"} /\ next = None
        /\ machine = FirstMachine /\ manager = FirstManager
        /\ restarted = FALSE /\ widened = FALSE /\ tried = {} /\ disturbances = 0
    BY DEF Init
  <2>7. machine \in Machines /\ manager \in Managers
    BY <2>6, RouteAssumption
  <2> QED
    BY <1>2, <1>a, <2>1, <2>2, <2>3, <2>4, <2>5, <2>6, <2>7 DEF TypeOK
<1>5. \A n \in Numbers : variables[n] \notin Stages
  <2>1. None \notin Stages
    BY NoneNotStage
  <2> QED
    BY <1>2, <2>1 DEF Stages
<1>6. OthersStay
  <2>1. \A n \in Listed : n \in Numbers /\ (n = Windows \/ n \in Foreign)
    BY ListedNumbers DEF Listed
  <2> QED
    BY <1>1, <1>2, <2>1 DEF OthersStay, Listed
<1>7. NoDiagnosticFirst /\ DriveHasNoEntries
  BY <1>1, <1>5 DEF NoDiagnosticFirst, DriveHasNoEntries, Owned
<1>8. ~HeadIsLoader
  BY <1>1, <1>5, ListedNumbers DEF HeadIsLoader, Listed, Stages
<1>9. LoaderNeedsStage /\ FirstHasTriedPlan /\ ReportOfPlan
  BY <1>3, <1>8 DEF LoaderNeedsStage, FirstHasTriedPlan, ReportOfPlan
<1>10. ProvenPlan /\ FreshDiagnostic /\ Booting
  BY DEF Init, ProvenPlan, Proven, FreshDiagnostic, NextIsDiagnostic, Booting
<1>11. DiagnosticIsFresh
  <2>1. BeforeWindows(chain) = {}
    BY <1>a DEF BeforeWindows
  <2> QED
    BY <2>1 DEF DiagnosticIsFresh
<1>12. Inventory
  BY <1>3, FS_EmptySet DEF Inventory
<1>13. cmd \in Seq(Writes) /\ cmd = <<>>
  BY <1>a
<1> QED
  BY <1>4, <1>6, <1>7, <1>9, <1>10, <1>11, <1>12, <1>13 DEF IInv, Settled, Running

\* A step that changes nothing.
LEMMA StutterKeeps ==
    ASSUME IInv, UNCHANGED vars
    PROVE  IInv'
<1>1. SameState /\ cmd' = cmd
  BY DEF vars, firmware, history, SameState
<1>2. cmd \in Seq(Writes) /\ TypeOK /\ Settled
  BY DEF IInv, Running
<1>3. TypeOK'
  BY <1>1, <1>2 DEF TypeOK, SameState
<1>4. OthersStay' /\ NoDiagnosticFirst' /\ DriveHasNoEntries'
  BY <1>1, <1>2 DEF Settled, SameState, OthersStay, NoDiagnosticFirst,
         DriveHasNoEntries, Owned
<1>5. LoaderNeedsStage' /\ FirstHasTriedPlan' /\ ProvenPlan' /\ ReportOfPlan'
  BY <1>1, <1>2 DEF Settled, SameState, LoaderNeedsStage, FirstHasTriedPlan, ProvenPlan,
         ReportOfPlan, HeadIsLoader, LoaderListed, Proven, Tried
<1>6. FreshDiagnostic' /\ DiagnosticIsFresh' /\ Inventory' /\ Booting'
  BY <1>1, <1>2 DEF Settled, SameState, FreshDiagnostic, DiagnosticIsFresh, Inventory,
         NextIsDiagnostic, Booting
<1>7. Settled'
  BY <1>4, <1>5, <1>6 DEF Settled
<1>8. Writes' = Writes
  BY WritesSame
<1>9. CASE cmd = <<>>
  BY <1>1, <1>3, <1>7, <1>9, NoCommand
<1>10. CASE Preparing(cmd)
  BY <1>1, <1>2, <1>3, <1>7, <1>8, <1>10, StartPreparing DEF IInv, Running
<1>11. CASE WritingLoader(cmd)
  BY <1>1, <1>2, <1>3, <1>7, <1>8, <1>11, StartWriting DEF IInv, Running
<1>12. CASE MakingPermanent(cmd)
  BY <1>1, <1>2, <1>3, <1>7, <1>8, <1>12, StartPermanent DEF IInv, Running
<1>13. CASE Removing(cmd)
  BY <1>1, <1>2, <1>3, <1>7, <1>8, <1>13, StartRemoving DEF IInv, Running
<1>14. CASE SavingCertificate(cmd)
  BY <1>1, <1>2, <1>3, <1>7, <1>8, <1>14, StartSaving DEF IInv, Running
<1> QED
  BY <1>9, <1>10, <1>11, <1>12, <1>13, <1>14 DEF IInv, Running

\* Every action keeps the invariant.
LEMMA NextKeeps ==
    ASSUME IInv, [Next]_vars
    PROVE  IInv'
<1>1. CASE SaveCertificate \/ PrepareDiagnostic \/ WriteLoader \/ MakePermanent
              \/ RemoveRoute
  BY <1>1, SaveKeeps, PrepareKeeps, WriteKeeps, PermanentKeeps, RemoveKeeps
<1>2. CASE Step
  BY <1>2, StepKeeps
<1>3. CASE Restart \/ EnrollCertificate \/ TurnSecureBootOff \/ SpareBoot
              \/ MachineChanged \/ SecureBootChanged
  BY <1>3, RestartsKeep
<1>4. CASE SkipEntry \/ StartWindows \/ RunDiagnostic \/ RunLoader
              \/ LoaderFails \/ ReceiptTorn
  BY <1>4, SkipKeeps, DiagnosticKeeps, LoaderKeeps, FailsKeeps
<1>5. CASE RenameOther \/ Abort \/ ManagerUpdated
  BY <1>5, RenameKeeps, AbortKeeps, ManagerKeeps
<1>6. CASE UNCHANGED vars
  BY <1>6, StutterKeeps
<1> QED
  BY <1>1, <1>2, <1>3, <1>4, <1>5, <1>6 DEF Next

\* The inductive invariant: what the medium, the boot entries and the history
\* say of each other, and what is left of a command that runs.
THEOREM RouteInvariant == Spec => []IInv
<1>1. Init => IInv
  BY InitHolds
<1>2. IInv /\ [Next]_vars => IInv'
  BY NextKeeps
<1> QED
  BY <1>1, <1>2, PTL DEF Spec

\* Type correctness, after any number of disturbances.
THEOREM TypeCorrect == Spec => []TypeOK
<1>1. IInv => TypeOK
  BY DEF IInv
<1> QED
  BY <1>1, RouteInvariant, PTL

\* docs/EXTERNAL_EFI.md:32, after every interruption of every command: the
\* first boot entry is the loader only if it has a plan for hardware on which
\* the loader has started Windows.
THEOREM FirstTried == Spec => []FirstIsTried
<1>1. IInv => FirstIsTried
  <2> SUFFICES ASSUME IInv PROVE FirstIsTried
    OBVIOUS
  <2>1. TypeOK /\ FirstHasTriedPlan
    BY DEF IInv, Settled
  <2> QED
    BY <2>1, FirstEntry DEF FirstHasTriedPlan, Tried, FirstIsTried
<1> QED
  BY <1>1, RouteInvariant, PTL

-----------------------------------------------------------------------------
(* What belongs to others.                                                 *)

\* A write that spares the listed entries and the boot file of others.
SparesOthers(w) ==
    /\ w.store = "variable" => w.key \notin Listed
    /\ w.store = "file" /\ w.key = "boot" => files.boot # "foreign"

LEMMA WritesSpare ==
    ASSUME IInv, cmd # <<>>
    PROVE  SparesOthers(cmd[1])
<1>1. cmd \in Seq(Writes)
  BY DEF IInv, Running
<1>2. 1 \in DOMAIN cmd
  BY <1>1, TailOf
<1>3. \A stage \in Stages :
         /\ FileWrite(cmd[1], stage) => SparesOthers(cmd[1])
         /\ SchedulingWrite(cmd[1], stage) => SparesOthers(cmd[1])
  BY DEF FileWrite, SchedulingWrite, SparesOthers, Stages
<1>4. RemovalWrite(cmd[1]) => SparesOthers(cmd[1])
  BY DEF RemovalWrite, SparesOthers
<1>5. \A k \in {"report", "plan", "owner", "certificate"} : \A v :
         Is(cmd[1], File(k, v)) => SparesOthers(cmd[1])
  BY DEF Is, File, SparesOthers
<1>6. CASE Preparing(cmd)
  BY <1>2, <1>3, <1>5, <1>6 DEF Preparing, Stages
<1>7. CASE WritingLoader(cmd)
  BY <1>2, <1>3, <1>5, <1>7 DEF WritingLoader, WritingPlan, Stages
<1>8. CASE MakingPermanent(cmd)
  BY <1>2, <1>4, <1>8 DEF MakingPermanent
<1>9. CASE Removing(cmd)
  BY <1>2, <1>4, <1>9 DEF Removing, SparesOthers, Stages
<1>10. CASE SavingCertificate(cmd)
  BY <1>2, <1>5, <1>10 DEF SavingCertificate, SparesOthers
<1> QED
  BY <1>6, <1>7, <1>8, <1>9, <1>10 DEF IInv, Running

\* No step touches an entry of others that BootOrder names, or a boot file.
Spared ==
    /\ \A n \in Listed : variables'[n] = variables[n]
    /\ files.boot = "foreign" => files'.boot = "foreign"

LEMMA StepSpares ==
    ASSUME IInv, Step
    PROVE  Spared
<1>1. TypeOK /\ cmd \in Seq(Writes)
  BY DEF IInv, Running
<1>2. cmd # <<>> /\ StepDoes(cmd[1])
  BY <1>1, StepWrites
<1> DEFINE w == cmd[1]
<1>3. SparesOthers(w) /\ w \in Writes
  BY <1>1, <1>2, WritesSpare, RestOf
<1>4. variables \in [Numbers -> Stages \cup {None, "windows", "foreign"}]
      /\ files \in Medium
  BY <1>1, SameRest, MediumType
<1>5. StepDoes(w)
  BY <1>2
<1> HIDE DEF w
<1>6. w.store \in {"file", "receipt", "variable", "order", "next", "answer"}
  BY <1>3 DEF Writes
<1>7. \A n \in Listed : variables'[n] = variables[n]
  <2>1. Listed \subseteq Numbers
    BY ListedNumbers
  <2>2. w.store # "variable" => variables' = variables
    BY <1>5, <1>6 DEF StepDoes
  <2>3. w.store = "variable" => variables' = [variables EXCEPT ![w.key] = w.value]
    BY <1>5 DEF StepDoes
  <2> QED
    BY <1>3, <1>4, <2>1, <2>2, <2>3 DEF SparesOthers
<1>8. files.boot = "foreign" => files'.boot = "foreign"
  <2>1. w.store \in {"variable", "order", "next", "answer"} => files' = files
    BY <1>5 DEF StepDoes
  <2>2. w.store = "receipt" => files'.boot = files.boot
    BY <1>4, <1>5, ReceiptGone DEF StepDoes, OnlyReceipts
  <2>3. w.store = "file" /\ w.key # "boot" => files'.boot = files.boot
    BY <1>4, <1>5 DEF StepDoes, FileWritten, Medium
  <2> QED
    BY <1>3, <1>6, <2>1, <2>2, <2>3 DEF SparesOthers
<1> QED
  BY <1>7, <1>8 DEF Spared

LEMMA OthersSpared ==
    ASSUME IInv, [Next]_vars
    PROVE  Spared
<1>1. files \in Medium
  BY MediumType DEF IInv
<1>2. CASE Step
  BY <1>2, StepSpares
<1>3. CASE UNCHANGED <<variables, files>>
  BY <1>3 DEF Spared
<1>4. CASE SaveCertificate \/ PrepareDiagnostic \/ WriteLoader \/ MakePermanent
              \/ RemoveRoute
  <2>1. UNCHANGED <<variables, files>>
    BY <1>4 DEF SaveCertificate, PrepareDiagnostic, Choose, DiagnoseAgain,
                prepare_diagnostic, WriteLoader, PickGpu, TryAgain, Repin, write_loader,
                MakePermanent, RemoveRoute, Start, firmware
  <2> QED
    BY <1>3, <2>1
<1>5. CASE Restart \/ EnrollCertificate \/ TurnSecureBootOff \/ SpareBoot
              \/ MachineChanged \/ SecureBootChanged
  <2>1. UNCHANGED <<variables, files>>
    BY <1>5 DEF Restart, EnrollCertificate, TurnSecureBootOff, SpareBoot,
                MachineChanged, SecureBootChanged
  <2> QED
    BY <1>3, <2>1
<1>6. CASE SkipEntry \/ StartWindows \/ Abort \/ ManagerUpdated
  <2>1. UNCHANGED <<variables, files>>
    BY <1>6 DEF SkipEntry, StartWindows, Abort, ManagerUpdated, firmware
  <2> QED
    BY <1>3, <2>1
<1>7. ASSUME UNCHANGED variables, files'.boot = files.boot
      PROVE  Spared
  BY <1>7 DEF Spared
<1>8. CASE RunDiagnostic
  <2>1. UNCHANGED variables /\ files'.boot = files.boot
    BY <1>1, <1>8 DEF RunDiagnostic, firmware, Medium
  <2> QED
    BY <1>7, <2>1
<1>9. CASE RunLoader
  <2>1. UNCHANGED variables /\ files'.boot = files.boot
    BY <1>1, <1>9 DEF RunLoader, firmware, Medium
  <2> QED
    BY <1>7, <2>1
<1>10. CASE LoaderFails \/ ReceiptTorn
  <2>1. UNCHANGED variables /\ files'.boot = files.boot
    BY <1>1, <1>10 DEF LoaderFails, ReceiptTorn, firmware, Medium
  <2> QED
    BY <1>7, <2>1
<1>11. CASE RenameOther
  <2>1. UNCHANGED variables /\ files'.boot = files.boot
    BY <1>1, <1>11 DEF RenameOther, firmware, Medium
  <2> QED
    BY <1>7, <2>1
<1>12. CASE UNCHANGED vars
  BY <1>3, <1>12 DEF vars, firmware
<1> QED
  BY <1>2, <1>4, <1>5, <1>6, <1>8, <1>9, <1>10, <1>11, <1>12 DEF Next

\* boot_entries.rs:108, after every interruption of every command, where
\* BootOrder names every entry of others: no Boot#### variable of others and
\* no boot file of others is written or deleted.  Of entries that it does not
\* name, which the application never reads, nothing is said here.
THEOREM OthersUntouched ==
    ASSUME Hidden = {}
    PROVE  Spec => ForeignUntouched
<1> DEFINE Untouched ==
               /\ \A n \in Numbers : IsForeign(n) => variables'[n] = variables[n]
               /\ files.boot = "foreign" => files'.boot = "foreign"
<1>1. \A n : IsForeign(n) => n \in Listed
  BY DEF IsForeign, Listed
<1>2. IInv /\ [Next]_vars => [Untouched]_vars
  <2> SUFFICES ASSUME IInv, [Next]_vars PROVE Untouched
    OBVIOUS
  <2>1. Spared
    BY OthersSpared
  <2> QED
    BY <1>1, <2>1 DEF Spared
<1>3. ForeignUntouched <=> [][Untouched]_vars
  BY DEF ForeignUntouched
<1> QED
  BY <1>2, <1>3, RouteInvariant, PTL DEF Spec

=============================================================================
