--------------------------- MODULE PricedShiftsProofs ---------------------------
(***************************************************************************)
(* Theorems about PricedShifts.  Type correctness holds for any number of  *)
(* overlapping calls.  How shifts are priced, and which loads stay         *)
(* together, is proved for calls that do not overlap, OneCaller, though    *)
(* the inserts and removals of calls that failed land among them at any    *)
(* time.  With two sessions it is false, for a call writes what it         *)
(* resolved or cleared on the strength of rows another may change in       *)
(* between.                                                                *)
(***************************************************************************)
EXTENDS PricedShifts, FiniteSetTheorems, WellFoundedInduction, TLAPS

OneCaller == \A s, t \in Sessions : s = t

-------------------------------------------------------------------------------
(***************************************************************************)
(* The invariants                                                          *)
(***************************************************************************)

LoadCounts == {KeepLoads} \cup 0..MaxLoads

\* A shift row, and a patch of updateShift as it is written: assignments are never
\* removed, so the one they name is there.
IsShift(row) == row \in ShiftRows /\ row.assignment \in Choices

IsPatch(p) ==
  /\ DOMAIN p \subseteq {"assignment", "date", "rateCard"}
  /\ "assignment" \in DOMAIN p => p["assignment"] \in Choices
  /\ "date" \in DOMAIN p => p["date"] \in Dates
  /\ "rateCard" \in DOMAIN p => p["rateCard"] \in 0..MaxVersion

\* The calls a session may be in the middle of: a lineage, a shift, and what is still
\* to be written.  No number is ahead of the rows there are.
CallType(c) ==
  \/ c = NoCall
  \/ /\ c.fn = "insertVersion" /\ c.lineage \in lineages
     /\ c.row \in [version : Nat \ {0}, supersedes : Nat, from : Dates]
     /\ c.row.version <= Count(c.lineage) + 1 /\ c.row.supersedes <= Count(c.lineage)
  \/ c.fn = "createShift" /\ c.loads \in LoadCounts /\ IsShift(c.row)
  \/ /\ c.fn = "updateShift" /\ c.loads \in LoadCounts
     /\ c.shift \in ShiftIds /\ IsPatch(c.patch)
  \/ c.fn = "query" /\ c.shift \in ShiftIds /\ c.loads \in {Delete} \cup 0..MaxLoads
  \/ c \in [fn : {"clear"}, shift : ShiftIds, loads : {Delete} \cup 0..MaxLoads,
            ids : SUBSET LoadIds]
  \/ c \in [fn : {"insertLoads"}, shift : ShiftIds, save : 1..MaxSaves]

RateTypes ==
  /\ DOMAIN lineageOf \subseteq AssignmentIds /\ lineages \subseteq Lineages
  /\ \A a \in DOMAIN lineageOf : lineageOf[a] \in lineages
  /\ DOMAIN versions = Lineages
  /\ \A l \in Lineages :
       /\ versions[l] \in Seq(RateCardRows) /\ Count(l) <= MaxVersion
       /\ \A v \in 1..Count(l) : versions[l][v].version <= v
       /\ l \notin lineages => versions[l] = <<>>

ShiftTypes ==
  /\ DOMAIN shifts \subseteq ShiftIds
  /\ \A i \in DOMAIN shifts : IsShift(shifts[i]) /\ i \in DOMAIN known

LoadTypes ==
  /\ DOMAIN loads \subseteq LoadIds
  /\ \A i \in DOMAIN loads : loads[i] \in LoadRows
  /\ DOMAIN sent \subseteq LoadIds
  /\ \A i \in DOMAIN sent : sent[i] \in LoadRows
  /\ removing \subseteq LoadIds
  /\ saves \in 0..MaxSaves

CallTypes == DOMAIN call = Sessions /\ \A s \in Sessions : CallType(call[s])

TypeInv == RateTypes /\ ShiftTypes /\ LoadTypes /\ CallTypes

\* reviseRateCard: the versions of a lineage are a chain, each effective after the last.
Chained(rows) ==
  /\ \A v \in DOMAIN rows : rows[v].version = v /\ rows[v].supersedes = v - 1
  /\ \A v, w \in DOMAIN rows : v < w => rows[v].from < rows[w].from

\* A shift row is priced by the version that was in effect among the first k.
Pinned(row, k) ==
  /\ row.assignment \in DOMAIN lineageOf \cup {NoAssignment}
  /\ IF row.assignment = NoAssignment
       THEN row.rateCard = None
       ELSE LET l == lineageOf[row.assignment]
            IN /\ k \in 0..Count(l) /\ row.rateCard \in 0..k
               /\ row.rateCard = Cardinality({v \in 1..k : versions[l][v].from <= row.date})

Pricing ==
  /\ \A l \in Lineages : Chained(versions[l])
  /\ \A i \in DOMAIN shifts : Pinned(shifts[i], known[i])

\* What a call that is about to write may still rely on.
Reliable(c) ==
  /\ c.fn = "insertVersion" => Chained(Append(versions[c.lineage], c.row))
  /\ c.fn = "createShift" => Pinned(c.row, c.seen)
  /\ c.fn = "updateShift" =>
       /\ c.shift \in DOMAIN shifts
       /\ LET existing == shifts[c.shift]
              next     == Merge(existing, c.patch)
          IN IF "rateCard" \in DOMAIN c.patch
               THEN /\ Pinned(next, c.seen)
                    /\ next.date # existing.date \/ next.assignment # existing.assignment
               ELSE next = existing
  /\ c.fn \in {"query", "clear"} => c.shift \in DOMAIN shifts

\* The loads of a table that no call has missed
Due(rows) == {i \in DOMAIN rows : ~rows[i].missed}

\* A call that waits for its removals has left no load of its shift but those.
Queried(c) ==
  c.fn = "clear" =>
    /\ \A i \in Due(loads) : loads[i].shift = c.shift => i \in c.ids \cap removing
    /\ \A i \in Due(sent) : sent[i].shift # c.shift

\* LoadsAreOfOneSave of the loads there are and of those still to land.
Together(rows, others) ==
  \A i \in Due(rows), j \in Due(others) :
    rows[i].shift = others[j].shift => rows[i].save = others[j].save

LoadsInStep ==
  /\ \A i \in Due(loads) : loads[i].shift \in DOMAIN shifts
  /\ \A i \in Due(sent) : sent[i].shift \in DOMAIN shifts
  /\ Together(loads, loads) /\ Together(loads, sent) /\ Together(sent, sent)

Undisturbed ==
  /\ Pricing /\ LoadsInStep
  /\ \A s \in Sessions : Reliable(call[s]) /\ Queried(call[s])

-------------------------------------------------------------------------------
(***************************************************************************)
(* Rows, patches and the version in effect                                 *)
(***************************************************************************)

\* Repository.update overwrites the fields of the patch.
LEMMA MergedRow ==
  ASSUME RateTypes, NEW row, IsShift(row), NEW p, IsPatch(p)
  PROVE  /\ IsShift(Merge(row, p))
         /\ Merge(row, p).assignment =
              IF "assignment" \in DOMAIN p THEN p["assignment"] ELSE row.assignment
         /\ Merge(row, p).date = IF "date" \in DOMAIN p THEN p["date"] ELSE row.date
         /\ Merge(row, p).rateCard = IF "rateCard" \in DOMAIN p THEN p["rateCard"] ELSE row.rateCard
<1> DEFINE M == Merge(row, p)
<1>1. DOMAIN row = {"assignment", "date", "rateCard"} /\ row \in ShiftRows
  BY DEF IsShift, ShiftRows
<1>2. /\ M = [k \in {"assignment", "date", "rateCard"} |-> IF k \in DOMAIN p THEN p[k] ELSE row[k]]
  BY <1>1 DEF Merge
<1> HIDE DEF M
<1>3. /\ M["assignment"] = IF "assignment" \in DOMAIN p THEN p["assignment"] ELSE row["assignment"]
      /\ M["date"] = IF "date" \in DOMAIN p THEN p["date"] ELSE row["date"]
      /\ M["rateCard"] = IF "rateCard" \in DOMAIN p THEN p["rateCard"] ELSE row["rateCard"]
  BY <1>2
<1>4. /\ M["assignment"] \in Choices
      /\ M["date"] \in Dates /\ M["rateCard"] \in 0..MaxVersion
  BY <1>1, <1>3 DEF IsPatch, IsShift, ShiftRows
<1>5. IsShift(M)
  BY <1>2, <1>4 DEF ShiftRows, IsShift, RateTypes, Choices
<1> QED BY <1>3, <1>5 DEF M

LEMMA LeastNatural ==
  ASSUME NEW T, T \subseteq Nat, T # {}
  PROVE  \E m \in T : \A k \in T : m <= k
<1> DEFINE R == OpToRel(<, Nat)
<1>1. IsWellFoundedOn(R, Nat)
  BY NatLessThanWellFounded
<1>2. \A x, y \in Nat : x < y => <<x, y>> \in R
  BY DEF OpToRel
<1> HIDE DEF R
<1>3. PICK m \in T : \A y \in T : ~(<<y, m>> \in R)
  BY <1>1, WFMin
<1>4. ASSUME NEW k \in T PROVE m <= k
  <2>1. m \in Nat /\ k \in Nat /\ ~(k < m)
    BY <1>2, <1>3
  <2> QED BY <2>1
<1> QED BY <1>4

LEMMA VersionRows ==
  ASSUME RateTypes, NEW l \in Lineages
  PROVE  /\ versions[l] \in Seq(RateCardRows) /\ DOMAIN versions[l] = 1..Count(l)
         /\ Count(l) \in Nat
         /\ \A v \in 1..Count(l) :
              versions[l][v] \in RateCardRows /\ versions[l][v].from \in 1..MaxDate
<1>1. /\ versions[l] \in Seq(RateCardRows) /\ DOMAIN versions[l] = 1..Count(l)
      /\ Count(l) \in Nat
  BY DEF RateTypes, Count
<1>2. \A v \in 1..Count(l) : versions[l][v] \in RateCardRows
  BY <1>1 DEF Count
<1> QED BY <1>1, <1>2 DEF RateCardRows, Dates

\* resolveEffectiveRateCard finds a version of the lineage, or none.
LEMMA EffectiveVersion ==
  ASSUME RateTypes, NEW l \in Lineages, NEW date \in Dates
  PROVE  LET inEffect == {v \in 1..Count(l) : versions[l][v].from <= date}
         IN IF inEffect = {}
              THEN Effective(l, date) = 0
              ELSE /\ Effective(l, date) \in inEffect
                   /\ \A w \in inEffect : versions[l][Effective(l, date)].from >= versions[l][w].from
<1> DEFINE inEffect == {v \in 1..Count(l) : versions[l][v].from <= date}
<1>1. DOMAIN versions[l] = 1..Count(l) /\ Count(l) \in Nat
  BY VersionRows
<1>2. \A v \in 1..Count(l) : versions[l][v].from \in 1..MaxDate
  BY VersionRows
<1>3. CASE inEffect = {}
  BY <1>1, <1>3 DEF Effective, None
<1>4. CASE inEffect # {}
  <2> DEFINE ages == {MaxDate - versions[l][v].from : v \in inEffect}
  <2>1. ages \subseteq Nat /\ ages # {}
    <3>1. ASSUME NEW v \in inEffect PROVE MaxDate - versions[l][v].from \in Nat
      <4>1. versions[l][v].from \in 1..MaxDate
        BY <1>2
      <4> QED BY <4>1, PricingBounds
    <3> HIDE DEF inEffect
    <3> QED BY <1>4, <3>1
  <2>2. PICK m \in ages : \A k \in ages : m <= k
    BY <2>1, LeastNatural
  <2>3. PICK v \in inEffect : m = MaxDate - versions[l][v].from
    BY <2>2
  <2>4. ASSUME NEW w \in inEffect
        PROVE  versions[l][v].from >= versions[l][w].from
    <3>1. MaxDate - versions[l][v].from <= MaxDate - versions[l][w].from
      BY <2>2, <2>3
    <3> QED BY <1>2, <3>1, PricingBounds
  <2>5. Effective(l, date) =
          CHOOSE x \in inEffect : \A w \in inEffect : versions[l][x].from >= versions[l][w].from
    BY <1>1, <1>4 DEF Effective
  <2> HIDE DEF inEffect
  <2> QED BY <1>4, <2>4, <2>5 DEF inEffect
<1> QED BY <1>3, <1>4

\* In a chain of versions the one in effect is as many as have taken effect.
LEMMA EffectiveIsCount ==
  ASSUME RateTypes, NEW l \in Lineages, NEW date \in Dates, Chained(versions[l])
  PROVE  /\ Effective(l, date) \in 0..Count(l)
         /\ Effective(l, date) =
              Cardinality({v \in 1..Count(l) : versions[l][v].from <= date})
<1> DEFINE inEffect == {v \in 1..Count(l) : versions[l][v].from <= date}
           e == Effective(l, date)
<1>1. DOMAIN versions[l] = 1..Count(l) /\ Count(l) \in Nat
  BY VersionRows
<1>2. \A v \in 1..Count(l) : versions[l][v].from \in 1..MaxDate
  BY VersionRows
<1>3. date \in 1..MaxDate
  BY DEF Dates
<1>4. CASE inEffect = {}
  <2>1. e = 0
    BY <1>4, EffectiveVersion
  <2>2. Cardinality(inEffect) = 0
    BY <1>4, FS_EmptySet
  <2> HIDE DEF inEffect
  <2> QED BY <1>1, <2>1, <2>2 DEF inEffect
<1>5. CASE inEffect # {}
  <2>1. e \in inEffect /\ \A w \in inEffect : versions[l][e].from >= versions[l][w].from
    BY <1>5, EffectiveVersion
  <2> HIDE DEF e
  <2>2. e \in 1..Count(l) /\ versions[l][e].from <= date
    BY <2>1
  <2>3. ASSUME NEW v \in 1..Count(l)
        PROVE  versions[l][v].from <= date <=> v <= e
    <3>1. CASE v < e
      <4>1. versions[l][v].from < versions[l][e].from
        BY <1>1, <2>2, <3>1 DEF Chained
      <4> QED BY <1>2, <1>3, <2>2, <3>1, <4>1
    <3>2. CASE v = e
      BY <2>2, <3>2
    <3>3. CASE e < v
      <4>1. versions[l][e].from < versions[l][v].from
        BY <1>1, <2>2, <3>3 DEF Chained
      <4>2. v \notin inEffect
        BY <1>2, <2>1, <2>2, <4>1
      <4> QED BY <2>2, <3>3, <4>2
    <3> QED BY <1>1, <2>2, <3>1, <3>2, <3>3
  <2>4. inEffect = 1..e
    BY <1>1, <2>2, <2>3
  <2>5. Cardinality(1..e) = e
    BY <1>1, <2>2, FS_Interval
  <2> HIDE DEF inEffect
  <2>6. e \in 0..Count(l) /\ e = Cardinality(inEffect)
    BY <1>1, <2>2, <2>4, <2>5
  <2> QED BY <2>6 DEF e, inEffect
<1> QED BY <1>4, <1>5

-------------------------------------------------------------------------------
(***************************************************************************)
(* Types, for calls that overlap in any way                                *)
(***************************************************************************)

\* Rate cards are only ever added to: lineages, their versions, and what an
\* assignment is priced by.
Grows ==
  /\ lineages \subseteq lineages'
  /\ \A a \in DOMAIN lineageOf : a \in DOMAIN lineageOf' /\ lineageOf'[a] = lineageOf[a]
  /\ \A l \in lineages :
       /\ Len(versions'[l]) \in Nat /\ Count(l) <= Len(versions'[l])
       /\ \A v \in 1..Count(l) : versions'[l][v] = versions[l][v]

\* A first version, or one after those there are, is a row of the lineage.
LEMMA AppendVersion ==
  ASSUME RateTypes, NEW l \in Lineages,
         NEW row \in [version : Nat \ {0}, supersedes : Nat, from : Dates],
         Count(l) < MaxVersion, row.version <= Count(l) + 1, row.supersedes <= Count(l)
  PROVE  LET rows == Append(versions[l], row)
         IN /\ rows \in Seq(RateCardRows) /\ Len(rows) = Count(l) + 1 /\ Len(rows) <= MaxVersion
            /\ \A v \in 1..Len(rows) : rows[v].version <= v
            /\ \A v \in 1..Count(l) : rows[v] = versions[l][v]
            /\ rows[Count(l) + 1] = row
<1> DEFINE rows == Append(versions[l], row)
<1>1. /\ versions[l] \in Seq(RateCardRows) /\ Count(l) \in Nat /\ Count(l) = Len(versions[l])
  BY VersionRows DEF Count
<1>2. row \in RateCardRows
  BY <1>1, PricingBounds DEF RateCardRows
<1>3. /\ rows \in Seq(RateCardRows) /\ Len(rows) = Count(l) + 1
      /\ \A v \in 1..Count(l) : rows[v] = versions[l][v]
      /\ rows[Count(l) + 1] = row
  BY <1>1, <1>2
<1> HIDE DEF rows
<1>4. \A v \in 1..Len(rows) : v \in 1..Count(l) \/ v = Count(l) + 1
  BY <1>1, <1>3
<1>5. \A v \in 1..Len(rows) : rows[v].version <= v
  BY <1>3, <1>4 DEF RateTypes
<1>6. Len(rows) <= MaxVersion
  BY <1>1, <1>3, PricingBounds
<1> QED BY <1>3, <1>5, <1>6 DEF rows

LEMMA RatesStep ==
  ASSUME TypeInv, [Next]_vars
  PROVE  RateTypes' /\ Grows
<1> USE DEF RateTypes
<1>0. RateTypes
  BY DEF TypeInv
<1>1. \A l \in Lineages : Count(l) \in Nat
  BY <1>0, VersionRows
<1>2. CASE UNCHANGED rateVars
  BY <1>0, <1>1, <1>2 DEF rateVars, Grows, Count
<1>3. CASE AssignmentCreated
  <2>1. PICK a \in AssignmentIds \ DOMAIN lineageOf, l \in lineages :
          lineageOf' = Insert(lineageOf, a, l) /\ UNCHANGED <<lineages, versions>>
    BY <1>3 DEF AssignmentCreated
  <2>2. /\ DOMAIN lineageOf' = DOMAIN lineageOf \cup {a} /\ lineageOf'[a] = l
        /\ \A b \in DOMAIN lineageOf : lineageOf'[b] = lineageOf[b]
    BY <2>1 DEF Insert
  <2> QED BY <1>0, <1>1, <2>1, <2>2 DEF Grows, Count
<1>4. CASE CreateSoloWorkContext
  <2>1. PICK a \in AssignmentIds \ DOMAIN lineageOf, l \in Lineages \ lineages, d \in Dates :
          /\ lineages' = lineages \cup {l}
          /\ versions' = [versions EXCEPT ![l] =
               <<[version |-> 1, supersedes |-> None, from |-> d]>>]
          /\ lineageOf' = Insert(lineageOf, a, l)
    BY <1>4 DEF CreateSoloWorkContext
  <2> DEFINE row == [version |-> 1, supersedes |-> None, from |-> d]
  <2>2. /\ DOMAIN lineageOf' = DOMAIN lineageOf \cup {a} /\ lineageOf'[a] = l
        /\ \A b \in DOMAIN lineageOf : lineageOf'[b] = lineageOf[b]
    BY <2>1 DEF Insert
  <2>3. row \in RateCardRows /\ row.version = 1
    BY PricingBounds DEF RateCardRows, None
  <2>4. <<row>> \in Seq(RateCardRows) /\ Len(<<row>>) = 1 /\ <<row>>[1] = row
    BY <2>3
  <2>5. /\ DOMAIN versions' = Lineages /\ versions'[l] = <<row>>
        /\ \A k \in Lineages : k # l => versions'[k] = versions[k]
    BY <1>0, <2>1
  <2> HIDE DEF row
  <2>6. ASSUME NEW k \in Lineages
        PROVE  /\ versions'[k] \in Seq(RateCardRows) /\ Len(versions'[k]) <= MaxVersion
               /\ \A v \in 1..Len(versions'[k]) : versions'[k][v].version <= v
               /\ k \notin lineages' => versions'[k] = <<>>
    <3>1. CASE k = l
      BY <2>1, <2>3, <2>4, <2>5, <3>1, PricingBounds
    <3>2. CASE k # l
      BY <1>0, <2>1, <2>5, <3>2 DEF Count
    <3> QED BY <3>1, <3>2
  <2>7. RateTypes'
    BY <1>0, <2>1, <2>2, <2>5, <2>6 DEF Count
  <2>8. Grows
    BY <1>0, <1>1, <2>1, <2>2, <2>5 DEF Grows, Count
  <2> QED BY <2>7, <2>8
<1>5. ASSUME NEW s \in Sessions, CreateRateCard(s)
      PROVE  RateTypes' /\ Grows
  <2>1. PICK l \in Lineages \ lineages :
          lineages' = lineages \cup {l} /\ UNCHANGED <<lineageOf, versions>>
    BY <1>5 DEF CreateRateCard
  <2> QED BY <1>0, <1>1, <2>1 DEF Grows, Count
<1>6. ASSUME NEW s \in Sessions, InsertVersion(s)
      PROVE  RateTypes' /\ Grows
  <2> DEFINE l == call[s].lineage
             row == call[s].row
  <2>1. /\ l \in lineages /\ row \in [version : Nat \ {0}, supersedes : Nat, from : Dates]
        /\ row.version <= Count(l) + 1 /\ row.supersedes <= Count(l)
    <3>1. CallType(call[s]) /\ call[s].fn = "insertVersion"
      BY <1>6 DEF TypeInv, CallTypes, InsertVersion
    <3> QED BY <3>1 DEF CallType, NoCall
  <2>2. /\ Count(l) < MaxVersion /\ versions' = [versions EXCEPT ![l] = Append(versions[l], row)]
        /\ UNCHANGED <<lineageOf, lineages>>
    BY <1>6 DEF InsertVersion
  <2> DEFINE rows == Append(versions[l], row)
  <2> HIDE DEF l, row
  <2>3. /\ rows \in Seq(RateCardRows) /\ Len(rows) = Count(l) + 1 /\ Len(rows) <= MaxVersion
        /\ \A v \in 1..Len(rows) : rows[v].version <= v
        /\ \A v \in 1..Count(l) : rows[v] = versions[l][v]
    BY <1>0, <2>1, <2>2, AppendVersion
  <2>4. /\ DOMAIN versions' = Lineages /\ versions'[l] = rows
        /\ \A k \in Lineages : k # l => versions'[k] = versions[k]
    BY <1>0, <2>1, <2>2
  <2> HIDE DEF rows
  <2>5. ASSUME NEW k \in Lineages
        PROVE  /\ versions'[k] \in Seq(RateCardRows) /\ Len(versions'[k]) <= MaxVersion
               /\ \A v \in 1..Len(versions'[k]) : versions'[k][v].version <= v
               /\ k \notin lineages' => versions'[k] = <<>>
    <3>1. CASE k = l
      BY <2>1, <2>2, <2>3, <2>4, <3>1
    <3>2. CASE k # l
      BY <1>0, <2>2, <2>4, <3>2 DEF Count
    <3> QED BY <3>1, <3>2
  <2>6. RateTypes'
    BY <1>0, <2>2, <2>4, <2>5 DEF Count
  <2>7. Grows
    <3>1. ASSUME NEW k \in lineages
          PROVE  /\ Len(versions'[k]) \in Nat /\ Count(k) <= Len(versions'[k])
                 /\ \A v \in 1..Count(k) : versions'[k][v] = versions[k][v]
      <4>1. CASE k = l
        BY <1>0, <1>1, <2>1, <2>3, <2>4, <4>1
      <4>2. CASE k # l
        BY <1>0, <1>1, <2>4, <4>2 DEF Count
      <4> QED BY <4>1, <4>2
    <3> QED BY <2>2, <3>1 DEF Grows
  <2> QED BY <2>6, <2>7
<1> QED BY <1>2, <1>3, <1>4, <1>5, <1>6
        DEF Next, Step, vars, rateVars, ReviseRateCard, CreateShift, InsertShift, UpdateShift,
            WriteShift, DeleteShift, QueryLoads, RemoveLoad, ClearDone, InsertLoad, LoadsDone,
            RemoveShift, Abandon

\* What the record of a pending call holds, by the function that left it.
LEMMA PendingCall ==
  ASSUME TypeInv, NEW s \in Sessions
  PROVE  /\ call[s].fn = "createShift" => call[s].loads \in LoadCounts /\ IsShift(call[s].row)
         /\ call[s].fn = "updateShift" =>
              /\ call[s].loads \in LoadCounts /\ call[s].shift \in ShiftIds
              /\ IsPatch(call[s].patch)
         /\ call[s].fn = "query" =>
              call[s].shift \in ShiftIds /\ call[s].loads \in {Delete} \cup 0..MaxLoads
         /\ call[s].fn = "clear" =>
              call[s] \in [fn : {"clear"}, shift : ShiftIds, loads : {Delete} \cup 0..MaxLoads,
                           ids : SUBSET LoadIds]
         /\ call[s].fn = "insertLoads" =>
              call[s] \in [fn : {"insertLoads"}, shift : ShiftIds, save : 1..MaxSaves]
<1>1. CallType(call[s])
  BY DEF TypeInv, CallTypes
<1> QED BY <1>1 DEF CallType, NoCall

LEMMA ShiftKept ==
  ASSUME NEW row, IsShift(row), Grows
  PROVE  IsShift(row)'
BY DEF IsShift, Grows, Choices

LEMMA ShiftsStep ==
  ASSUME TypeInv, [Next]_vars
  PROVE  ShiftTypes'
<1> USE DEF ShiftTypes
<1>0. ShiftTypes /\ RateTypes /\ Grows
  BY RatesStep DEF TypeInv
<1>1. CASE UNCHANGED shiftVars
  BY <1>0, <1>1, ShiftKept DEF shiftVars
<1>2. ASSUME NEW s \in Sessions, InsertShift(s)
      PROVE  ShiftTypes'
  <2>1. PICK id \in ShiftIds :
          /\ shifts' = Insert(shifts, id, call[s].row)
          /\ known' = Insert(known, id, call[s].seen)
    BY <1>2 DEF InsertShift
  <2>2. IsShift(call[s].row)
    BY <1>2, PendingCall DEF InsertShift
  <2>3. \A i \in DOMAIN shifts' : IsShift(shifts'[i])
    BY <1>0, <2>1, <2>2 DEF Insert
  <2> QED BY <1>0, <2>1, <2>3, ShiftKept DEF Insert
<1>3. ASSUME NEW s \in Sessions, WriteShift(s)
      PROVE  ShiftTypes'
  <2> DEFINE id == call[s].shift
             row == Merge(shifts[id], call[s].patch)
  <2>1. /\ id \in DOMAIN shifts /\ shifts' = [shifts EXCEPT ![id] = row]
        /\ DOMAIN known' = DOMAIN known
    BY <1>3 DEF WriteShift
  <2>2. IsShift(row)
    BY <1>0, <1>3, <2>1, PendingCall, MergedRow DEF WriteShift
  <2> HIDE DEF id, row
  <2>3. \A i \in DOMAIN shifts' : IsShift(shifts'[i])
    BY <1>0, <2>1, <2>2
  <2> QED BY <1>0, <2>1, <2>3, ShiftKept
<1>4. ASSUME NEW s \in Sessions, RemoveShift(s)
      PROVE  ShiftTypes'
  BY <1>0, <1>4, ShiftKept DEF RemoveShift, Remove
<1> QED BY <1>1, <1>2, <1>3, <1>4
        DEF Next, Step, vars, shiftVars, AssignmentCreated, CreateSoloWorkContext, CreateRateCard,
            ReviseRateCard, InsertVersion, CreateShift, UpdateShift, DeleteShift, QueryLoads,
            RemoveLoad, ClearDone, InsertLoad, LoadsDone, Abandon

LEMMA LoadsStep ==
  ASSUME TypeInv, [Next]_vars
  PROVE  LoadTypes'
<1> USE DEF LoadTypes
<1>0. LoadTypes
  BY DEF TypeInv
<1>1. CASE UNCHANGED loadVars
  BY <1>0, <1>1 DEF loadVars
<1>2. ASSUME NEW s \in Sessions, QueryLoads(s)
      PROVE  LoadTypes'
  <2>1. LoadsOf(call[s].shift) \subseteq LoadIds
    BY <1>0 DEF LoadsOf
  <2>2. DOMAIN sent' = DOMAIN sent /\ \A i \in DOMAIN sent' : sent'[i] \in LoadRows
    BY <1>0, <1>2 DEF QueryLoads, Missed, LoadRows
  <2> QED BY <1>0, <1>2, <2>1, <2>2 DEF QueryLoads
<1>3. CASE RemoveLoad
  BY <1>0, <1>3 DEF RemoveLoad, Remove
<1>4. ASSUME NEW s \in Sessions, ClearDone(s)
      PROVE  LoadTypes'
  <2>1. PICK ids \in SUBSET LoadIds :
          sent' = [i \in DOMAIN sent \cup ids |->
                   IF i \in ids THEN [shift |-> call[s].shift, save |-> saves', missed |-> FALSE]
                               ELSE sent[i]]
    BY <1>4 DEF ClearDone
  <2>2. call[s].shift \in ShiftIds
    BY <1>4, PendingCall DEF ClearDone, Cleared
  <2>3. saves' \in 1..MaxSaves /\ UNCHANGED <<loads, removing>>
    BY <1>0, <1>4, PricingBounds DEF ClearDone
  <2>4. [shift |-> call[s].shift, save |-> saves', missed |-> FALSE] \in LoadRows
    BY <2>2, <2>3 DEF LoadRows
  <2>5. DOMAIN sent' \subseteq LoadIds /\ \A i \in DOMAIN sent' : sent'[i] \in LoadRows
    BY <1>0, <2>1, <2>4
  <2> QED BY <1>0, <2>3, <2>5
<1>5. CASE InsertLoad
  BY <1>0, <1>5 DEF InsertLoad, Insert, Remove
<1>6. ASSUME NEW s \in Sessions, Abandon(s)
      PROVE  LoadTypes'
  BY <1>0, <1>6 DEF Abandon
<1> QED BY <1>1, <1>2, <1>3, <1>4, <1>5, <1>6
        DEF Next, Step, vars, loadVars, AssignmentCreated, CreateSoloWorkContext, CreateRateCard,
            ReviseRateCard, InsertVersion, CreateShift, InsertShift, UpdateShift, WriteShift,
            DeleteShift, LoadsDone, RemoveShift

LEMMA RateCardIsThere ==
  ASSUME RateTypes, NEW a \in Choices, NEW d \in Dates
  PROVE  RateCardFor(a, d) \in 0..MaxVersion
<1>1. CASE a = NoAssignment
  BY <1>1, PricingBounds DEF RateCardFor, None
<1>2. CASE a # NoAssignment
  <2> DEFINE l == lineageOf[a]
             e == Effective(l, d)
  <2>1. l \in Lineages
    BY <1>2 DEF Choices, RateTypes
  <2> HIDE DEF l
  <2>2. e = 0 \/ e \in 1..Count(l)
    BY <2>1, EffectiveVersion
  <2> HIDE DEF e
  <2>3. Count(l) \in Nat /\ Count(l) <= MaxVersion
    BY <2>1, VersionRows DEF RateTypes
  <2>4. e \in 0..MaxVersion
    BY <2>2, <2>3, PricingBounds
  <2> QED BY <1>2, <2>4 DEF RateCardFor, l, e
<1> QED BY <1>1, <1>2

\* What updateShift read and resolved, and the patch it will write.
LEMMA ResolvedPatch ==
  ASSUME RateTypes, NEW existing, IsShift(existing),
         NEW a \in Choices, NEW d \in Dates, NEW fields \in SUBSET {"date", "assignment"},
         NEW patch, patch = [k \in fields |-> IF k = "date" THEN d ELSE a],
         NEW final,
         final = [k \in fields \cup (IF ContextChanged(existing, patch) THEN {"rateCard"} ELSE {})
                    |-> Resolved(existing, patch)[k]]
  PROVE  LET row == Resolved(existing, patch)
         IN /\ IsPatch(final) /\ IsShift(row)
            /\ Merge(existing, final) = row
            /\ "rateCard" \in DOMAIN final <=> ContextChanged(existing, patch)
            /\ IF ContextChanged(existing, patch)
                 THEN /\ row.rateCard = RateCardFor(row.assignment, row.date)
                      /\ row.date # existing.date \/ row.assignment # existing.assignment
                 ELSE row = existing
<1> DEFINE next == Merge(existing, patch)
           row  == Resolved(existing, patch)
<1>1. IsPatch(patch) /\ DOMAIN patch = fields
  BY DEF IsPatch
<1>2. /\ IsShift(next)
      /\ next.assignment = IF "assignment" \in fields THEN a ELSE existing.assignment
      /\ next.date = IF "date" \in fields THEN d ELSE existing.date
      /\ next.rateCard = existing.rateCard
  BY <1>1, MergedRow
<1>3. ContextChanged(existing, patch) <=> next # existing
  BY DEF ContextChanged
<1>4. IF ContextChanged(existing, patch)
        THEN row = [next EXCEPT !.rateCard = RateCardFor(next.assignment, next.date)]
        ELSE row = next
  BY DEF Resolved
<1> HIDE DEF next, row
<1>5. RateCardFor(next.assignment, next.date) \in 0..MaxVersion
  BY <1>2, RateCardIsThere DEF IsShift, ShiftRows
<1>6. /\ IsShift(row) /\ row.assignment = next.assignment /\ row.date = next.date
      /\ ~ContextChanged(existing, patch) => row = existing
      /\ ContextChanged(existing, patch) =>
           row.rateCard = RateCardFor(row.assignment, row.date)
  BY <1>2, <1>3, <1>4, <1>5 DEF IsShift, ShiftRows
<1>7. ContextChanged(existing, patch) =>
        row.date # existing.date \/ row.assignment # existing.assignment
  BY <1>2, <1>3, <1>6 DEF IsShift, ShiftRows
<1>8. /\ DOMAIN final = fields \cup (IF ContextChanged(existing, patch) THEN {"rateCard"} ELSE {})
      /\ \A k \in DOMAIN final : final[k] = row[k]
  BY DEF row
<1>9. IsPatch(final)
  BY <1>6, <1>8 DEF IsPatch, IsShift, ShiftRows
<1>10. \A k \in {"assignment", "date", "rateCard"} \ DOMAIN final : row[k] = existing[k]
  BY <1>2, <1>6, <1>8
<1>11. Merge(existing, final) = row
  <2>1. /\ DOMAIN existing = {"assignment", "date", "rateCard"}
        /\ row = [k \in {"assignment", "date", "rateCard"} |-> row[k]]
    BY <1>6 DEF IsShift, ShiftRows
  <2>2. \A k \in DOMAIN existing :
          (IF k \in DOMAIN final THEN final[k] ELSE existing[k]) = row[k]
    BY <1>8, <1>10, <2>1
  <2> QED BY <2>1, <2>2 DEF Merge
<1> QED BY <1>6, <1>7, <1>8, <1>9, <1>11 DEF row

\* A pending call stays well typed while rate cards are added to.
LEMMA CallKept ==
  ASSUME RateTypes, NEW c, CallType(c), Grows
  PROVE  CallType(c)'
<1>1. CASE c.fn = "insertVersion"
  <2>1. /\ c.lineage \in lineages
        /\ c.row \in [version : Nat \ {0}, supersedes : Nat, from : Dates]
        /\ c.row.version <= Count(c.lineage) + 1 /\ c.row.supersedes <= Count(c.lineage)
    BY <1>1 DEF CallType, NoCall
  <2>2. /\ c.lineage \in lineages' /\ Count(c.lineage) <= Count(c.lineage)'
        /\ Count(c.lineage) \in Nat /\ Count(c.lineage)' \in Nat
    BY <2>1, VersionRows DEF Grows, Count, RateTypes
  <2>3. c.row.version <= Count(c.lineage)' + 1 /\ c.row.supersedes <= Count(c.lineage)'
    <3>1. c.row.version \in Nat /\ c.row.supersedes \in Nat
      BY <2>1
    <3> QED BY <2>1, <2>2, <3>1
  <2> QED BY <1>1, <2>1, <2>2, <2>3 DEF CallType
<1>2. CASE c.fn = "createShift"
  BY <1>2, ShiftKept DEF CallType, NoCall
<1>3. CASE c.fn = "updateShift"
  BY <1>3 DEF CallType, NoCall, IsPatch, Choices, Grows
<1>4. CASE c.fn \notin {"insertVersion", "createShift", "updateShift"}
  BY <1>4 DEF CallType
<1> QED BY <1>1, <1>2, <1>3, <1>4

LEMMA LoadChoicesType == LoadChoices \subseteq LoadCounts
BY DEF LoadChoices, LoadCounts

\* What a read step leaves behind.
LEMMA ReadTypes ==
  ASSUME TypeInv, NEW s \in Sessions,
         ReviseRateCard(s) \/ CreateShift(s) \/ UpdateShift(s) \/ DeleteShift(s) \/ QueryLoads(s)
  PROVE  \E c : CallType(c) /\ call' = [call EXCEPT ![s] = c]
<1> USE DEF Continue
<1>0. RateTypes /\ ShiftTypes /\ LoadTypes
  BY DEF TypeInv
<1>1. CASE ReviseRateCard(s)
  <2>a. PICK l \in lineages, d \in Dates : \E latest \in DOMAIN versions[l] :
          call' = [call EXCEPT ![s] = [fn |-> "insertVersion", lineage |-> l,
                                       row |-> Revision(l, latest, d)]]
    BY <1>1 DEF ReviseRateCard
  <2>1. PICK latest \in DOMAIN versions[l] :
          call' = [call EXCEPT ![s] = [fn |-> "insertVersion", lineage |-> l,
                                       row |-> Revision(l, latest, d)]]
    BY <2>a
  <2>2. l \in Lineages /\ latest \in 1..Count(l) /\ Count(l) \in Nat
    BY <1>0, VersionRows DEF RateTypes
  <2>3. versions[l][latest].version \in 1..MaxVersion /\ versions[l][latest].version <= latest
    BY <1>0, <2>2, VersionRows DEF RateTypes, RateCardRows
  <2> DEFINE row == Revision(l, latest, d)
  <2>4. row = [version |-> versions[l][latest].version + 1, supersedes |-> latest, from |-> d]
    BY DEF Revision
  <2> HIDE DEF row
  <2>5. /\ row \in [version : Nat \ {0}, supersedes : Nat, from : Dates]
        /\ row.version <= Count(l) + 1 /\ row.supersedes <= Count(l)
    BY <2>2, <2>3, <2>4
  <2>6. CallType([fn |-> "insertVersion", lineage |-> l, row |-> row])
    BY <2>5 DEF CallType
  <2> QED BY <2>1, <2>6 DEF row
<1>2. CASE CreateShift(s)
  <2>1. PICK a \in Choices, d \in Dates, n \in LoadChoices :
          call' = [call EXCEPT ![s] =
            [fn |-> "createShift", loads |-> n, seen |-> VersionsFor(a),
             row |-> [assignment |-> a, date |-> d, rateCard |-> RateCardFor(a, d)]]]
    BY <1>2 DEF CreateShift
  <2>2. IsShift([assignment |-> a, date |-> d, rateCard |-> RateCardFor(a, d)])
    BY <1>0, RateCardIsThere DEF IsShift, ShiftRows, Choices, RateTypes
  <2> QED BY <2>1, <2>2, LoadChoicesType DEF CallType
<1>3. CASE UpdateShift(s)
  <2>1. PICK id \in DOMAIN shifts, n \in LoadChoices, d \in Dates, a \in Choices,
             fields \in SUBSET {"date", "assignment"} :
          LET existing == shifts[id]
              patch == [k \in fields |-> IF k = "date" THEN d ELSE a]
              row   == Resolved(existing, patch)
              written == fields \cup (IF ContextChanged(existing, patch) THEN {"rateCard"} ELSE {})
          IN call' = [call EXCEPT ![s] =
               [fn |-> "updateShift", shift |-> id, loads |-> n,
                patch |-> [k \in written |-> row[k]], seen |-> VersionsFor(row.assignment)]]
    BY <1>3 DEF UpdateShift
  <2> DEFINE existing == shifts[id]
             patch == [k \in fields |-> IF k = "date" THEN d ELSE a]
             row   == Resolved(existing, patch)
             written == fields \cup (IF ContextChanged(existing, patch) THEN {"rateCard"} ELSE {})
             final == [k \in written |-> row[k]]
  <2>2. IsShift(existing) /\ id \in ShiftIds
    BY <1>0 DEF ShiftTypes
  <2>3. IsPatch(final)
    <3>1. /\ patch = [k \in fields |-> IF k = "date" THEN d ELSE a]
          /\ final = [k \in fields \cup (IF ContextChanged(existing, patch) THEN {"rateCard"} ELSE {})
                        |-> Resolved(existing, patch)[k]]
      OBVIOUS
    <3> HIDE DEF patch, final, existing
    <3> QED BY <1>0, <2>2, <3>1, ResolvedPatch
  <2>4. call' = [call EXCEPT ![s] =
               [fn |-> "updateShift", shift |-> id, loads |-> n,
                patch |-> final, seen |-> VersionsFor(row.assignment)]]
    BY <2>1
  <2> HIDE DEF final, row
  <2>5. CallType([fn |-> "updateShift", shift |-> id, loads |-> n,
                  patch |-> final, seen |-> VersionsFor(row.assignment)])
    BY <2>2, <2>3, LoadChoicesType DEF CallType
  <2> QED BY <2>4, <2>5
<1>4. CASE DeleteShift(s)
  <2>1. PICK id \in DOMAIN shifts :
          call' = [call EXCEPT ![s] = [fn |-> "query", shift |-> id, loads |-> Delete]]
    BY <1>4 DEF DeleteShift
  <2>2. CallType([fn |-> "query", shift |-> id, loads |-> Delete])
    BY <1>0 DEF CallType, ShiftTypes
  <2> QED BY <2>1, <2>2
<1>5. CASE QueryLoads(s)
  <2> DEFINE c == [fn |-> "clear", shift |-> call[s].shift, loads |-> call[s].loads,
                   ids |-> LoadsOf(call[s].shift)]
  <2>1. LoadsOf(call[s].shift) \subseteq LoadIds
    BY <1>0 DEF LoadsOf, LoadTypes
  <2>2. call[s].shift \in ShiftIds /\ call[s].loads \in {Delete} \cup 0..MaxLoads
    BY <1>5, PendingCall DEF QueryLoads
  <2>3. CallType(c)
    BY <2>1, <2>2 DEF CallType
  <2> QED BY <1>5, <2>3 DEF QueryLoads
<1> QED BY <1>1, <1>2, <1>3, <1>4, <1>5

\* What a write step leaves behind.
LEMMA WriteTypes ==
  ASSUME TypeInv, NEW s \in Sessions,
         \/ InsertVersion(s) \/ InsertShift(s) \/ WriteShift(s) \/ ClearDone(s)
         \/ LoadsDone(s) \/ RemoveShift(s) \/ Abandon(s)
  PROVE  \E c : CallType(c) /\ call' = [call EXCEPT ![s] = c]
<1> USE DEF Continue
<1>0. CallType(NoCall)
  BY DEF CallType
<1>1. CASE InsertVersion(s) \/ LoadsDone(s) \/ RemoveShift(s) \/ Abandon(s)
  BY <1>0, <1>1 DEF InsertVersion, LoadsDone, RemoveShift, Abandon, Return
<1>2. ASSUME NEW id \in ShiftIds, NEW n \in LoadCounts, ThenLoads(s, id, n)
      PROVE  \E c : CallType(c) /\ call' = [call EXCEPT ![s] = c]
  <2>1. n # KeepLoads => CallType([fn |-> "query", shift |-> id, loads |-> n])
    BY DEF CallType, LoadCounts
  <2> QED BY <1>0, <1>2, <2>1 DEF ThenLoads, Return
<1>3. CASE InsertShift(s)
  BY <1>2, <1>3, PendingCall DEF InsertShift
<1>4. CASE WriteShift(s)
  BY <1>2, <1>4, PendingCall DEF WriteShift
<1>5. CASE ClearDone(s)
  <2>1. call[s].shift \in ShiftIds
    BY <1>5, PendingCall DEF ClearDone, Cleared
  <2>2. saves + 1 \in 1..MaxSaves
    BY <1>5, PricingBounds DEF ClearDone, TypeInv, LoadTypes
  <2>3. CallType([fn |-> "insertLoads", shift |-> call[s].shift, save |-> saves + 1])
    BY <2>1, <2>2 DEF CallType
  <2> QED BY <1>5, <2>3 DEF ClearDone
<1> QED BY <1>1, <1>3, <1>4, <1>5

LEMMA CallsStep ==
  ASSUME TypeInv, [Next]_vars
  PROVE  CallTypes'
<1>0. RateTypes /\ Grows /\ DOMAIN call = Sessions /\ \A t \in Sessions : CallType(call[t])
  BY RatesStep DEF TypeInv, CallTypes
<1>1. ASSUME NEW s \in Sessions, NEW c, CallType(c), call' = [call EXCEPT ![s] = c]
      PROVE  CallTypes'
  <2>1. DOMAIN call' = Sessions /\ \A t \in Sessions : CallType(call'[t])
    BY <1>0, <1>1
  <2> QED BY <1>0, <2>1, CallKept DEF CallTypes
<1>2. CASE UNCHANGED call
  BY <1>0, <1>2, CallKept DEF CallTypes
<1>3. ASSUME NEW s \in Sessions, CreateRateCard(s)
      PROVE  CallTypes'
  <2>1. PICK l \in Lineages \ lineages, d \in Dates :
          /\ lineages' = lineages \cup {l} /\ UNCHANGED <<lineageOf, versions>>
          /\ call' = [call EXCEPT ![s] =
               [fn |-> "insertVersion", lineage |-> l,
                row |-> [version |-> 1, supersedes |-> None, from |-> d]]]
    BY <1>3 DEF CreateRateCard, Continue
  <2> DEFINE row == [version |-> 1, supersedes |-> None, from |-> d]
             c   == [fn |-> "insertVersion", lineage |-> l, row |-> row]
  <2>2. /\ row \in [version : Nat \ {0}, supersedes : Nat, from : Dates]
        /\ row.version = 1 /\ row.supersedes = 0
    BY DEF None
  <2>3. Count(l)' \in Nat
    BY <1>0, <2>1, VersionRows DEF Count
  <2> HIDE DEF row
  <2>4. CallType(c)'
    BY <2>1, <2>2, <2>3 DEF CallType
  <2>5. DOMAIN call' = Sessions /\ \A t \in Sessions : t # s => call'[t] = call[t]
    BY <1>0, <2>1
  <2>6. call'[s] = c
    BY <1>0, <2>1 DEF row
  <2> HIDE DEF c
  <2>7. \A t \in Sessions : CallType(call[t])'
    <3>1. ASSUME NEW t \in Sessions PROVE CallType(call[t])'
      <4>1. CASE t = s
        BY <2>4, <2>6, <4>1 DEF CallType, Count, LoadCounts, IsShift, IsPatch, Choices
      <4>2. CASE t # s
        BY <1>0, <2>5, <4>2, CallKept
      <4> QED BY <4>1, <4>2
    <3> QED BY <3>1
  <2> QED BY <2>5, <2>7 DEF CallTypes
<1> QED BY <1>1, <1>2, <1>3, ReadTypes, WriteTypes
        DEF Next, Step, vars, AssignmentCreated, CreateSoloWorkContext, RemoveLoad, InsertLoad

LEMMA TypeStep ==
  ASSUME TypeInv, [Next]_vars
  PROVE  TypeInv'
BY RatesStep, ShiftsStep, LoadsStep, CallsStep DEF TypeInv

LEMMA TypeInitially ==
  ASSUME Init
  PROVE  TypeInv
<1>1. <<>> \in Seq(RateCardRows) /\ Len(<<>>) = 0
  OBVIOUS
<1>2. DOMAIN EmptyTable = {}
  BY DEF EmptyTable
<1>3. RateTypes
  BY <1>1, <1>2, PricingBounds DEF Init, RateTypes, Count
<1>4. ShiftTypes /\ LoadTypes /\ CallTypes
  BY <1>2, PricingBounds DEF Init, ShiftTypes, LoadTypes, CallTypes, CallType
<1> QED BY <1>3, <1>4 DEF TypeInv

-------------------------------------------------------------------------------
(***************************************************************************)
(* How shifts are priced                                                   *)
(***************************************************************************)

\* A pin stays right while rate cards are added to.
LEMMA PinnedKept ==
  ASSUME RateTypes, Grows, NEW row, NEW k, Pinned(row, k)
  PROVE  Pinned(row, k)'
<1>1. CASE row.assignment = NoAssignment
  BY <1>1 DEF Pinned
<1>2. CASE row.assignment # NoAssignment
  <2> DEFINE l == lineageOf[row.assignment]
             before == {v \in 1..k : versions[l][v].from <= row.date}
             after  == {v \in 1..k : versions'[l][v].from <= row.date}
  <2>1. /\ row.assignment \in DOMAIN lineageOf /\ l \in lineages /\ l \in Lineages
        /\ k \in 0..Count(l) /\ row.rateCard \in 0..k /\ row.rateCard = Cardinality(before)
    BY <1>2 DEF Pinned, RateTypes
  <2>2. row.assignment \in DOMAIN lineageOf' /\ lineageOf'[row.assignment] = l
    BY <2>1 DEF Grows
  <2>3. /\ Count(l) \in Nat /\ Len(versions'[l]) \in Nat /\ Count(l) <= Len(versions'[l])
        /\ \A v \in 1..Count(l) : versions'[l][v] = versions[l][v]
    BY <2>1, VersionRows DEF Grows
  <2>4. \A v \in 1..k : versions'[l][v] = versions[l][v]
    BY <2>1, <2>3
  <2>5. before = after
    BY <2>4
  <2>6. k \in 0..Len(versions'[l])
    BY <2>1, <2>3
  <2> HIDE DEF l, before, after
  <2>7. row.rateCard = Cardinality(after)
    BY <2>1, <2>5
  <2>8. row.rateCard = Cardinality({v \in 1..k : versions'[l][v].from <= row.date})
    BY <2>7 DEF after
  <2> QED BY <1>2, <2>1, <2>2, <2>6, <2>8 DEF Pinned, Count
<1> QED BY <1>1, <1>2

\* A pin resolved now is right for the versions there are.
LEMMA PinnedNow ==
  ASSUME RateTypes, \A l \in Lineages : Chained(versions[l]),
         NEW row, IsShift(row), row.rateCard = RateCardFor(row.assignment, row.date)
  PROVE  Pinned(row, VersionsFor(row.assignment))
<1>1. CASE row.assignment = NoAssignment
  BY <1>1 DEF Pinned, RateCardFor
<1>2. CASE row.assignment # NoAssignment
  <2> DEFINE l == lineageOf[row.assignment]
  <2>1. row.assignment \in DOMAIN lineageOf /\ l \in Lineages /\ row.date \in Dates
    BY <1>2 DEF IsShift, Choices, RateTypes, ShiftRows
  <2>2. row.rateCard = Effective(l, row.date) /\ VersionsFor(row.assignment) = Count(l)
    BY <1>2 DEF RateCardFor, VersionsFor
  <2> HIDE DEF l
  <2>3. /\ row.rateCard \in 0..Count(l)
        /\ row.rateCard = Cardinality({v \in 1..Count(l) : versions[l][v].from <= row.date})
    BY <2>1, <2>2, EffectiveIsCount
  <2>4. Count(l) \in 0..Count(l)
    BY <2>1, VersionRows
  <2> QED BY <1>2, <2>1, <2>2, <2>3, <2>4 DEF Pinned, l
<1> QED BY <1>1, <1>2

\* reviseRateCard takes the last version for the latest, and continues the chain.
LEMMA RevisionContinues ==
  ASSUME RateTypes, NEW l \in Lineages, Chained(versions[l]), NEW d \in Dates,
         NEW latest \in DOMAIN versions[l],
         \A v \in DOMAIN versions[l] : versions[l][v].from <= versions[l][latest].from,
         d > versions[l][latest].from
  PROVE  Chained(Append(versions[l], Revision(l, latest, d)))
<1> DEFINE n    == Count(l)
           row  == Revision(l, latest, d)
           rows == Append(versions[l], row)
<1>1. /\ versions[l] \in Seq(RateCardRows) /\ DOMAIN versions[l] = 1..n /\ n \in Nat
      /\ n = Len(versions[l]) /\ \A v \in 1..n : versions[l][v].from \in 1..MaxDate
  BY VersionRows DEF Count
<1>2. latest = n
  <2>1. ~(latest < n)
    <3>1. ASSUME latest < n
          PROVE  FALSE
      <4>1. n \in 1..n /\ latest \in 1..n
        BY <1>1, <3>1
      <4>2. versions[l][latest].from < versions[l][n].from
        BY <1>1, <3>1, <4>1 DEF Chained
      <4>3. versions[l][n].from <= versions[l][latest].from
        BY <1>1, <4>1
      <4> QED BY <1>1, <4>1, <4>2, <4>3
    <3> QED BY <3>1
  <2> QED BY <1>1, <2>1
<1>3. /\ row = [version |-> versions[l][latest].version + 1, supersedes |-> latest, from |-> d]
      /\ d \in 1..MaxDate
  BY DEF Revision, Dates
<1>4. row.version = n + 1 /\ row.supersedes = n /\ row.from = d
  BY <1>1, <1>2, <1>3 DEF Chained
<1> HIDE DEF n, row
<1>5. /\ DOMAIN rows = 1..(n + 1) /\ rows[n + 1] = row
      /\ \A v \in 1..n : rows[v] = versions[l][v]
  BY <1>1
<1> HIDE DEF rows
<1>6. \A v \in 1..(n + 1) : v \in 1..n \/ v = n + 1
  BY <1>1
<1>7. \A v \in DOMAIN rows : rows[v].version = v /\ rows[v].supersedes = v - 1
  BY <1>1, <1>4, <1>5, <1>6 DEF Chained
<1>8. ASSUME NEW v \in DOMAIN rows, NEW w \in DOMAIN rows, v < w
      PROVE  rows[v].from < rows[w].from
  <2>1. v \in 1..n /\ rows[v] = versions[l][v]
    BY <1>1, <1>5, <1>6, <1>8
  <2>2. CASE w \in 1..n
    BY <1>1, <1>5, <1>8, <2>1, <2>2 DEF Chained
  <2>3. CASE w = n + 1
    <3>1. versions[l][v].from <= versions[l][latest].from /\ versions[l][latest].from < d
      BY <1>1, <2>1
    <3> QED BY <1>1, <1>2, <1>3, <1>4, <1>5, <2>1, <2>3, <3>1
  <2> QED BY <1>5, <1>6, <2>2, <2>3
<1> QED BY <1>7, <1>8 DEF Chained, rows, row

LEMMA FirstVersionIsChained ==
  ASSUME NEW d
  PROVE  LET row == [version |-> 1, supersedes |-> None, from |-> d]
         IN Chained(<<row>>) /\ Chained(Append(<<>>, row))
<1> DEFINE row == [version |-> 1, supersedes |-> None, from |-> d]
<1>1. row.version = 1 /\ row.supersedes = 0
  BY DEF None
<1> HIDE DEF row
<1>2. /\ DOMAIN <<row>> = 1..1 /\ <<row>>[1] = row
      /\ Append(<<>>, row) = <<row>>
  OBVIOUS
<1>3. \A v \in 1..1 : v = 1
  OBVIOUS
<1>4. Chained(<<row>>)
  BY <1>1, <1>2, <1>3 DEF Chained
<1> QED BY <1>2, <1>4 DEF row

LEMMA PricingStep ==
  ASSUME TypeInv, Undisturbed, [Next]_vars
  PROVE  Pricing'
<1>0. /\ RateTypes /\ ShiftTypes /\ Grows /\ Pricing
      /\ \A s \in Sessions : Reliable(call[s])
  BY RatesStep DEF TypeInv, Undisturbed
<1>1. \A l \in Lineages : Chained(versions'[l])
  <2>1. CASE UNCHANGED versions
    BY <1>0, <2>1 DEF Pricing
  <2>2. CASE CreateSoloWorkContext
    <3>1. PICK l \in Lineages \ lineages, d \in Dates :
            versions' = [versions EXCEPT ![l] =
              <<[version |-> 1, supersedes |-> None, from |-> d]>>]
      BY <2>2 DEF CreateSoloWorkContext
    <3> DEFINE rows == <<[version |-> 1, supersedes |-> None, from |-> d]>>
    <3>2. Chained(rows)
      BY FirstVersionIsChained
    <3> HIDE DEF rows
    <3>3. \A k \in Lineages : versions'[k] = IF k = l THEN rows ELSE versions[k]
      BY <1>0, <3>1 DEF RateTypes, rows
    <3> QED BY <1>0, <3>2, <3>3 DEF Pricing
  <2>3. ASSUME NEW s \in Sessions, InsertVersion(s)
        PROVE  \A l \in Lineages : Chained(versions'[l])
    <3> DEFINE rows == Append(versions[call[s].lineage], call[s].row)
    <3>1. Chained(rows) /\ versions' = [versions EXCEPT ![call[s].lineage] = rows]
      BY <1>0, <2>3 DEF Reliable, InsertVersion
    <3> HIDE DEF rows
    <3>2. \A k \in Lineages : versions'[k] = IF k = call[s].lineage THEN rows ELSE versions[k]
      BY <1>0, <3>1 DEF RateTypes
    <3> QED BY <1>0, <3>1, <3>2 DEF Pricing
  <2> QED BY <2>1, <2>2, <2>3
          DEF Next, Step, vars, AssignmentCreated, CreateRateCard, rateVars,
              ReviseRateCard, CreateShift, InsertShift, UpdateShift, WriteShift, DeleteShift,
              QueryLoads, RemoveLoad, ClearDone, InsertLoad, LoadsDone, RemoveShift, Abandon
<1>2. \A i \in DOMAIN shifts' : Pinned(shifts'[i], known'[i])
  <2>1. CASE UNCHANGED shiftVars
    BY <1>0, <2>1 DEF Pricing, shiftVars
  <2>2. ASSUME NEW s \in Sessions, InsertShift(s)
        PROVE  \A i \in DOMAIN shifts' : Pinned(shifts'[i], known'[i])
    <3>1. PICK id \in ShiftIds \ DOMAIN shifts :
            /\ shifts' = Insert(shifts, id, call[s].row)
            /\ known' = Insert(known, id, call[s].seen)
      BY <2>2 DEF InsertShift
    <3>2. Pinned(call[s].row, call[s].seen)
      BY <1>0, <2>2 DEF Reliable, InsertShift
    <3>3. /\ DOMAIN shifts' = DOMAIN shifts \cup {id}
          /\ shifts'[id] = call[s].row /\ known'[id] = call[s].seen
          /\ \A i \in DOMAIN shifts : shifts'[i] = shifts[i] /\ known'[i] = known[i]
      BY <1>0, <3>1 DEF Insert, ShiftTypes
    <3> QED BY <1>0, <3>2, <3>3 DEF Pricing
  <2>3. ASSUME NEW s \in Sessions, WriteShift(s)
        PROVE  \A i \in DOMAIN shifts' : Pinned(shifts'[i], known'[i])
    <3> DEFINE id == call[s].shift
               row == Merge(shifts[id], call[s].patch)
    <3>1. /\ id \in DOMAIN shifts /\ shifts' = [shifts EXCEPT ![id] = row]
          /\ known' = IF "rateCard" \in DOMAIN call[s].patch
                        THEN [known EXCEPT ![id] = call[s].seen] ELSE known
      BY <2>3 DEF WriteShift
    <3>2. IF "rateCard" \in DOMAIN call[s].patch
            THEN Pinned(row, call[s].seen) ELSE row = shifts[id]
      BY <1>0, <2>3 DEF Reliable, WriteShift
    <3> HIDE DEF id, row
    <3>3. /\ DOMAIN shifts' = DOMAIN shifts /\ shifts'[id] = row
          /\ \A i \in DOMAIN shifts : i # id => shifts'[i] = shifts[i] /\ known'[i] = known[i]
          /\ known'[id] = IF "rateCard" \in DOMAIN call[s].patch THEN call[s].seen ELSE known[id]
      BY <1>0, <3>1 DEF ShiftTypes
    <3>4. Pinned(shifts'[id], known'[id])
      BY <1>0, <3>1, <3>2, <3>3 DEF Pricing
    <3> QED BY <1>0, <3>3, <3>4 DEF Pricing
  <2>4. ASSUME NEW s \in Sessions, RemoveShift(s)
        PROVE  \A i \in DOMAIN shifts' : Pinned(shifts'[i], known'[i])
    BY <1>0, <2>4 DEF RemoveShift, Remove, Pricing, ShiftTypes
  <2> QED BY <2>1, <2>2, <2>3, <2>4
        DEF Next, Step, vars, shiftVars, AssignmentCreated, CreateSoloWorkContext, CreateRateCard,
            ReviseRateCard, InsertVersion, CreateShift, UpdateShift, DeleteShift, QueryLoads,
            RemoveLoad, ClearDone, InsertLoad, LoadsDone, Abandon
<1>3. ASSUME NEW i \in DOMAIN shifts'
      PROVE  Pinned(shifts[i], known[i])'
  <2>1. PICK row, k : row = shifts'[i] /\ k = known'[i]
    OBVIOUS
  <2>2. Pinned(row, k)'
    BY <1>0, <1>2, <2>1, PinnedKept
  <2> QED BY <2>1, <2>2 DEF Pinned, Count
<1> QED BY <1>1, <1>3 DEF Pricing, Chained

-------------------------------------------------------------------------------
(***************************************************************************)
(* Loads, and what a pending call may rely on                              *)
(***************************************************************************)

\* replaceLoadsForShift clears before it inserts, and loads are removed before their
\* shift is.
LEMMA LoadsInStepKept ==
  ASSUME TypeInv, Undisturbed, [Next]_vars
  PROVE  LoadsInStep'
<1> USE DEF LoadsInStep, Together
<1>0. /\ LoadsInStep /\ \A s \in Sessions : Reliable(call[s]) /\ Queried(call[s])
      /\ LoadTypes
  BY DEF Undisturbed, TypeInv
<1>1. CASE UNCHANGED <<loads, sent>> /\ DOMAIN shifts \subseteq DOMAIN shifts'
  BY <1>0, <1>1 DEF Due
<1>2. ASSUME NEW s \in Sessions, QueryLoads(s)
      PROVE  LoadsInStep'
  <2>1. /\ UNCHANGED <<loads, shifts>>
        /\ sent' = [i \in DOMAIN sent |->
                    [sent[i] EXCEPT !.missed = @ \/ sent[i].shift = call[s].shift]]
    BY <1>2 DEF QueryLoads, Missed, shiftVars
  <2>2. \A i \in Due(sent') :
          i \in Due(sent) /\ sent'[i].shift = sent[i].shift /\ sent'[i].save = sent[i].save
    BY <1>0, <2>1 DEF Due, LoadTypes, LoadRows
  <2> QED BY <1>0, <2>1, <2>2 DEF Due
<1>3. CASE RemoveLoad
  <2>1. UNCHANGED <<sent, shifts>> /\ \A i \in DOMAIN loads' : i \in DOMAIN loads /\ loads'[i] = loads[i]
    BY <1>3 DEF RemoveLoad, Remove, shiftVars
  <2> QED BY <1>0, <2>1 DEF Due
<1>4. ASSUME NEW s \in Sessions, ClearDone(s)
      PROVE  LoadsInStep'
  <2>1. PICK ids :
          sent' = [i \in DOMAIN sent \cup ids |->
                   IF i \in ids THEN [shift |-> call[s].shift, save |-> saves', missed |-> FALSE]
                               ELSE sent[i]]
    BY <1>4 DEF ClearDone
  <2>2. /\ call[s].fn = "clear" /\ call[s].ids \cap removing = {}
        /\ UNCHANGED <<loads, shifts>>
    BY <1>4 DEF ClearDone, Cleared, shiftVars
  <2>3. /\ call[s].shift \in DOMAIN shifts
        /\ \A i \in Due(loads) : loads[i].shift # call[s].shift
        /\ \A i \in Due(sent) : sent[i].shift # call[s].shift
    BY <1>0, <2>2 DEF Reliable, Queried
  <2>4. \A i \in Due(sent') :
          \/ i \in Due(sent) /\ sent'[i] = sent[i]
          \/ sent'[i].shift = call[s].shift /\ sent'[i].save = saves'
    BY <2>1 DEF Due
  <2>5. Due(loads') = Due(loads)
    BY <2>2
  <2> HIDE DEF Due
  <2> QED BY <1>0, <2>2, <2>3, <2>4, <2>5
<1>5. CASE InsertLoad
  <2>1. PICK i \in DOMAIN sent : loads' = Insert(loads, i, sent[i]) /\ sent' = Remove(sent, i)
    BY <1>5 DEF InsertLoad
  <2>2. UNCHANGED shifts
    BY <1>5 DEF InsertLoad, shiftVars
  <2>3. \A j \in Due(loads') :
          \/ j \in Due(loads) /\ loads'[j] = loads[j]
          \/ i \in Due(sent) /\ loads'[j] = sent[i]
    BY <2>1 DEF Insert, Due
  <2>4. \A j \in Due(sent') : j \in Due(sent) /\ sent'[j] = sent[j]
    BY <2>1 DEF Remove, Due
  <2> HIDE DEF Due
  <2> QED BY <1>0, <2>2, <2>3, <2>4
<1>6. ASSUME NEW s \in Sessions, RemoveShift(s)
      PROVE  LoadsInStep'
  <2>1. /\ call[s].fn = "clear" /\ call[s].ids \cap removing = {}
        /\ shifts' = Remove(shifts, call[s].shift) /\ UNCHANGED <<loads, sent>>
    BY <1>6 DEF RemoveShift, Cleared, loadVars
  <2>2. /\ \A i \in Due(loads) : loads[i].shift # call[s].shift
        /\ \A i \in Due(sent) : sent[i].shift # call[s].shift
    BY <1>0, <2>1 DEF Queried
  <2>3. DOMAIN shifts' = DOMAIN shifts \ {call[s].shift}
    BY <2>1 DEF Remove
  <2> QED BY <1>0, <2>1, <2>2, <2>3 DEF Due
<1>7. ASSUME NEW s \in Sessions, Abandon(s)
      PROVE  LoadsInStep'
  <2>1. /\ UNCHANGED <<loads, shifts>>
        /\ \A i \in DOMAIN sent' : i \in DOMAIN sent /\ sent'[i] = sent[i]
    BY <1>7 DEF Abandon, shiftVars
  <2> QED BY <1>0, <2>1 DEF Due
<1>8. ASSUME NEW s \in Sessions, InsertShift(s) \/ WriteShift(s)
      PROVE  UNCHANGED <<loads, sent>> /\ DOMAIN shifts \subseteq DOMAIN shifts'
  BY <1>8 DEF InsertShift, WriteShift, Insert, loadVars
<1> QED BY <1>1, <1>2, <1>3, <1>4, <1>5, <1>6, <1>7, <1>8
        DEF Next, Step, vars, loadVars, shiftVars, AssignmentCreated, CreateSoloWorkContext,
            CreateRateCard, ReviseRateCard, InsertVersion, CreateShift, UpdateShift, DeleteShift,
            LoadsDone

\* While a call waits for its removals, nothing but them and what it missed is added
\* to or taken from the loads of its shift.
LEMMA QueriedKept ==
  ASSUME OneCaller, TypeInv, Undisturbed, [Next]_vars, NEW s \in Sessions
  PROVE  Queried(call[s])'
<1> USE DEF Queried
<1>0. /\ Queried(call[s]) /\ LoadTypes /\ DOMAIN call = Sessions
      /\ \A t \in Sessions : t = s
  BY DEF Undisturbed, TypeInv, CallTypes, OneCaller
<1>1. CASE UNCHANGED <<call, loads, sent, removing>>
  BY <1>0, <1>1 DEF Due
<1>2. CASE call'[s].fn # "clear"
  BY <1>2
<1>3. CASE QueryLoads(s)
  <2>1. /\ call'[s].shift = call[s].shift /\ call'[s].ids = LoadsOf(call[s].shift)
        /\ UNCHANGED loads /\ removing' = removing \cup LoadsOf(call[s].shift)
        /\ sent' = [i \in DOMAIN sent |->
                    [sent[i] EXCEPT !.missed = @ \/ sent[i].shift = call[s].shift]]
    BY <1>0, <1>3 DEF QueryLoads, Missed, Continue
  <2>2. \A i \in Due(loads') :
          loads'[i].shift = call'[s].shift => i \in call'[s].ids \cap removing'
    BY <2>1 DEF Due, LoadsOf
  <2>3. \A i \in Due(sent') : sent'[i].shift # call'[s].shift
    BY <1>0, <2>1 DEF Due, LoadTypes, LoadRows
  <2> QED BY <2>2, <2>3
<1>4. CASE RemoveLoad
  <2>1. PICK i : removing' = removing \ {i} /\ loads' = Remove(loads, i)
    BY <1>4 DEF RemoveLoad
  <2>2. UNCHANGED <<call, sent>>
    BY <1>4 DEF RemoveLoad
  <2>3. \A j \in Due(loads') : j # i /\ j \in Due(loads) /\ loads'[j] = loads[j]
    BY <2>1 DEF Remove, Due
  <2> QED BY <1>0, <2>1, <2>2, <2>3 DEF Due
<1>5. CASE InsertLoad
  <2>1. PICK i \in DOMAIN sent : loads' = Insert(loads, i, sent[i]) /\ sent' = Remove(sent, i)
    BY <1>5 DEF InsertLoad
  <2>2. UNCHANGED <<call, removing>>
    BY <1>5 DEF InsertLoad
  <2>3. \A j \in Due(loads') :
          \/ j \in Due(loads) /\ loads'[j] = loads[j]
          \/ i \in Due(sent) /\ loads'[j] = sent[i]
    BY <2>1 DEF Insert, Due
  <2>4. \A j \in Due(sent') : j \in Due(sent) /\ sent'[j] = sent[j]
    BY <2>1 DEF Remove, Due
  <2> HIDE DEF Due
  <2> QED BY <1>0, <2>2, <2>3, <2>4
<1>6. CASE \E t \in Sessions : Step(t) /\ ~QueryLoads(t)
  <2>1. Step(s) /\ ~QueryLoads(s)
    BY <1>0, <1>6
  <2> USE DEF Continue, Return, NoCall
  <2>2. CASE InsertShift(s) \/ WriteShift(s)
    BY <1>0, <1>2, <2>2 DEF InsertShift, WriteShift, ThenLoads
  <2>3. CASE CreateRateCard(s) \/ ReviseRateCard(s) \/ InsertVersion(s)
    BY <1>0, <1>2, <2>3 DEF CreateRateCard, ReviseRateCard, InsertVersion
  <2>4. CASE CreateShift(s) \/ UpdateShift(s) \/ DeleteShift(s)
    <3>1. CASE CreateShift(s)
      <4>1. PICK row, n, k : call' = [call EXCEPT ![s] = [fn |-> "createShift", loads |-> n,
                                                       seen |-> k, row |-> row]]
        BY <3>1 DEF CreateShift
      <4> QED BY <1>0, <1>2, <4>1
    <3>2. CASE UpdateShift(s)
      <4>1. PICK id \in DOMAIN shifts, n \in LoadChoices, d \in Dates, a \in Choices,
                 fields \in SUBSET {"date", "assignment"} :
              LET patch == [k \in fields |-> IF k = "date" THEN d ELSE a]
                  row   == Resolved(shifts[id], patch)
                  written == fields \cup
                    (IF ContextChanged(shifts[id], patch) THEN {"rateCard"} ELSE {})
              IN call' = [call EXCEPT ![s] =
                   [fn |-> "updateShift", shift |-> id, loads |-> n,
                    patch |-> [k \in written |-> row[k]], seen |-> VersionsFor(row.assignment)]]
        BY <3>2 DEF UpdateShift
      <4> QED BY <1>0, <1>2, <4>1
    <3>3. CASE DeleteShift(s)
      <4>1. PICK id : call' = [call EXCEPT ![s] = [fn |-> "query", shift |-> id, loads |-> Delete]]
        BY <3>3 DEF DeleteShift
      <4> QED BY <1>0, <1>2, <4>1
    <3> QED BY <2>4, <3>1, <3>2, <3>3
  <2>5. CASE ClearDone(s) \/ LoadsDone(s) \/ RemoveShift(s) \/ Abandon(s)
    BY <1>0, <1>2, <2>5 DEF ClearDone, LoadsDone, RemoveShift, Abandon
  <2> QED BY <2>1, <2>2, <2>3, <2>4, <2>5 DEF Step
<1> QED BY <1>0, <1>1, <1>3, <1>4, <1>5, <1>6
        DEF Next, vars, loadVars, AssignmentCreated, CreateSoloWorkContext

\* A call may go on relying on what it read while no call but it touches shifts and
\* the versions of lineages there are.
LEMMA ReliableKept ==
  ASSUME RateTypes, Grows, NEW c, CallType(c), Reliable(c),
         UNCHANGED shifts, \A l \in lineages : versions'[l] = versions[l]
  PROVE  Reliable(c)'
<1>1. c.fn = "insertVersion" => c.lineage \in lineages
  BY DEF CallType, NoCall
<1>2. c.fn = "insertVersion" => Chained(Append(versions'[c.lineage], c.row))
  BY <1>1 DEF Reliable
<1>3. c.fn = "createShift" => Pinned(c.row, c.seen)'
  <2>1. PICK row, k : row = c.row /\ k = c.seen
    OBVIOUS
  <2> QED BY <2>1, PinnedKept DEF Reliable
<1>4. c.fn = "updateShift" /\ "rateCard" \in DOMAIN c.patch =>
        Pinned(Merge(shifts[c.shift], c.patch), c.seen)'
  <2>1. PICK row, k : row = Merge(shifts[c.shift], c.patch) /\ k = c.seen
    OBVIOUS
  <2>2. c.fn = "updateShift" /\ "rateCard" \in DOMAIN c.patch => Pinned(row, k)'
    BY <2>1, PinnedKept DEF Reliable
  <2> QED BY <2>1, <2>2 DEF Pinned, Count, Merge
<1> QED BY <1>2, <1>3, <1>4 DEF Reliable, Chained, Merge

\* What a read step leaves to be written rests on what it read.
LEMMA ReadsRelied ==
  ASSUME TypeInv, Undisturbed, NEW s \in Sessions,
         \/ ReviseRateCard(s) \/ CreateShift(s) \/ UpdateShift(s) \/ DeleteShift(s)
         \/ QueryLoads(s)
  PROVE  \E c : Reliable(c) /\ CallType(c) /\ call' = [call EXCEPT ![s] = c]
<1> USE DEF Continue
<1>0. /\ RateTypes /\ ShiftTypes /\ DOMAIN call = Sessions
      /\ \A l \in Lineages : Chained(versions[l])
      /\ Reliable(call[s])
  BY DEF TypeInv, CallTypes, Undisturbed, Pricing
<1>1. PICK c : CallType(c) /\ call' = [call EXCEPT ![s] = c]
  BY ReadTypes
<1>2. call'[s] = c
  BY <1>0, <1>1
<1>3. CASE ReviseRateCard(s)
  <2>1. PICK l \in lineages, d \in Dates : \E latest \in DOMAIN versions[l] :
          /\ \A v \in DOMAIN versions[l] : versions[l][v].from <= versions[l][latest].from
          /\ d > versions[l][latest].from
          /\ call' = [call EXCEPT ![s] = [fn |-> "insertVersion", lineage |-> l,
                                          row |-> Revision(l, latest, d)]]
    BY <1>3 DEF ReviseRateCard
  <2>2. PICK latest \in DOMAIN versions[l] :
          /\ \A v \in DOMAIN versions[l] : versions[l][v].from <= versions[l][latest].from
          /\ d > versions[l][latest].from
          /\ call' = [call EXCEPT ![s] = [fn |-> "insertVersion", lineage |-> l,
                                          row |-> Revision(l, latest, d)]]
    BY <2>1
  <2>3. Chained(Append(versions[l], Revision(l, latest, d)))
    BY <1>0, <2>2, RevisionContinues DEF RateTypes
  <2>4. c = [fn |-> "insertVersion", lineage |-> l, row |-> Revision(l, latest, d)]
    BY <1>0, <1>2, <2>2
  <2>5. Reliable(c)
    BY <2>3, <2>4 DEF Reliable
  <2> QED BY <1>1, <2>5
<1>4. CASE CreateShift(s)
  <2>1. PICK a \in Choices, d \in Dates, n \in LoadChoices :
          call' = [call EXCEPT ![s] =
            [fn |-> "createShift", loads |-> n, seen |-> VersionsFor(a),
             row |-> [assignment |-> a, date |-> d, rateCard |-> RateCardFor(a, d)]]]
    BY <1>4 DEF CreateShift
  <2> DEFINE row == [assignment |-> a, date |-> d, rateCard |-> RateCardFor(a, d)]
  <2>2. /\ row.assignment = a /\ row.rateCard = RateCardFor(row.assignment, row.date)
        /\ c = [fn |-> "createShift", loads |-> n, seen |-> VersionsFor(row.assignment),
                row |-> row]
    BY <1>0, <1>2, <2>1
  <2> HIDE DEF row
  <2>3. IsShift(row)
    BY <1>1, <2>2 DEF CallType, NoCall
  <2>4. Pinned(row, VersionsFor(row.assignment))
    BY <1>0, <2>2, <2>3, PinnedNow
  <2>5. Reliable(c)
    BY <2>2, <2>4 DEF Reliable
  <2> QED BY <1>1, <2>5
<1>5. CASE UpdateShift(s)
  <2>1. PICK id \in DOMAIN shifts, n \in LoadChoices, d \in Dates, a \in Choices,
             fields \in SUBSET {"date", "assignment"} :
          LET existing == shifts[id]
              patch == [k \in fields |-> IF k = "date" THEN d ELSE a]
              row   == Resolved(existing, patch)
              written == fields \cup (IF ContextChanged(existing, patch) THEN {"rateCard"} ELSE {})
          IN call' = [call EXCEPT ![s] =
               [fn |-> "updateShift", shift |-> id, loads |-> n,
                patch |-> [k \in written |-> row[k]], seen |-> VersionsFor(row.assignment)]]
    BY <1>5 DEF UpdateShift
  <2> DEFINE existing == shifts[id]
             patch == [k \in fields |-> IF k = "date" THEN d ELSE a]
             row   == Resolved(existing, patch)
             written == fields \cup (IF ContextChanged(existing, patch) THEN {"rateCard"} ELSE {})
             final == [k \in written |-> row[k]]
  <2>2. IsShift(existing) /\ id \in ShiftIds
    BY <1>0 DEF ShiftTypes
  <2>3. /\ IsShift(row) /\ Merge(existing, final) = row
        /\ "rateCard" \in DOMAIN final <=> ContextChanged(existing, patch)
        /\ IF ContextChanged(existing, patch)
             THEN /\ row.rateCard = RateCardFor(row.assignment, row.date)
                  /\ row.date # existing.date \/ row.assignment # existing.assignment
             ELSE row = existing
    <3>1. /\ patch = [k \in fields |-> IF k = "date" THEN d ELSE a]
          /\ final = [k \in fields \cup (IF ContextChanged(existing, patch) THEN {"rateCard"} ELSE {})
                        |-> Resolved(existing, patch)[k]]
      OBVIOUS
    <3>2. row = Resolved(existing, patch)
      OBVIOUS
    <3> HIDE DEF patch, final, existing, row
    <3> QED BY <1>0, <2>2, <3>1, <3>2, ResolvedPatch
  <2>4. call' = [call EXCEPT ![s] =
               [fn |-> "updateShift", shift |-> id, loads |-> n,
                patch |-> final, seen |-> VersionsFor(row.assignment)]]
    BY <2>1
  <2> HIDE DEF final, row, patch
  <2>5. c = [fn |-> "updateShift", shift |-> id, loads |-> n,
             patch |-> final, seen |-> VersionsFor(row.assignment)]
    BY <1>0, <1>2, <2>4
  <2>6. ContextChanged(existing, patch) => Pinned(row, VersionsFor(row.assignment))
    BY <1>0, <2>3, PinnedNow
  <2>7. Reliable(c)
    BY <2>3, <2>5, <2>6 DEF Reliable
  <2> QED BY <1>1, <2>7
<1>6. CASE DeleteShift(s)
  <2>1. PICK id \in DOMAIN shifts :
          call' = [call EXCEPT ![s] = [fn |-> "query", shift |-> id, loads |-> Delete]]
    BY <1>6 DEF DeleteShift
  <2>2. c = [fn |-> "query", shift |-> id, loads |-> Delete]
    BY <1>0, <1>2, <2>1
  <2> QED BY <1>1, <2>2 DEF Reliable
<1>7. CASE QueryLoads(s)
  <2>1. c = [fn |-> "clear", shift |-> call[s].shift, loads |-> call[s].loads,
             ids |-> LoadsOf(call[s].shift)]
    BY <1>0, <1>2, <1>7 DEF QueryLoads
  <2>2. call[s].shift \in DOMAIN shifts
    BY <1>0, <1>7 DEF Reliable, QueryLoads
  <2> QED BY <1>1, <2>1, <2>2 DEF Reliable
<1> QED BY <1>3, <1>4, <1>5, <1>6, <1>7

\* What a write step leaves to be written rests on what it wrote.
LEMMA WritesRelied ==
  ASSUME TypeInv, Undisturbed, NEW s \in Sessions,
         \/ InsertVersion(s) \/ InsertShift(s) \/ WriteShift(s) \/ ClearDone(s)
         \/ LoadsDone(s) \/ RemoveShift(s) \/ Abandon(s)
  PROVE  Reliable(call[s])'
<1> USE DEF Continue
<1>0. DOMAIN call = Sessions /\ Reliable(call[s])
  BY DEF TypeInv, CallTypes, Undisturbed
<1>1. ASSUME call'[s] = NoCall
      PROVE  Reliable(call[s])'
  BY <1>1 DEF Reliable, NoCall
<1>2. CASE InsertVersion(s) \/ LoadsDone(s) \/ RemoveShift(s) \/ Abandon(s)
  BY <1>0, <1>1, <1>2 DEF InsertVersion, LoadsDone, RemoveShift, Abandon, Return
<1>3. ASSUME NEW id, NEW n, ThenLoads(s, id, n), id \in DOMAIN shifts'
      PROVE  Reliable(call[s])'
  <2>1. CASE n = KeepLoads
    BY <1>0, <1>1, <1>3, <2>1 DEF ThenLoads, Return
  <2>2. CASE n # KeepLoads
    <3>1. call'[s] = [fn |-> "query", shift |-> id, loads |-> n]
      BY <1>0, <1>3, <2>2 DEF ThenLoads
    <3> QED BY <1>3, <3>1 DEF Reliable
  <2> QED BY <2>1, <2>2
<1>4. CASE InsertShift(s)
  <2>1. PICK id \in ShiftIds :
          shifts' = Insert(shifts, id, call[s].row) /\ ThenLoads(s, id, call[s].loads)
    BY <1>4 DEF InsertShift
  <2> QED BY <1>3, <2>1 DEF Insert
<1>5. CASE WriteShift(s)
  <2>1. /\ call[s].shift \in DOMAIN shifts' /\ ThenLoads(s, call[s].shift, call[s].loads)
    BY <1>5 DEF WriteShift
  <2> QED BY <1>3, <2>1
<1>6. CASE ClearDone(s)
  <2>1. call'[s] = [fn |-> "insertLoads", shift |-> call[s].shift, save |-> saves']
    BY <1>0, <1>6 DEF ClearDone
  <2> QED BY <2>1 DEF Reliable
<1> QED BY <1>2, <1>4, <1>5, <1>6

LEMMA ReliableStep ==
  ASSUME OneCaller, TypeInv, Undisturbed, [Next]_vars
  PROVE  \A s \in Sessions : Reliable(call[s])'
<1>0. /\ RateTypes /\ Grows /\ DOMAIN call = Sessions
      /\ \A s \in Sessions : CallType(call[s]) /\ Reliable(call[s])
  BY RatesStep DEF TypeInv, CallTypes, Undisturbed
<1>1. ASSUME NEW s \in Sessions, UNCHANGED shifts,
             \A l \in lineages : versions'[l] = versions[l],
             NEW c, call'[s] = c, CallType(c), Reliable(c)
      PROVE  Reliable(call[s])'
  <2>1. Reliable(c)'
    BY <1>0, <1>1, ReliableKept
  <2> QED BY <1>1, <2>1 DEF Reliable, Pinned, Count
<1>2. CASE UNCHANGED <<call, shifts>> /\ \A l \in lineages : versions'[l] = versions[l]
  BY <1>0, <1>1, <1>2
<1>3. CASE CreateSoloWorkContext
  <2>1. UNCHANGED <<call, shifts>>
    BY <1>3 DEF CreateSoloWorkContext, shiftVars
  <2>2. \A l \in lineages : versions'[l] = versions[l]
    BY <1>0, <1>3 DEF CreateSoloWorkContext, RateTypes
  <2> QED BY <1>2, <2>1, <2>2
<1>4. ASSUME NEW s \in Sessions, CreateRateCard(s)
      PROVE  \A t \in Sessions : Reliable(call[t])'
  <2>1. PICK l \in Lineages \ lineages, d \in Dates :
          /\ call' = [call EXCEPT ![s] =
               [fn |-> "insertVersion", lineage |-> l,
                row |-> [version |-> 1, supersedes |-> None, from |-> d]]]
          /\ UNCHANGED versions
    BY <1>4 DEF CreateRateCard, Continue
  <2> DEFINE row == [version |-> 1, supersedes |-> None, from |-> d]
  <2>2. call'[s] = [fn |-> "insertVersion", lineage |-> l, row |-> row]
    BY <1>0, <2>1
  <2>3. versions'[l] = <<>>
    BY <1>0, <2>1 DEF RateTypes
  <2>4. Chained(Append(<<>>, row))
    BY FirstVersionIsChained
  <2> HIDE DEF row
  <2>5. Reliable(call[s])'
    BY <2>2, <2>3, <2>4 DEF Reliable, Chained
  <2> QED BY <2>5 DEF OneCaller
<1>5. ASSUME NEW s \in Sessions,
             \/ ReviseRateCard(s) \/ CreateShift(s) \/ UpdateShift(s) \/ DeleteShift(s)
             \/ QueryLoads(s)
      PROVE  \A t \in Sessions : Reliable(call[t])'
  <2>1. PICK c : Reliable(c) /\ CallType(c) /\ call' = [call EXCEPT ![s] = c]
    BY <1>5, ReadsRelied
  <2>2. call'[s] = c
    BY <1>0, <2>1
  <2>3. UNCHANGED <<shifts, versions>>
    BY <1>5 DEF ReviseRateCard, CreateShift, UpdateShift, DeleteShift, QueryLoads, shiftVars,
                rateVars
  <2> QED BY <1>1, <2>1, <2>2, <2>3 DEF OneCaller
<1>6. ASSUME NEW s \in Sessions,
             \/ InsertVersion(s) \/ InsertShift(s) \/ WriteShift(s) \/ ClearDone(s)
             \/ LoadsDone(s) \/ RemoveShift(s) \/ Abandon(s)
      PROVE  \A t \in Sessions : Reliable(call[t])'
  BY <1>6, WritesRelied DEF OneCaller
<1>7. CASE AssignmentCreated \/ RemoveLoad \/ InsertLoad \/ UNCHANGED vars
  BY <1>2, <1>7 DEF AssignmentCreated, RemoveLoad, InsertLoad, vars, rateVars, shiftVars
<1> QED BY <1>3, <1>4, <1>5, <1>6, <1>7 DEF Next, Step

\* A shift whose date and assignment stay keeps its pin, and the version it is pinned
\* to is there and stays as it is.
LEMMA PricesStep ==
  ASSUME TypeInv, Undisturbed, [Next]_vars,
         NEW i \in DOMAIN shifts \cap DOMAIN shifts',
         shifts'[i].date = shifts[i].date, shifts'[i].assignment = shifts[i].assignment
  PROVE  /\ shifts'[i].rateCard = shifts[i].rateCard
         /\ shifts[i].rateCard # None =>
              LET l == lineageOf[shifts[i].assignment]
              IN versions'[l][shifts[i].rateCard] = versions[l][shifts[i].rateCard]
<1>0. /\ RateTypes /\ Grows /\ Pinned(shifts[i], known[i])
      /\ \A s \in Sessions : Reliable(call[s])
  BY RatesStep DEF TypeInv, Undisturbed, Pricing
<1>1. shifts'[i].rateCard = shifts[i].rateCard
  <2>1. CASE shifts'[i] = shifts[i]
    BY <2>1
  <2>2. ASSUME NEW s \in Sessions, WriteShift(s)
        PROVE  shifts'[i].rateCard = shifts[i].rateCard
    <3> DEFINE row == Merge(shifts[call[s].shift], call[s].patch)
    <3>1. shifts' = [shifts EXCEPT ![call[s].shift] = row]
      BY <2>2 DEF WriteShift
    <3>2. "rateCard" \notin DOMAIN call[s].patch => row = shifts[call[s].shift]
      BY <1>0, <2>2 DEF WriteShift, Reliable
    <3>3. "rateCard" \in DOMAIN call[s].patch =>
            \/ row.date # shifts[call[s].shift].date
            \/ row.assignment # shifts[call[s].shift].assignment
      BY <1>0, <2>2 DEF WriteShift, Reliable
    <3> HIDE DEF row
    <3> QED BY <3>1, <3>2, <3>3
  <2>3. ASSUME NEW s \in Sessions, InsertShift(s)
        PROVE  shifts'[i] = shifts[i]
    BY <2>3 DEF InsertShift, Insert
  <2>4. ASSUME NEW s \in Sessions, RemoveShift(s)
        PROVE  shifts'[i] = shifts[i]
    BY <2>4 DEF RemoveShift, Remove
  <2> QED BY <2>1, <2>2, <2>3, <2>4
        DEF Next, Step, vars, shiftVars, AssignmentCreated, CreateSoloWorkContext, CreateRateCard,
            ReviseRateCard, InsertVersion, CreateShift, UpdateShift, DeleteShift, QueryLoads,
            RemoveLoad, ClearDone, InsertLoad, LoadsDone, Abandon
<1>2. ASSUME shifts[i].rateCard # None
      PROVE  LET l == lineageOf[shifts[i].assignment]
             IN versions'[l][shifts[i].rateCard] = versions[l][shifts[i].rateCard]
  <2> DEFINE l == lineageOf[shifts[i].assignment]
  <2>1. /\ l \in lineages /\ l \in Lineages /\ known[i] \in 0..Count(l)
        /\ shifts[i].rateCard \in 0..known[i]
    BY <1>0, <1>2 DEF Pinned, RateTypes
  <2>2. Count(l) \in Nat
    BY <1>0, <2>1, VersionRows
  <2> HIDE DEF l
  <2>3. shifts[i].rateCard \in 1..Count(l)
    BY <1>2, <2>1, <2>2 DEF None
  <2>4. versions'[l][shifts[i].rateCard] = versions[l][shifts[i].rateCard]
    BY <1>0, <2>1, <2>3 DEF Grows
  <2> QED BY <2>4 DEF l
<1> QED BY <1>1, <1>2

-------------------------------------------------------------------------------
(***************************************************************************)
(* The theorems                                                            *)
(***************************************************************************)

\* Rate cards, shifts, loads and every pending call keep their type, and no
\* reference is to an assignment or a lineage that is not there; for any number of
\* overlapping calls of rateCardService, shiftService and loadService.
THEOREM TypeInvariant == Spec => []TypeInv
<1>1. Init => TypeInv
  BY TypeInitially
<1>2. TypeInv /\ [Next]_vars => TypeInv'
  BY TypeStep
<1> QED BY <1>1, <1>2, PTL DEF Spec

\* The type invariant the runs check.
THEOREM TypeCorrect == Spec => []TypeOK
<1>1. TypeInv => TypeOK
  BY DEF TypeInv, RateTypes, ShiftTypes, LoadTypes, TypeOK, IsShift, Count
<1> QED BY <1>1, TypeInvariant, PTL

LEMMA UndisturbedInitially ==
  ASSUME Init
  PROVE  Undisturbed
<1>1. DOMAIN EmptyTable = {} /\ DOMAIN <<>> = {}
  BY DEF EmptyTable
<1> QED BY <1>1 DEF Init, Undisturbed, Pricing, Chained, LoadsInStep, Together, Due, Reliable,
                     Queried, NoCall

\* The inductive invariant: versions are chains, every shift is pinned to what was in
\* effect, the loads of a shift that no call missed, landed or not, belong to one save,
\* and what a pending call read still holds.
THEOREM Inductive == ASSUME OneCaller PROVE Spec => [](TypeInv /\ Undisturbed)
<1>1. Init => TypeInv /\ Undisturbed
  BY TypeInitially, UndisturbedInitially
<1>2. (TypeInv /\ Undisturbed) /\ [Next]_vars => (TypeInv /\ Undisturbed)'
  BY TypeStep, PricingStep, LoadsInStepKept, QueriedKept, ReliableStep DEF Undisturbed
<1> QED BY <1>1, <1>2, PTL DEF Spec

\* A shift is pinned to the version in effect on its date, in the lineage of its own
\* assignment, whatever was edited or revised since (rateCardService
\* resolveEffectiveRateCard, shiftService updateShift).
THEOREM PinsAreEffective == ASSUME OneCaller PROVE Spec => []PinIsEffective
<1>1. TypeInv /\ Undisturbed => PinIsEffective
  BY DEF Undisturbed, Pricing, Chained, Pinned, PinIsEffective
<1> QED BY <1>1, Inductive, PTL

\* No load outlives its shift, and a shift never has the loads of two saves, but for an
\* insert that was still on its way when a later call read the loads of its shift
\* (loadService replaceLoadsForShift, shiftService deleteShift).
THEOREM LoadsStayTogether == ASSUME OneCaller PROVE Spec => []LoadsAreOfOneSave
<1>1. TypeInv /\ Undisturbed => LoadsAreOfOneSave
  BY DEF Undisturbed, LoadsInStep, Together, Due, LoadsAreOfOneSave
<1> QED BY <1>1, Inductive, PTL

\* Neither a revision nor an edit of something else changes what a shift is priced by.
THEOREM PricesAreFrozen == ASSUME OneCaller PROVE Spec => PricesAreHistory
<1>1. (TypeInv /\ Undisturbed) /\ [Next]_vars =>
        [\A i \in DOMAIN shifts \cap DOMAIN shifts' :
           /\ shifts'[i].date = shifts[i].date /\ shifts'[i].assignment = shifts[i].assignment
           => /\ shifts'[i].rateCard = shifts[i].rateCard
              /\ shifts[i].rateCard # None =>
                   LET l == lineageOf[shifts[i].assignment]
                   IN versions'[l][shifts[i].rateCard] = versions[l][shifts[i].rateCard]]_vars
  BY PricesStep
<1> QED BY <1>1, Inductive, PTL DEF Spec, PricesAreHistory

================================================================================
