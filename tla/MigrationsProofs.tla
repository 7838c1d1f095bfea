---------------------------- MODULE MigrationsProofs ----------------------------
(***************************************************************************)
(* Theorems about Migrations, for any databases that earlier releases left *)
(* (InstallsAreSound, InstallsAreChained) and any number of interrupted    *)
(* boots.  Types hold for any number of tabs; the others for one tab,      *)
(* OneTab: two tabs that boot at once visit rows the other has changed in  *)
(* between.                                                                *)
(***************************************************************************)
EXTENDS Migrations, TLAPS

OneTab == \A t, u \in Tabs : t = u

-------------------------------------------------------------------------------
(***************************************************************************)
(* Types, for any number of tabs                                           *)
(***************************************************************************)

IsSeq(q) == \E n \in Nat : q = [k \in 1..n |-> q[k]]

\* A row that is inserted has the fields its collection has always had.
WriteType(w) ==
  /\ w.op \in {"insert", "update"} /\ w.in \in Collections
  /\ w.op = "insert" /\ w.in \in DOMAIN Always => Always[w.in] \subseteq DOMAIN w.row

Typed(q) == IsSeq(q) /\ \A k \in DOMAIN q : WriteType(q[k])

\* The pass that tab x is in
PassAt(x) == PassesOf[x.current + 1][x.pass]

ItemType(local, p, i) ==
  /\ p.does # "demo" => i.in = p.over
  /\ p.does = "copy" => i.id \in DOMAIN local[i.in] /\ i.row = local[i.in][i.id]

IsTab(x) ==
  x = [pc |-> x.pc, current |-> x.current, pass |-> x.pass, todo |-> x.todo, writes |-> x.writes]

TabType(local, x) ==
  /\ IsTab(x)
  /\ x.pc \in {"closed", "next", "run", "up", "failed"} /\ x.current \in 0..LastVersion
  /\ x.pc = "run" => x.current < LastVersion /\ x.pass \in 0..Len(PassesOf[x.current + 1])
  /\ x.todo # {} \/ x.writes # <<>> => x.pc = "run" /\ x.pass # 0
  /\ \A i \in x.todo : ItemType(local, PassAt(x), i)
  /\ Typed(x.writes)

RowTypes(s) ==
  /\ s = [c \in Collections |-> s[c]] /\ \A c \in Collections : IsFunction(s[c])
  /\ \A c \in DOMAIN Always : \A id \in DOMAIN s[c] : Always[c] \subseteq DOMAIN s[c][id]

TypeInv ==
  /\ version \in 0..LastVersion /\ newIds \in 0..Len(NewIds) /\ closes \in 0..MaxCloses
  /\ IsStore(ls) /\ RowTypes(db)
  /\ tab = [t \in Tabs |-> tab[t]] /\ \A t \in Tabs : TabType(ls, tab[t])

LEMMA SequenceIs ==
  ASSUME NEW q, IsSeq(q), q # <<>>
  PROVE  /\ Len(q) \in Nat \ {0} /\ DOMAIN q = 1..Len(q) /\ Head(q) = q[1]
         /\ IsSeq(Tail(q)) /\ Len(Tail(q)) = Len(q) - 1 /\ DOMAIN Tail(q) = 1..(Len(q) - 1)
         /\ \A k \in 1..(Len(q) - 1) : Tail(q)[k] = q[k + 1]
<1> DEFINE S == {q[k] : k \in DOMAIN q}
<1>1. PICK n \in Nat : q = [k \in 1..n |-> q[k]]
  BY DEF IsSeq
<1>2. q \in Seq(S) /\ Len(q) = n
  BY <1>1
<1> HIDE DEF S
<1>3. Len(q) \in Nat \ {0} /\ DOMAIN q = 1..Len(q) /\ Head(q) = q[1]
  BY <1>1, <1>2
<1>4. Tail(q) \in Seq(S) /\ Len(Tail(q)) = Len(q) - 1
  BY <1>2
<1>5. DOMAIN Tail(q) = 1..(Len(q) - 1)
  BY <1>3, <1>4
<1>6. \A k \in 1..(Len(q) - 1) : Tail(q)[k] = q[k + 1]
  BY <1>2, <1>3
<1>7. Tail(q) = [k \in 1..(Len(q) - 1) |-> Tail(q)[k]]
  <2>1. PICK r : r = Tail(q)
    OBVIOUS
  <2>2. r \in Seq(S) /\ Len(r) = Len(q) - 1
    BY <1>4, <2>1
  <2>3. r = [k \in 1..Len(r) |-> r[k]]
    BY <2>2
  <2> QED BY <2>1, <2>2, <2>3
<1> QED BY <1>3, <1>4, <1>5, <1>6, <1>7 DEF IsSeq

\* What the fourteen migrations go over
LEMMA PassesAre ==
  ASSUME NEW m \in 1..LastVersion
  PROVE  /\ Len(PassesOf[m]) \in Nat
         /\ \A k \in 1..Len(PassesOf[m]) :
              /\ PassesOf[m][k].does # "demo" => PassesOf[m][k].over \in Collections
              /\ PassesOf[m][k].does = "copy" <=> m = 3
              /\ PassesOf[m][k].does \in {"init", "demo", "hgv-shifts"} <=> m \in {1, 2}
<1>1. CASE m = 1
  BY <1>1 DEF PassesOf, On, Collections
<1>2. CASE m = 2
  BY <1>2 DEF PassesOf, On, Collections
<1>3. CASE m = 3
  BY <1>3 DEF PassesOf, On, Collections
<1>4. CASE m = 4
  BY <1>4 DEF PassesOf, On, Collections
<1>5. CASE m = 5
  BY <1>5 DEF PassesOf, On, Collections
<1>6. CASE m = 6
  BY <1>6 DEF PassesOf, On, Collections
<1>7. CASE m = 7
  BY <1>7 DEF PassesOf, On, Collections
<1>8. CASE m = 8
  BY <1>8 DEF PassesOf, On, Collections
<1>9. CASE m \in 9..14
  BY <1>9 DEF PassesOf, On, Collections
<1> QED BY <1>1, <1>2, <1>3, <1>4, <1>5, <1>6, <1>7, <1>8, <1>9 DEF LastVersion

LEMMA ShortSequences ==
  /\ Typed(<<>>)
  /\ \A v : WriteType(v) => Typed(<<v>>)
  /\ \A v, w : WriteType(v) /\ WriteType(w) => Typed(<<v, w>>)
<1>1. Typed(<<>>)
  BY DEF Typed, IsSeq
<1>2. ASSUME NEW v, WriteType(v) PROVE Typed(<<v>>)
  <2>1. <<v>> = [k \in 1..1 |-> <<v>>[k]]
    OBVIOUS
  <2> QED BY <1>2, <2>1 DEF Typed, IsSeq
<1>3. ASSUME NEW v, NEW w, WriteType(v), WriteType(w) PROVE Typed(<<v, w>>)
  <2>1. <<v, w>> = [k \in 1..2 |-> <<v, w>>[k]]
    OBVIOUS
  <2>2. \A k \in 1..2 : WriteType(<<v, w>>[k])
    BY <1>3
  <2>3. IsSeq(<<v, w>>) /\ DOMAIN <<v, w>> = 1..2
    BY <2>1 DEF IsSeq
  <2> QED BY <2>2, <2>3 DEF Typed
<1> QED BY <1>1, <1>2, <1>3

LEMMA UpdateTyped ==
  ASSUME NEW c \in Collections, NEW id, NEW row
  PROVE  WriteType(Update(c, id, row)) /\ Typed(<<Update(c, id, row)>>)
<1>1. WriteType(Update(c, id, row))
  BY DEF WriteType, Update
<1> QED BY <1>1, ShortSequences

LEMMA InsertTyped ==
  ASSUME NEW c \in Collections, NEW id, NEW row,
         c \in DOMAIN Always => Always[c] \subseteq DOMAIN row
  PROVE  WriteType(Insert(c, id, row)) /\ Typed(<<Insert(c, id, row)>>)
<1>1. WriteType(Insert(c, id, row))
  BY DEF WriteType, Insert
<1> QED BY <1>1, ShortSequences

LEMMA DemoTyped == Typed(DemoRows)
<1>1. DemoRows = [k \in 1..12 |-> DemoRows[k]]
  BY DEF DemoRows
<1>2. ASSUME NEW k \in 1..12 PROVE WriteType(DemoRows[k])
  <2>1. CASE k \in 1..4
    BY <2>1 DEF DemoRows, WriteType, Insert, Always, Collections
  <2>2. CASE k \in 5..8
    BY <2>2 DEF DemoRows, WriteType, Insert, Always, Collections
  <2>3. CASE k \in 9..12
    BY <2>3 DEF DemoRows, WriteType, Insert, Always, Collections
  <2> QED BY <2>1, <2>2, <2>3
<1> QED BY <1>1, <1>2 DEF Typed, IsSeq

LEMMA WritesTyped ==
  ASSUME IsStore(ls), NEW p, p.does # "demo" => p.over \in Collections, NEW i, ItemType(ls, p, i)
  PROVE  Typed(WritesOf(p.does, i))
<1> USE DEF Skip
<1>1. CASE p.does = "init"
  BY <1>1, ShortSequences, InsertTyped DEF WritesOf, InitSchema, Collections, Always
<1>2. CASE p.does = "demo"
  BY <1>2, DemoTyped DEF WritesOf
<1>3. CASE p.does = "hgv-shifts"
  <2> DEFINE row == [assignmentId |-> "a-demo", date |-> 1, rateCardId |-> "rc-demo"]
  <2>1. {"assignmentId", "date"} \subseteq DOMAIN row
    OBVIOUS
  <2> HIDE DEF row
  <2>2. Typed(<<Insert("shifts", i.id, row)>>)
    BY <2>1, InsertTyped DEF Collections, Always
  <2> QED BY <1>3, <2>2 DEF WritesOf, LegacyShift, row
<1>4. CASE p.does = "copy"
  <2>1. i.in \in Collections /\ (i.in \in DOMAIN Always => Always[i.in] \subseteq DOMAIN i.row)
    BY <1>4 DEF ItemType, IsStore
  <2> QED BY <1>4, <2>1, UpdateTyped, InsertTyped DEF WritesOf, CopyRow
<1>5. CASE p.does \in {"version", "line", "pin"}
  BY <1>5, ShortSequences, UpdateTyped
     DEF WritesOf, VersionCard, LineOfAssignment, PinShift, Collections
<1>6. CASE p.does \in {"type", "employer", "workspace", "provider", "payType"}
  BY <1>6, ShortSequences, UpdateTyped
     DEF WritesOf, TypeOfOrganisation, Employer, ProfileWorkspace, Provider, PayType, Collections
<1>7. CASE p.does \in {"insert", "template"}
  BY <1>7, ShortSequences, InsertTyped DEF WritesOf, LineageRow, DefaultTemplate, Collections, Always
<1>8. CASE p.does = "client"
  <2>1. \A workspace, name : {"workspaceId", "tradingName"} \subseteq
          DOMAIN [workspaceId |-> workspace, tradingName |-> name, types |-> "client"]
    OBVIOUS
  <2>2. \A workspace, name : WriteType(Insert("organisations", NewId,
          [workspaceId |-> workspace, tradingName |-> name, types |-> "client"]))
    BY <2>1, InsertTyped DEF Collections, Always
  <2>3. \A o : WriteType(Update("sites", i.id, [organisationId |-> o]))
    BY UpdateTyped DEF Collections
  <2> QED BY <1>8, <2>2, <2>3, ShortSequences DEF WritesOf, ClientOfSite
<1>9. CASE p.does = "placement"
  <2>1. \A id, row : WriteType(Insert("placements", id, row)) /\ WriteType(Update("assignments", i.id, row))
    BY UpdateTyped, InsertTyped DEF Collections, Always
  <2> QED BY <1>9, <2>1, ShortSequences DEF WritesOf, PlacementOf
<1>10. CASE p.does \notin {"init", "demo", "hgv-shifts", "copy", "version", "line", "pin", "type", "insert",
                          "employer", "client", "workspace", "provider", "placement", "template", "payType"}
  BY <1>10, ShortSequences, UpdateTyped DEF WritesOf, AddField, ItemType
<1> QED BY <1>1, <1>2, <1>3, <1>4, <1>5, <1>6, <1>7, <1>8, <1>9, <1>10

LEMMA ItemsTyped ==
  ASSUME NEW p
  PROVE  \A i \in Items(p) : ItemType(ls, p, i)
<1>1. CASE p.does \in {"init", "demo"}
  BY <1>1 DEF Items, ItemType
<1>2. CASE p.does = "hgv-shifts"
  BY <1>2 DEF Items, ItemType
<1>3. CASE p.does = "copy"
  BY <1>3 DEF Items, ItemType
<1>4. CASE p.does = "insert"
  BY <1>4 DEF Items, ItemType
<1>5. CASE p.does \notin {"init", "demo", "hgv-shifts", "copy", "insert"}
  BY <1>5 DEF Items, ItemType, RowsOf
<1> QED BY <1>1, <1>2, <1>3, <1>4, <1>5

LEMMA AtRestIsTyped ==
  ASSUME NEW local, NEW x, IsTab(x), x.todo = {}, x.writes = <<>>,
         x.pc \in {"closed", "next", "up", "failed"}, x.current \in 0..LastVersion
  PROVE  TabType(local, x)
  BY ShortSequences DEF TabType, IsTab

LEMMA RunningIsTyped ==
  ASSUME NEW local, NEW x, IsTab(x), x.pc = "run",
         x.current \in 0..(LastVersion - 1), x.pass \in 0..Len(PassesOf[x.current + 1]),
         \A i \in x.todo : ItemType(local, PassAt(x), i), Typed(x.writes),
         x.pass = 0 => x.todo = {} /\ x.writes = <<>>
  PROVE  TabType(local, x)
  BY DEF TabType, IsTab, LastVersion

LEMMA TypesInitially ==
  ASSUME Init
  PROVE  TypeInv
<1>1. PICK i \in Installs : version = i.version /\ ls = i.ls /\ db = i.db
  BY DEF Init
<1>2. version \in 0..LastVersion /\ IsStore(ls) /\ IsStore(db)
  BY <1>1, InstallsAreSound
<1>3. RowTypes(db)
  <2>1. DOMAIN Always \subseteq Collections
    BY DEF Always, Collections
  <2> QED BY <1>2, <2>1 DEF IsStore, IsFunction, RowTypes
<1>4. \A t \in Tabs : TabType(ls, tab[t])
  <2> SUFFICES ASSUME NEW t \in Tabs PROVE TabType(ls, tab[t])
    OBVIOUS
  <2>1. IsTab(tab[t]) /\ tab[t].todo = {} /\ tab[t].writes = <<>> /\ tab[t].pc = "closed" /\ tab[t].current = 0
    BY DEF Init, Closed, IsTab
  <2> QED BY <2>1, AtRestIsTyped DEF LastVersion
<1>5. tab = [t \in Tabs |-> tab[t]] /\ newIds \in 0..Len(NewIds) /\ closes \in 0..MaxCloses
  BY MigrationBounds DEF Init
<1> QED BY <1>2, <1>3, <1>4, <1>5 DEF TypeInv

\* The other tabs, and the localStorage rows, stay as they are.
LEMMA OtherTabs ==
  ASSUME TypeInv, UNCHANGED ls, NEW t \in Tabs,
         tab' = [tab EXCEPT ![t] = tab'[t]], TabType(ls, tab'[t])
  PROVE  /\ tab' = [u \in Tabs |-> tab'[u]] /\ \A u \in Tabs : TabType(ls', tab'[u])
         /\ IsStore(ls')
  BY DEF TypeInv

\* s2 is s after the write w.
Written(s, w, s2) ==
  /\ \A c \in Collections \ {w.in} : s2[c] = s[c]
  /\ DOMAIN s2[w.in] = DOMAIN s[w.in] \cup {w.id}
  /\ \A id \in DOMAIN s[w.in] \ {w.id} : s2[w.in][id] = s[w.in][id]
  /\ w.op = "insert" => w.id \notin DOMAIN s[w.in] /\ s2[w.in][w.id] = w.row
  /\ w.op = "update" => w.id \in DOMAIN s[w.in] /\ s2[w.in][w.id] = Merge(s[w.in][w.id], w.row)

LEMMA WrittenRows ==
  ASSUME RowTypes(db), NEW w, WriteType(w), NEW rows, rows = db[w.in],
         (w.op = "insert") # (w.id \in DOMAIN rows),
         db' = [db EXCEPT ![w.in] =
                  [id \in DOMAIN rows \cup {w.id} |->
                     IF id # w.id THEN rows[id]
                     ELSE IF w.op = "insert" THEN w.row ELSE Merge(rows[id], w.row)]]
  PROVE  RowTypes(db') /\ Written(db, w, db')
<1>1. /\ db' = [c \in Collections |-> db'[c]]
      /\ \A c \in Collections \ {w.in} : db'[c] = db[c]
      /\ db'[w.in] = [id \in DOMAIN rows \cup {w.id} |->
                       IF id # w.id THEN rows[id]
                       ELSE IF w.op = "insert" THEN w.row ELSE Merge(rows[id], w.row)]
  BY DEF RowTypes, WriteType
<1>2. /\ DOMAIN db'[w.in] = DOMAIN db[w.in] \cup {w.id}
      /\ \A id \in DOMAIN db[w.in] \ {w.id} : db'[w.in][id] = db[w.in][id]
      /\ w.op = "insert" => w.id \notin DOMAIN db[w.in] /\ db'[w.in][w.id] = w.row
      /\ w.op = "update" => w.id \in DOMAIN db[w.in] /\ db'[w.in][w.id] = Merge(db[w.in][w.id], w.row)
  BY <1>1 DEF WriteType
<1>3. ASSUME NEW c \in DOMAIN Always, NEW id \in DOMAIN db'[c]
      PROVE  Always[c] \subseteq DOMAIN db'[c][id]
  <2>0. c \in Collections
    BY DEF Always, Collections
  <2>1. CASE c # w.in \/ id # w.id
    BY <1>1, <1>2, <2>0, <2>1 DEF RowTypes
  <2>2. CASE c = w.in /\ id = w.id /\ w.op = "insert"
    BY <1>2, <2>2 DEF WriteType
  <2>3. CASE c = w.in /\ id = w.id /\ w.op = "update"
    <3>1. DOMAIN Merge(db[c][id], w.row) = DOMAIN db[c][id] \cup DOMAIN w.row
      BY DEF Merge
    <3> QED BY <1>2, <2>3, <3>1 DEF RowTypes
  <2> QED BY <2>1, <2>2, <2>3 DEF WriteType
<1>4. ASSUME NEW c \in Collections PROVE IsFunction(db'[c])
  <2>1. CASE c = w.in
    BY <1>1, <2>1 DEF IsFunction
  <2>2. CASE c # w.in
    BY <1>1, <2>2 DEF RowTypes
  <2> QED BY <2>1, <2>2
<1> QED BY <1>1, <1>2, <1>3, <1>4 DEF RowTypes, Written

LEMMA TypeStep ==
  ASSUME TypeInv, [Next]_vars
  PROVE  TypeInv'
<1>0. \A t \in Tabs : IsTab(tab[t]) /\ TabType(ls, tab[t])
  BY DEF TypeInv, TabType
<1>1. CASE UNCHANGED vars
  BY <1>1 DEF vars, TypeInv, RowTypes
<1>2. ASSUME NEW t \in Tabs, Boot(t) PROVE TypeInv'
  <2>1. /\ tab' = [tab EXCEPT ![t] = tab'[t]]
        /\ tab'[t] = [pc |-> "next", current |-> version, pass |-> 0, todo |-> {}, writes |-> <<>>]
    BY <1>2 DEF Boot, Closed, TypeInv
  <2>2. IsTab(tab'[t])
    BY <2>1 DEF IsTab
  <2>3. TabType(ls, tab'[t])
    BY <2>1, <2>2, AtRestIsTyped DEF TypeInv
  <2> QED BY <1>2, <2>1, <2>3, OtherTabs DEF Boot, TypeInv, RowTypes
<1>3. ASSUME NEW t \in Tabs, NextMigration(t) PROVE TypeInv'
  <2> DEFINE v == tab[t].current
  <2>1. TabType(ls, tab[t]) /\ v \in 0..(LastVersion - 1) /\ v + 1 \in 1..LastVersion
    BY <1>0, <1>3 DEF NextMigration, TabType, LastVersion
  <2>2. Len(PassesOf[v + 1]) \in Nat
    BY <2>1, PassesAre
  <2>3. tab[t].todo = {} /\ tab[t].writes = <<>>
    BY <1>3, <2>1 DEF NextMigration, TabType
  <2>4. /\ tab' = [tab EXCEPT ![t] = tab'[t]]
        /\ tab'[t] = [pc |-> "run", current |-> v, pass |-> 0, todo |-> {}, writes |-> <<>>]
    <3>1. tab'[t] = [tab[t] EXCEPT !.pc = "run", !.pass = 0] /\ tab' = [tab EXCEPT ![t] = tab'[t]]
      BY <1>3 DEF NextMigration, TypeInv
    <3>2. PICK x, y : x = tab[t] /\ y = tab'[t]
      OBVIOUS
    <3>3. x = [pc |-> x.pc, current |-> x.current, pass |-> x.pass, todo |-> x.todo, writes |-> x.writes]
      BY <1>0, <3>2 DEF IsTab
    <3>4. y = [x EXCEPT !.pc = "run", !.pass = 0]
      BY <3>1, <3>2
    <3>5. y = [pc |-> "run", current |-> x.current, pass |-> 0, todo |-> x.todo, writes |-> x.writes]
      BY <3>3, <3>4
    <3> QED BY <2>3, <3>1, <3>2, <3>5
  <2>5. IsTab(tab'[t])
    BY <2>4 DEF IsTab
  <2>6. TabType(ls, tab'[t])
    <3> HIDE DEF v
    <3> QED BY <2>1, <2>2, <2>4, <2>5, RunningIsTyped, ShortSequences
  <2> QED BY <1>3, <2>4, <2>6, OtherTabs DEF NextMigration, TypeInv, RowTypes
<1>4. ASSUME NEW t \in Tabs, NextPass(t) PROVE TypeInv'
  <2> DEFINE v == tab[t].current
             k == tab[t].pass + 1
  <2>1. TabType(ls, tab[t]) /\ v \in 0..(LastVersion - 1) /\ v + 1 \in 1..LastVersion /\ tab[t].writes = <<>>
    BY <1>0, <1>4 DEF NextPass, TabType, LastVersion, Between
  <2>2. k \in 1..Len(PassesOf[v + 1]) /\ Len(PassesOf[v + 1]) \in Nat
    BY <1>4, <2>1, PassesAre DEF NextPass, TabType, Passes
  <2> DEFINE todo == Items(PassesOf[v + 1][k])
  <2>3. /\ tab' = [tab EXCEPT ![t] = tab'[t]]
        /\ tab'[t] = [pc |-> "run", current |-> v, pass |-> k, todo |-> todo, writes |-> <<>>]
    <3>1. /\ tab'[t] = [tab[t] EXCEPT !.pass = k, !.todo = todo] /\ tab' = [tab EXCEPT ![t] = tab'[t]]
          /\ tab[t].pc = "run"
      <4>1. tab' = [tab EXCEPT ![t] = [tab[t] EXCEPT !.pass = k, !.todo = todo]] /\ tab[t].pc = "run"
        BY <1>4 DEF NextPass, Passes
      <4> HIDE DEF k, todo
      <4> QED BY <4>1 DEF TypeInv
    <3> HIDE DEF todo
    <3>2. PICK x, y : x = tab[t] /\ y = tab'[t]
      OBVIOUS
    <3>3. x = [pc |-> x.pc, current |-> x.current, pass |-> x.pass, todo |-> x.todo, writes |-> x.writes]
      BY <1>0, <3>2 DEF IsTab
    <3>4. y = [x EXCEPT !.pass = k, !.todo = todo]
      BY <3>1, <3>2
    <3>5. y = [pc |-> x.pc, current |-> x.current, pass |-> k, todo |-> todo, writes |-> x.writes]
      BY <3>3, <3>4
    <3> QED BY <2>1, <3>1, <3>2, <3>5
  <2>4. \A i \in todo : ItemType(ls, PassesOf[v + 1][k], i)
    BY ItemsTyped
  <2>5. IsTab(tab'[t])
    BY <2>3 DEF IsTab
  <2>6. TabType(ls, tab'[t])
    <3> HIDE DEF v, k, todo
    <3>1. \A i \in tab'[t].todo : ItemType(ls, PassAt(tab'[t]), i)
      BY <2>3, <2>4 DEF PassAt
    <3> QED BY <2>1, <2>2, <2>3, <2>5, <3>1, RunningIsTyped, ShortSequences
  <2> QED BY <1>4, <2>3, <2>6, OtherTabs DEF NextPass, TypeInv, RowTypes
<1>5. ASSUME NEW t \in Tabs, Visit(t) PROVE TypeInv'
  <2> DEFINE v == tab[t].current
             p == PassAt(tab[t])
  <2>1. PICK i \in tab[t].todo :
          tab' = [tab EXCEPT ![t] = [@ EXCEPT !.todo = tab[t].todo \ {i}, !.writes = WritesOf(p.does, i)]]
    BY <1>5 DEF Visit, PassAt, Passes
  <2>2. /\ TabType(ls, tab[t]) /\ tab[t].pc = "run" /\ tab[t].pass # 0
        /\ v \in 0..(LastVersion - 1) /\ v + 1 \in 1..LastVersion
    BY <1>0, <1>5 DEF Visit, TabType, LastVersion
  <2>3. tab[t].pass \in 1..Len(PassesOf[v + 1]) /\ ItemType(ls, p, i)
    BY <2>2, PassesAre DEF TabType
  <2>4. p.does # "demo" => p.over \in Collections
    BY <2>2, <2>3, PassesAre DEF PassAt
  <2> DEFINE writes == WritesOf(p.does, i)
  <2>5. Typed(writes)
    BY <2>3, <2>4, WritesTyped DEF TypeInv
  <2>6. /\ tab' = [tab EXCEPT ![t] = tab'[t]]
        /\ tab'[t] = [pc |-> "run", current |-> v, pass |-> tab[t].pass, todo |-> tab[t].todo \ {i},
                      writes |-> writes]
    <3>1. /\ tab'[t] = [tab[t] EXCEPT !.todo = tab[t].todo \ {i}, !.writes = writes]
          /\ tab' = [tab EXCEPT ![t] = tab'[t]]
      <4>1. tab' = [tab EXCEPT ![t] = [tab[t] EXCEPT !.todo = tab[t].todo \ {i}, !.writes = writes]]
        BY <2>1
      <4> HIDE DEF writes
      <4> QED BY <4>1 DEF TypeInv
    <3> HIDE DEF writes
    <3>2. PICK x, y : x = tab[t] /\ y = tab'[t]
      OBVIOUS
    <3>3. x = [pc |-> x.pc, current |-> x.current, pass |-> x.pass, todo |-> x.todo, writes |-> x.writes]
      BY <1>0, <3>2 DEF IsTab
    <3>4. y = [x EXCEPT !.todo = x.todo \ {i}, !.writes = writes]
      BY <3>1, <3>2
    <3>5. y = [pc |-> x.pc, current |-> x.current, pass |-> x.pass, todo |-> x.todo \ {i},
               writes |-> writes]
      BY <3>3, <3>4
    <3> QED BY <2>2, <3>1, <3>2, <3>5
  <2> HIDE DEF writes
  <2>7. IsTab(tab'[t])
    BY <2>6 DEF IsTab
  <2>8. \A j \in tab'[t].todo : ItemType(ls, PassAt(tab'[t]), j)
    BY <2>2, <2>6 DEF TabType, PassAt
  <2>9. TabType(ls, tab'[t])
    <3>1. PICK y : y = tab'[t]
      OBVIOUS
    <3>2. /\ IsTab(y) /\ y.pc = "run" /\ y.current = v /\ y.pass = tab[t].pass /\ y.writes = writes
          /\ \A j \in y.todo : ItemType(ls, PassAt(y), j)
      BY <2>6, <2>7, <2>8, <3>1
    <3> HIDE DEF v, p
    <3>3. TabType(ls, y)
      BY <2>2, <2>3, <2>5, <3>2, RunningIsTyped DEF v
    <3> QED BY <3>1, <3>3
  <2>10. newIds' \in 0..Len(NewIds)
    BY <1>5, MigrationBounds DEF Visit, TypeInv
  <2> QED BY <1>5, <2>6, <2>9, <2>10, OtherTabs DEF Visit, TypeInv, RowTypes
<1>6. ASSUME NEW t \in Tabs, Write(t) PROVE TypeInv'
  <2> DEFINE v == tab[t].current
             q == tab[t].writes
             w == Head(q)
  <2>1. /\ TabType(ls, tab[t]) /\ q # <<>> /\ Typed(q) /\ tab[t].pc = "run" /\ tab[t].pass # 0
        /\ v \in 0..(LastVersion - 1) /\ v + 1 \in 1..LastVersion
    BY <1>0, <1>6 DEF Write, TabType, LastVersion
  <2>2. WriteType(w)
    BY <2>1, SequenceIs DEF Typed
  <2>3. CASE (w.op = "insert") = (w.id \in DOMAIN db[w.in])
    <3>1. /\ tab' = [tab EXCEPT ![t] = tab'[t]] /\ UNCHANGED db
          /\ tab'[t] = [pc |-> "failed", current |-> 0, pass |-> 0, todo |-> {}, writes |-> <<>>]
      BY <1>6, <2>3 DEF Write, Closed, TypeInv
    <3>2. IsTab(tab'[t])
      BY <3>1 DEF IsTab
    <3>3. TabType(ls, tab'[t])
      BY <3>1, <3>2, AtRestIsTyped DEF LastVersion
    <3> QED BY <1>6, <3>1, <3>3, OtherTabs DEF Write, TypeInv, RowTypes
  <2>4. CASE (w.op = "insert") # (w.id \in DOMAIN db[w.in])
    <3> DEFINE r == Tail(q)
    <3>1. RowTypes(db')
      BY <1>6, <2>2, <2>4, WrittenRows DEF Write, TypeInv
    <3>2. /\ tab' = [tab EXCEPT ![t] = tab'[t]]
          /\ tab'[t] = [pc |-> "run", current |-> v, pass |-> tab[t].pass, todo |-> tab[t].todo, writes |-> r]
      BY <1>0, <1>6, <2>1, <2>4 DEF Write, TypeInv, IsTab
    <3>3. Typed(r)
      BY <2>1, SequenceIs DEF Typed
    <3> HIDE DEF r
    <3>4. tab[t].pass \in 1..Len(PassesOf[v + 1])
      BY <2>1, PassesAre DEF TabType
    <3>5. \A j \in tab'[t].todo : ItemType(ls, PassAt(tab'[t]), j)
      BY <2>1, <3>2 DEF TabType, PassAt
    <3>6. IsTab(tab'[t])
      BY <3>2 DEF IsTab
    <3>7. TabType(ls, tab'[t])
      BY <2>1, <3>2, <3>3, <3>4, <3>5, <3>6, RunningIsTyped
    <3> QED BY <1>6, <3>1, <3>2, <3>7, OtherTabs DEF Write, TypeInv
  <2> QED BY <2>3, <2>4
<1>7. ASSUME NEW t \in Tabs, FinishMigration(t) PROVE TypeInv'
  <2>1. TabType(ls, tab[t]) /\ tab[t].pc = "run" /\ tab[t].current + 1 \in 0..LastVersion
    BY <1>0, <1>7 DEF FinishMigration, TabType, LastVersion
  <2>2. /\ tab' = [tab EXCEPT ![t] = tab'[t]] /\ version' \in 0..LastVersion
        /\ tab'[t] = [pc |-> "next", current |-> tab[t].current + 1, pass |-> tab[t].pass, todo |-> {},
                      writes |-> <<>>]
    <3>1. /\ tab'[t] = [tab[t] EXCEPT !.pc = "next", !.current = tab[t].current + 1]
          /\ tab' = [tab EXCEPT ![t] = tab'[t]] /\ version' = tab[t].current + 1
          /\ tab[t].todo = {} /\ tab[t].writes = <<>>
      BY <1>7 DEF FinishMigration, TypeInv, Between
    <3>2. PICK x, y : x = tab[t] /\ y = tab'[t]
      OBVIOUS
    <3>3. x = [pc |-> x.pc, current |-> x.current, pass |-> x.pass, todo |-> x.todo, writes |-> x.writes]
      BY <1>0, <3>2 DEF IsTab
    <3>4. y = [x EXCEPT !.pc = "next", !.current = x.current + 1]
      BY <3>1, <3>2
    <3>5. y = [pc |-> "next", current |-> x.current + 1, pass |-> x.pass, todo |-> x.todo,
               writes |-> x.writes]
      BY <3>3, <3>4
    <3> QED BY <2>1, <3>1, <3>2, <3>5
  <2>3. IsTab(tab'[t])
    BY <2>2 DEF IsTab
  <2>4. TabType(ls, tab'[t])
    BY <2>1, <2>2, <2>3, AtRestIsTyped
  <2> QED BY <1>7, <2>2, <2>4, OtherTabs DEF FinishMigration, TypeInv, RowTypes
<1>8. ASSUME NEW t \in Tabs, BootDone(t) PROVE TypeInv'
  <2>1. TabType(ls, tab[t]) /\ tab[t].todo = {} /\ tab[t].writes = <<>>
    BY <1>0, <1>8 DEF BootDone, TabType
  <2>2. /\ tab' = [tab EXCEPT ![t] = tab'[t]]
        /\ tab'[t] = [pc |-> "up", current |-> tab[t].current, pass |-> tab[t].pass, todo |-> {},
                      writes |-> <<>>]
    <3>1. tab'[t] = [tab[t] EXCEPT !.pc = "up"] /\ tab' = [tab EXCEPT ![t] = tab'[t]]
      BY <1>8 DEF BootDone, TypeInv
    <3>2. PICK x, y : x = tab[t] /\ y = tab'[t]
      OBVIOUS
    <3>3. x = [pc |-> x.pc, current |-> x.current, pass |-> x.pass, todo |-> x.todo, writes |-> x.writes]
      BY <1>0, <3>2 DEF IsTab
    <3>4. y = [x EXCEPT !.pc = "up"]
      BY <3>1, <3>2
    <3>5. y = [pc |-> "up", current |-> x.current, pass |-> x.pass, todo |-> x.todo, writes |-> x.writes]
      BY <3>3, <3>4
    <3> QED BY <2>1, <3>1, <3>2, <3>5
  <2>3. IsTab(tab'[t])
    BY <2>2 DEF IsTab
  <2>4. TabType(ls, tab'[t])
    BY <2>1, <2>2, <2>3, AtRestIsTyped DEF TabType
  <2> QED BY <1>8, <2>2, <2>4, OtherTabs DEF BootDone, TypeInv, RowTypes
<1>9. ASSUME NEW t \in Tabs, Close(t) PROVE TypeInv'
  <2>1. /\ tab' = [tab EXCEPT ![t] = tab'[t]]
        /\ tab'[t] = [pc |-> "closed", current |-> 0, pass |-> 0, todo |-> {}, writes |-> <<>>]
    BY <1>9 DEF Close, Closed, TypeInv
  <2>2. IsTab(tab'[t])
    BY <2>1 DEF IsTab
  <2>3. TabType(ls, tab'[t])
    BY <2>1, <2>2, AtRestIsTyped DEF LastVersion
  <2>4. closes' \in 0..MaxCloses
    BY <1>9, MigrationBounds DEF Close, TypeInv
  <2> QED BY <1>9, <2>1, <2>3, <2>4, OtherTabs DEF Close, TypeInv, RowTypes
<1> QED BY <1>1, <1>2, <1>3, <1>4, <1>5, <1>6, <1>7, <1>8, <1>9 DEF Next, Step

\* Whatever was interrupted and however many tabs there are, rows keep the fields they
\* have always had.
THEOREM TypeCorrect == Spec => []TypeOK
<1>1. Init => TypeInv
  BY TypesInitially
<1>2. TypeInv /\ [Next]_vars => TypeInv'
  BY TypeStep
<1>3. TypeInv => TypeOK
  <2>1. {"assignments", "shifts", "sites", "organisations", "engagements", "driverProfiles", "rateCards"}
          = DOMAIN Always
    BY DEF Always
  <2> QED BY DEF TypeInv, TypeOK, RowTypes, TabType
<1> QED BY <1>1, <1>2, <1>3, PTL DEF Spec

-------------------------------------------------------------------------------
(***************************************************************************)
(* What holds of the rows at each version, and what each pass adds to it   *)
(***************************************************************************)

\* A derived id begins with "placement-" and so is never "null".  It is stated as a
\* hypothesis because the provers know nothing of "\o" on strings.
NamesAreNotNull == \A p, x, l : derivePlacementId(p, x, l) # Null

DemoIn(s, n) == \A k \in 1..n : DemoRows[k].id \in DOMAIN s[DemoRows[k].in]

\* A row of a database that has never held anything else
FreshRow(c, id, row) ==
  \/ \E k \in 1..12 : DemoRows[k] = Insert(c, id, row)
  \/ c = "shifts" /\ id \in LegacyShifts /\ LegacyShift(id) = <<Insert(c, id, row)>>
  \/ c = "complianceProfiles"

\* Before 003 is done the rows are those of 001 and 002, or copies of what the
\* localStorage of an earlier release holds.
Early(v, local, s) ==
  \/ /\ \A c \in Collections \ {"complianceProfiles"} : local[c] = NoFields
     /\ \A c \in Collections : \A id \in DOMAIN s[c] : FreshRow(c, id, s[c][id])
     /\ v >= 1 => "compliance-default" \in DOMAIN s.complianceProfiles \cup DOMAIN local.complianceProfiles
     /\ v = 2 => DemoIn(s, 12)
  \/ /\ v = 2 /\ "compliance-default" \in DOMAIN local.complianceProfiles
     /\ \A c \in Collections \ Copied : local[c] = NoFields
     /\ Related(2, local) /\ Undoubled(local)
     /\ \A c \in Collections : \A id \in DOMAIN s[c] : id \in DOMAIN local[c] /\ s[c][id] = local[c][id]

Named(s) == Null \notin DOMAIN s.rateCards /\ Null \notin DOMAIN s.workspaces /\ Null \notin DOMAIN s.assignments

Good(v, local, s) ==
  /\ v < 3 => Early(v, local, s)
  /\ v >= 3 => ShapeOf(v, local, s) /\ Related(v, s) /\ Undoubled(s) /\ Named(s)

\* The fields that AddField adds
Columns == {"archivedAt", "lastUsedAssignmentId", "preferredAssignmentId", "motExpiryDate"}

\* The ids that pass p visits, and the row it finds under one
Targets(local, p, s) ==
  CASE p.does \in {"init", "demo"} -> {p.does}
    [] p.does = "hgv-shifts" -> LegacyShifts
    [] p.does = "copy" -> DOMAIN local[p.over]
    [] p.does = "insert" -> {s.rateCards[r].lineageId : r \in DOMAIN s.rateCards}
    [] OTHER -> DOMAIN s[p.over]

Item(local, p, s, id) ==
  [in |-> p.over, id |-> id,
   row |-> CASE p.does \in {"init", "demo", "hgv-shifts", "insert"} -> NoFields
             [] p.does = "copy" -> local[p.over][id]
             [] OTHER -> s[p.over][id]]

\* What pass p has done once it has visited id
Settled(p, s, id) ==
  /\ p.does = "init" => "compliance-default" \in DOMAIN s.complianceProfiles
  /\ p.does = "demo" => DemoIn(s, 12)
  /\ p.does = "copy" => id \in DOMAIN s[p.over]
  /\ p.does = "version" => Get(s.rateCards[id], "lineageId") # Null
  /\ p.does = "line" =>
       \/ Get(s.assignments[id], "rateCardLineageId") # Null
       \/ Get(s.assignments[id], "rateCardId") \notin DOMAIN s.rateCards
  /\ p.does = "pin" =>
       LET lineage == LineageOf(s, s.shifts[id].assignmentId)
       IN \/ Get(s.shifts[id], "rateCardId") # Null \/ lineage = Null
          \/ EffectiveCards(s, lineage, s.shifts[id].date) = {}
  /\ p.does = "type" => Get(s.organisations[id], "types") # Null
  /\ p.does = "insert" => id \in DOMAIN s.rateCardLineages
  /\ p.does = "employer" =>
       \/ Get(s.engagements[id], "employerOrganisationId") # Null
       \/ Get(s.engagements[id], "organisationId") = Null
  /\ p.does = "client" /\ s.sites[id].clientName # Null =>
       s.organisations[s.sites[id].organisationId].types \notin SelfTypes
  /\ p.does = "workspace" => Get(s.driverProfiles[id], "workspaceId") # Null
  /\ p.does = "provider" => Get(s.engagements[id], "providerOrganisationId") # Null
  /\ p.does = "placement" => Get(s.assignments[id], "placementId") # Null
  /\ p.does = "template" =>
       \E c \in DOMAIN s.checklistTemplates : s.checklistTemplates[c].workspaceId = id
  /\ p.does = "payType" => "payType" \in DOMAIN s.rateCardLineages[id]
  /\ p.does \in Columns => p.does \in DOMAIN s[p.over][id]

Done(local, p, s) == \A id \in Targets(local, p, s) : Settled(p, s, id)

\* The passes of 004 and later, with the collections they go over
LEMMA LatePasses ==
  /\ Len(PassesOf[4]) = 3 /\ Len(PassesOf[5]) = 5 /\ Len(PassesOf[6]) = 2 /\ Len(PassesOf[7]) = 2
  /\ Len(PassesOf[8]) = 2 /\ Len(PassesOf[9]) = 1 /\ Len(PassesOf[10]) = 1 /\ Len(PassesOf[11]) = 1
  /\ Len(PassesOf[12]) = 0 /\ Len(PassesOf[13]) = 0 /\ Len(PassesOf[14]) = 1
  /\ PassesOf[4][1] = On("version", "rateCards") /\ PassesOf[4][2] = On("line", "assignments")
  /\ PassesOf[4][3] = On("pin", "shifts")
  /\ PassesOf[5][1] = On("type", "organisations") /\ PassesOf[5][2] = On("archivedAt", "sites")
  /\ PassesOf[5][3] = On("archivedAt", "memberships")
  /\ PassesOf[5][4] = On("lastUsedAssignmentId", "driverProfiles")
  /\ PassesOf[5][5] = On("insert", "rateCardLineages")
  /\ PassesOf[6][1] = On("employer", "engagements") /\ PassesOf[6][2] = On("client", "sites")
  /\ PassesOf[7][1] = On("archivedAt", "people") /\ PassesOf[7][2] = On("workspace", "driverProfiles")
  /\ PassesOf[8][1] = On("provider", "engagements") /\ PassesOf[8][2] = On("placement", "assignments")
  /\ PassesOf[9][1] = On("template", "workspaces")
  /\ PassesOf[10][1] = On("preferredAssignmentId", "driverProfiles")
  /\ PassesOf[11][1] = On("payType", "rateCardLineages")
  /\ PassesOf[14][1] = On("motExpiryDate", "vehicles")
  BY DEF PassesOf

\* Settled, pass by pass
LEMMA SettledIs ==
  ASSUME NEW s, NEW id
  PROVE  /\ Settled(On("version", "rateCards"), s, id) <=>
              Get(s.rateCards[id], "lineageId") # Null
         /\ Settled(On("line", "assignments"), s, id) <=>
              Get(s.assignments[id], "rateCardLineageId") # Null \/ Get(s.assignments[id], "rateCardId") \notin DOMAIN s.rateCards
         /\ Settled(On("pin", "shifts"), s, id) <=>
              \/ Get(s.shifts[id], "rateCardId") # Null
              \/ LineageOf(s, s.shifts[id].assignmentId) = Null
              \/ EffectiveCards(s, LineageOf(s, s.shifts[id].assignmentId), s.shifts[id].date) = {}
         /\ Settled(On("type", "organisations"), s, id) <=>
              Get(s.organisations[id], "types") # Null
         /\ Settled(On("insert", "rateCardLineages"), s, id) <=>
              id \in DOMAIN s.rateCardLineages
         /\ Settled(On("employer", "engagements"), s, id) <=>
              Get(s.engagements[id], "employerOrganisationId") # Null \/ Get(s.engagements[id], "organisationId") = Null
         /\ Settled(On("client", "sites"), s, id) <=>
              (s.sites[id].clientName # Null
                 => s.organisations[s.sites[id].organisationId].types \notin SelfTypes)
         /\ Settled(On("workspace", "driverProfiles"), s, id) <=>
              Get(s.driverProfiles[id], "workspaceId") # Null
         /\ Settled(On("provider", "engagements"), s, id) <=>
              Get(s.engagements[id], "providerOrganisationId") # Null
         /\ Settled(On("placement", "assignments"), s, id) <=>
              Get(s.assignments[id], "placementId") # Null
         /\ Settled(On("template", "workspaces"), s, id) <=>
              \E c \in DOMAIN s.checklistTemplates : s.checklistTemplates[c].workspaceId = id
         /\ Settled(On("payType", "rateCardLineages"), s, id) <=>
              "payType" \in DOMAIN s.rateCardLineages[id]
         /\ Settled(On("archivedAt", "sites"), s, id) <=>
              "archivedAt" \in DOMAIN s.sites[id]
         /\ Settled(On("archivedAt", "memberships"), s, id) <=>
              "archivedAt" \in DOMAIN s.memberships[id]
         /\ Settled(On("archivedAt", "people"), s, id) <=>
              "archivedAt" \in DOMAIN s.people[id]
         /\ Settled(On("lastUsedAssignmentId", "driverProfiles"), s, id) <=>
              "lastUsedAssignmentId" \in DOMAIN s.driverProfiles[id]
         /\ Settled(On("preferredAssignmentId", "driverProfiles"), s, id) <=>
              "preferredAssignmentId" \in DOMAIN s.driverProfiles[id]
         /\ Settled(On("motExpiryDate", "vehicles"), s, id) <=>
              "motExpiryDate" \in DOMAIN s.vehicles[id]
  BY DEF Settled, On, Columns

LEMMA TargetsAre ==
  ASSUME NEW local, NEW s, NEW does, NEW over
  PROVE  /\ does \notin {"init", "demo", "hgv-shifts", "copy", "insert"}
              => Targets(local, On(does, over), s) = DOMAIN s[over]
         /\ Targets(local, On("insert", over), s) = {s.rateCards[r].lineageId : r \in DOMAIN s.rateCards}
  BY DEF Targets, On

\* The migrations after 003: what their passes have done is the next version's shape.
LEMMA LateFinish ==
  ASSUME NEW local, NEW s, RowTypes(s), NEW v \in 3..13, Good(v, local, s),
         \A k \in 1..Len(PassesOf[v + 1]) : Done(local, PassesOf[v + 1][k], s)
  PROVE  Good(v + 1, local, s)
<1> SUFFICES ShapeOf(v + 1, local, s) /\ Related(v + 1, s)
  BY DEF Good
<1>0. ShapeOf(v, local, s) /\ Related(v, s)
  BY DEF Good
<1>1. CASE v = 3
  <2>1. Done(local, PassesOf[4][1], s) /\ Done(local, PassesOf[4][2], s) /\ Done(local, PassesOf[4][3], s)
    BY <1>1, LatePasses
  <2>2. /\ Done(local, On("version", "rateCards"), s)
        /\ Done(local, On("line", "assignments"), s)
        /\ Done(local, On("pin", "shifts"), s)
    BY <2>1, LatePasses
  <2>3. CardsVersioned(s) /\ ShiftsPinned(s)
    <3>1. CardsVersioned(s)
      BY <2>2, TargetsAre, SettledIs DEF Done, CardsVersioned, Filled
    <3>2. \A h \in DOMAIN s.shifts : Settled(On("pin", "shifts"), s, h)
      BY <2>2, TargetsAre DEF Done
    <3>3. ShiftsPinned(s)
      BY <3>2, SettledIs DEF ShiftsPinned
    <3> QED BY <3>1, <3>3
  <2>4. ShapeOf(4, local, s)
    BY <1>0, <1>1, <2>3 DEF ShapeOf
  <2>5. AssignmentsRelated(4, s)
    BY <1>0, <1>1, <2>2, TargetsAre, SettledIs DEF Done, Related, AssignmentsRelated
  <2>6. Related(4, s)
    BY <1>0, <1>1, <2>5 DEF Related, EngagementsRelated
  <2> QED BY <1>1, <2>4, <2>6
<1>2. CASE v = 4
  <2>1. Done(local, PassesOf[5][1], s) /\ Done(local, PassesOf[5][2], s) /\ Done(local, PassesOf[5][3], s) /\ Done(local, PassesOf[5][4], s) /\ Done(local, PassesOf[5][5], s)
    <3>1. \A k \in 1..5 : Done(local, PassesOf[5][k], s)
      BY <1>2, LatePasses
    <3> QED BY <3>1
  <2>2. /\ Done(local, On("type", "organisations"), s)
        /\ Done(local, On("archivedAt", "sites"), s)
        /\ Done(local, On("archivedAt", "memberships"), s)
        /\ Done(local, On("lastUsedAssignmentId", "driverProfiles"), s)
        /\ Done(local, On("insert", "rateCardLineages"), s)
    BY <2>1, LatePasses
  <2>3. MasterDataAdded(s) /\ LineagesExist(s)
    BY <2>2, TargetsAre, SettledIs DEF Done, MasterDataAdded, LineagesExist, Filled, HasFields
  <2>4. ShapeOf(5, local, s)
    BY <1>0, <1>2, <2>3 DEF ShapeOf
  <2>5. Related(5, s)
    BY <1>0, <1>2 DEF Related, EngagementsRelated, AssignmentsRelated
  <2> QED BY <1>2, <2>4, <2>5
<1>3. CASE v = 5
  <2>1. Done(local, PassesOf[6][1], s) /\ Done(local, PassesOf[6][2], s)
    BY <1>3, LatePasses
  <2>2. /\ Done(local, On("employer", "engagements"), s)
        /\ Done(local, On("client", "sites"), s)
    BY <2>1, LatePasses
  <2>3. ClientsOwnSites(s)
    BY <2>2, TargetsAre, SettledIs DEF Done, ClientsOwnSites
  <2>4. ShapeOf(6, local, s)
    BY <1>0, <1>3, <2>3 DEF ShapeOf
  <2>5. EngagementsRelated(6, s)
    BY <1>0, <1>3, <2>2, TargetsAre, SettledIs DEF Done, Related, EngagementsRelated
  <2>6. Related(6, s)
    BY <1>0, <1>3, <2>5 DEF Related, AssignmentsRelated
  <2> QED BY <1>3, <2>4, <2>6
<1>4. CASE v = 6
  <2>1. Done(local, PassesOf[7][1], s) /\ Done(local, PassesOf[7][2], s)
    BY <1>4, LatePasses
  <2>2. /\ Done(local, On("archivedAt", "people"), s)
        /\ Done(local, On("workspace", "driverProfiles"), s)
    BY <2>1, LatePasses
  <2>3. ProfilesRefined(s)
    BY <2>2, TargetsAre, SettledIs DEF Done, ProfilesRefined, HasFields, Filled
  <2>4. ShapeOf(7, local, s)
    BY <1>0, <1>4, <2>3 DEF ShapeOf
  <2>5. Related(7, s)
    BY <1>0, <1>4 DEF Related, EngagementsRelated, AssignmentsRelated
  <2> QED BY <1>4, <2>4, <2>5
<1>5. CASE v = 7
  <2>1. Done(local, PassesOf[8][1], s) /\ Done(local, PassesOf[8][2], s)
    BY <1>5, LatePasses
  <2>2. /\ Done(local, On("provider", "engagements"), s)
        /\ Done(local, On("placement", "assignments"), s)
    BY <2>1, LatePasses
  <2>3. PlacementsAdded(s)
    BY <2>2, TargetsAre, SettledIs DEF Done, PlacementsAdded, Filled
  <2>4. ShapeOf(8, local, s)
    BY <1>0, <1>5, <2>3 DEF ShapeOf
  <2>5. Related(8, s)
    BY <1>0, <1>5 DEF Related, EngagementsRelated, AssignmentsRelated
  <2> QED BY <1>5, <2>4, <2>5
<1>6. CASE v = 8
  <2>1. Done(local, PassesOf[9][1], s)
    BY <1>6, LatePasses
  <2>2. Done(local, On("template", "workspaces"), s)
    BY <2>1, LatePasses
  <2>3. TemplatesAdded(s)
    <3>1. \A w \in DOMAIN s.workspaces : Settled(On("template", "workspaces"), s, w)
      BY <2>2, TargetsAre DEF Done
    <3> QED BY <3>1, SettledIs DEF TemplatesAdded
  <2>4. ShapeOf(9, local, s)
    BY <1>0, <1>6, <2>3 DEF ShapeOf
  <2>5. Related(9, s)
    BY <1>0, <1>6 DEF Related, EngagementsRelated, AssignmentsRelated
  <2> QED BY <1>6, <2>4, <2>5
<1>7. CASE v = 9
  <2>1. Done(local, PassesOf[10][1], s)
    BY <1>7, LatePasses
  <2>2. Done(local, On("preferredAssignmentId", "driverProfiles"), s)
    BY <2>1, LatePasses
  <2>3. HasFields(s.driverProfiles, {"preferredAssignmentId"})
    BY <2>2, TargetsAre, SettledIs DEF Done, HasFields
  <2>4. ShapeOf(10, local, s)
    BY <1>0, <1>7, <2>3 DEF ShapeOf
  <2>5. Related(10, s)
    BY <1>0, <1>7 DEF Related, EngagementsRelated, AssignmentsRelated
  <2> QED BY <1>7, <2>4, <2>5
<1>8. CASE v = 10
  <2>1. Done(local, PassesOf[11][1], s)
    BY <1>8, LatePasses
  <2>2. Done(local, On("payType", "rateCardLineages"), s)
    BY <2>1, LatePasses
  <2>3. HasFields(s.rateCardLineages, {"payType"})
    BY <2>2, TargetsAre, SettledIs DEF Done, HasFields
  <2>4. ShapeOf(11, local, s)
    BY <1>0, <1>8, <2>3 DEF ShapeOf
  <2>5. Related(11, s)
    BY <1>0, <1>8 DEF Related, EngagementsRelated, AssignmentsRelated
  <2> QED BY <1>8, <2>4, <2>5
<1>9. CASE v \in {11, 12}
  BY <1>0, <1>9 DEF ShapeOf, Related, EngagementsRelated, AssignmentsRelated
<1>10. CASE v = 13
  <2>1. Done(local, PassesOf[14][1], s)
    BY <1>10, LatePasses
  <2>2. Done(local, On("motExpiryDate", "vehicles"), s)
    BY <2>1, LatePasses
  <2>3. HasFields(s.vehicles, {"motExpiryDate"})
    BY <2>2, TargetsAre, SettledIs DEF Done, HasFields
  <2>4. ShapeOf(14, local, s)
    BY <1>0, <1>10, <2>3 DEF ShapeOf
  <2>5. Related(14, s)
    BY <1>0, <1>10 DEF Related, EngagementsRelated, AssignmentsRelated
  <2> QED BY <1>10, <2>4, <2>5
<1> QED BY <1>1, <1>2, <1>3, <1>4, <1>5, <1>6, <1>7, <1>8, <1>9, <1>10


\* The fields that the passes add or fill in existing rows
Fillable == [
  rateCards |-> {"lineageId"}, assignments |-> {"rateCardLineageId", "placementId"},
  shifts |-> {"rateCardId"}, organisations |-> {"types"}, sites |-> {"archivedAt"},
  memberships |-> {"archivedAt"}, people |-> {"archivedAt"},
  driverProfiles |-> {"lastUsedAssignmentId", "workspaceId", "preferredAssignmentId"},
  engagements |-> {"employerOrganisationId", "providerOrganisationId", "relationshipType"},
  rateCardLineages |-> {"payType"}, vehicles |-> {"motExpiryDate"}]

RowFills(fields, old, new) ==
  /\ \A f \in DOMAIN old : f \in DOMAIN new /\ (new[f] = old[f] \/ (f \in fields /\ old[f] = Null))
  /\ \A f \in DOMAIN new : f \in DOMAIN old \/ f \in fields

\* s2 is s with some fields filled that were missing or Null.
Fills(s, s2) ==
  /\ \A c \in Collections : DOMAIN s2[c] = DOMAIN s[c] /\ (c \in DOMAIN Fillable \/ s2[c] = s[c])
  /\ \A c \in DOMAIN Fillable : \A id \in DOMAIN s[c] : RowFills(Fillable[c], s[c][id], s2[c][id])

\* What such a filling keeps of a collection
Kept(old, new) ==
  DOMAIN new = DOMAIN old /\ \A id \in DOMAIN old : \A f :
    /\ f \in DOMAIN old[id] => f \in DOMAIN new[id]
    /\ Get(old[id], f) # Null => Get(new[id], f) = Get(old[id], f)

LEMMA KeptIs ==
  ASSUME NEW old, NEW new, Kept(old, new)
  PROVE  /\ \A f : Filled(old, f) => Filled(new, f)
         /\ \A F : HasFields(old, F) => HasFields(new, F)
  BY DEF Kept, Filled, HasFields

LEMMA RowFillsIs ==
  ASSUME NEW fields, NEW old, NEW new, RowFills(fields, old, new), NEW f
  PROVE  /\ f \in DOMAIN old => f \in DOMAIN new
         /\ f \in DOMAIN old /\ f \notin fields => new[f] = old[f]
         /\ f \notin fields => Get(new, f) = Get(old, f)
         /\ Get(old, f) # Null => Get(new, f) = Get(old, f)
  BY DEF RowFills, Get

LEMMA FillFacts ==
  ASSUME NEW s, NEW s2, RowTypes(s), Fills(s, s2)
  PROVE  /\ \A c \in Collections : DOMAIN s2[c] = DOMAIN s[c]
         /\ DOMAIN s2.rateCards = DOMAIN s.rateCards /\ DOMAIN s2.assignments = DOMAIN s.assignments
         /\ DOMAIN s2.shifts = DOMAIN s.shifts /\ DOMAIN s2.organisations = DOMAIN s.organisations
         /\ DOMAIN s2.sites = DOMAIN s.sites /\ DOMAIN s2.driverProfiles = DOMAIN s.driverProfiles
         /\ DOMAIN s2.engagements = DOMAIN s.engagements
         /\ DOMAIN s2.rateCardLineages = DOMAIN s.rateCardLineages
         /\ s2.workspaces = s.workspaces /\ s2.placements = s.placements
         /\ s2.checklistTemplates = s.checklistTemplates /\ s2.complianceProfiles = s.complianceProfiles
         /\ \A x \in DOMAIN s.sites :
              /\ s2.sites[x].organisationId = s.sites[x].organisationId
              /\ s2.sites[x].clientName = s.sites[x].clientName
         /\ \A o \in DOMAIN s.organisations :
              /\ s2.organisations[o].workspaceId = s.organisations[o].workspaceId
              /\ s2.organisations[o].tradingName = s.organisations[o].tradingName
         /\ \A r \in DOMAIN s.rateCards : s2.rateCards[r].effectiveFrom = s.rateCards[r].effectiveFrom
         /\ \A h \in DOMAIN s.shifts :
              s2.shifts[h].assignmentId = s.shifts[h].assignmentId /\ s2.shifts[h].date = s.shifts[h].date
         /\ \A a \in DOMAIN s.assignments :
              /\ s2.assignments[a].engagementId = s.assignments[a].engagementId
              /\ Get(s2.assignments[a], "siteId") = Get(s.assignments[a], "siteId")
              /\ Get(s2.assignments[a], "rateCardId") = Get(s.assignments[a], "rateCardId")
         /\ \A e \in DOMAIN s.engagements :
              Get(s2.engagements[e], "organisationId") = Get(s.engagements[e], "organisationId")
         /\ \A d \in DOMAIN s.driverProfiles : s2.driverProfiles[d].personId = s.driverProfiles[d].personId
         /\ Kept(s.rateCards, s2.rateCards) /\ Kept(s.assignments, s2.assignments)
         /\ Kept(s.shifts, s2.shifts) /\ Kept(s.organisations, s2.organisations)
         /\ Kept(s.sites, s2.sites) /\ Kept(s.memberships, s2.memberships)
         /\ Kept(s.people, s2.people) /\ Kept(s.driverProfiles, s2.driverProfiles)
         /\ Kept(s.engagements, s2.engagements)
         /\ Kept(s.rateCardLineages, s2.rateCardLineages) /\ Kept(s.vehicles, s2.vehicles)
<1>1. \A c \in Collections : DOMAIN s2[c] = DOMAIN s[c]
  BY DEF Fills
<1>14. /\ DOMAIN s2.rateCards = DOMAIN s.rateCards /\ DOMAIN s2.assignments = DOMAIN s.assignments
       /\ DOMAIN s2.shifts = DOMAIN s.shifts /\ DOMAIN s2.organisations = DOMAIN s.organisations
       /\ DOMAIN s2.sites = DOMAIN s.sites /\ DOMAIN s2.driverProfiles = DOMAIN s.driverProfiles
       /\ DOMAIN s2.engagements = DOMAIN s.engagements
       /\ DOMAIN s2.rateCardLineages = DOMAIN s.rateCardLineages
  BY <1>1 DEF Collections
<1>2. /\ s2.workspaces = s.workspaces /\ s2.placements = s.placements
      /\ s2.checklistTemplates = s.checklistTemplates /\ s2.complianceProfiles = s.complianceProfiles
  BY DEF Fills, Fillable, Collections
<1>3. ASSUME NEW c \in DOMAIN Fillable, NEW id \in DOMAIN s[c]
      PROVE  RowFills(Fillable[c], s[c][id], s2[c][id])
  BY <1>3 DEF Fills
<1>4. /\ DOMAIN Fillable = {"rateCards", "assignments", "shifts", "organisations", "sites", "memberships",
           "people", "driverProfiles", "engagements", "rateCardLineages", "vehicles"}
      /\ Fillable["rateCards"] = {"lineageId"}
      /\ Fillable["assignments"] = {"rateCardLineageId", "placementId"}
      /\ Fillable["shifts"] = {"rateCardId"} /\ Fillable["organisations"] = {"types"}
      /\ Fillable["sites"] = {"archivedAt"}
      /\ Fillable["driverProfiles"] = {"lastUsedAssignmentId", "workspaceId", "preferredAssignmentId"}
      /\ Fillable["engagements"] = {"employerOrganisationId", "providerOrganisationId", "relationshipType"}
  BY DEF Fillable
<1>5. /\ \A x \in DOMAIN s.sites : {"organisationId", "clientName"} \subseteq DOMAIN s.sites[x]
      /\ \A x \in DOMAIN s.organisations : {"workspaceId", "tradingName"} \subseteq DOMAIN s.organisations[x]
      /\ \A x \in DOMAIN s.rateCards : "effectiveFrom" \in DOMAIN s.rateCards[x]
      /\ \A x \in DOMAIN s.shifts : {"assignmentId", "date"} \subseteq DOMAIN s.shifts[x]
      /\ \A x \in DOMAIN s.assignments : "engagementId" \in DOMAIN s.assignments[x]
      /\ \A x \in DOMAIN s.driverProfiles : "personId" \in DOMAIN s.driverProfiles[x]
  BY DEF RowTypes, Always
<1>6. ASSUME NEW x \in DOMAIN s.sites
      PROVE  /\ s2.sites[x].organisationId = s.sites[x].organisationId
             /\ s2.sites[x].clientName = s.sites[x].clientName
  BY <1>3, <1>4, <1>5, RowFillsIs
<1>7. ASSUME NEW o \in DOMAIN s.organisations
      PROVE  /\ s2.organisations[o].workspaceId = s.organisations[o].workspaceId
             /\ s2.organisations[o].tradingName = s.organisations[o].tradingName
  BY <1>3, <1>4, <1>5, RowFillsIs
<1>8. ASSUME NEW r \in DOMAIN s.rateCards
      PROVE  s2.rateCards[r].effectiveFrom = s.rateCards[r].effectiveFrom
  BY <1>3, <1>4, <1>5, RowFillsIs
<1>9. ASSUME NEW h \in DOMAIN s.shifts
      PROVE  s2.shifts[h].assignmentId = s.shifts[h].assignmentId /\ s2.shifts[h].date = s.shifts[h].date
  BY <1>3, <1>4, <1>5, RowFillsIs
<1>10. ASSUME NEW a \in DOMAIN s.assignments
       PROVE  /\ s2.assignments[a].engagementId = s.assignments[a].engagementId
              /\ Get(s2.assignments[a], "siteId") = Get(s.assignments[a], "siteId")
              /\ Get(s2.assignments[a], "rateCardId") = Get(s.assignments[a], "rateCardId")
  BY <1>3, <1>4, <1>5, RowFillsIs
<1>11. ASSUME NEW e \in DOMAIN s.engagements
       PROVE  Get(s2.engagements[e], "organisationId") = Get(s.engagements[e], "organisationId")
  BY <1>3, <1>4, RowFillsIs
<1>12. ASSUME NEW d \in DOMAIN s.driverProfiles
       PROVE  s2.driverProfiles[d].personId = s.driverProfiles[d].personId
  BY <1>3, <1>4, <1>5, RowFillsIs
<1>13. ASSUME NEW c \in DOMAIN Fillable PROVE Kept(s[c], s2[c])
  <2>1. DOMAIN s2[c] = DOMAIN s[c]
    BY <1>1, <1>4 DEF Collections
  <2> QED BY <1>3, <2>1, RowFillsIs DEF Kept
<1> QED BY <1>1, <1>2, <1>4, <1>6, <1>7, <1>8, <1>9, <1>10, <1>11, <1>12, <1>13, <1>14

\* Filled fields break nothing: no pass reads what another one fills but to see that
\* it is filled.  Only the lineages of assignments must not appear once shifts are pinned.
LEMMA FillKeepsShape ==
  ASSUME NEW local, NEW v \in 3..13, NEW s, NEW s2, RowTypes(s), Fills(s, s2), Good(v, local, s),
         v >= 4 => \A a \in DOMAIN s.assignments :
           Get(s2.assignments[a], "rateCardLineageId") = Get(s.assignments[a], "rateCardLineageId")
  PROVE  ShapeOf(v, local, s2)
<1>1. ShapeOf(v, local, s) /\ SitesRelated(s)
  BY DEF Good, Related
<1>4. /\ Kept(s.rateCards, s2.rateCards) /\ Kept(s.assignments, s2.assignments)
      /\ Kept(s.shifts, s2.shifts) /\ Kept(s.organisations, s2.organisations)
      /\ Kept(s.driverProfiles, s2.driverProfiles) /\ Kept(s.engagements, s2.engagements)
  BY FillFacts
<1>2. Initialised(local, s) => Initialised(local, s2)
  BY FillFacts DEF Initialised
<1>3. Moved(local, s) => Moved(local, s2)
  BY FillFacts DEF Moved
<1>7. CardsVersioned(s) => CardsVersioned(s2)
  BY FillFacts, KeptIs DEF CardsVersioned
<1>8. CardsVersioned(s) => \A r \in DOMAIN s.rateCards :
        /\ Get(s2.rateCards[r], "lineageId") = Get(s.rateCards[r], "lineageId")
        /\ s2.rateCards[r].lineageId = s.rateCards[r].lineageId
  <2> SUFFICES ASSUME CardsVersioned(s), NEW r \in DOMAIN s.rateCards
               PROVE  /\ Get(s2.rateCards[r], "lineageId") = Get(s.rateCards[r], "lineageId")
                      /\ s2.rateCards[r].lineageId = s.rateCards[r].lineageId
    OBVIOUS
  <2>1. Get(s.rateCards[r], "lineageId") # Null
    BY DEF CardsVersioned, Filled
  <2>2. Get(s2.rateCards[r], "lineageId") = Get(s.rateCards[r], "lineageId")
    BY <2>1, <1>4 DEF Kept
  <2> QED BY <2>1, <2>2 DEF Get
<1>9. v >= 4 /\ CardsVersioned(s) /\ ShiftsPinned(s) => ShiftsPinned(s2)
  <2> SUFFICES ASSUME v >= 4, CardsVersioned(s), ShiftsPinned(s), NEW h \in DOMAIN s.shifts,
                      Get(s2.shifts[h], "rateCardId") = Null, LineageOf(s2, s2.shifts[h].assignmentId) # Null
               PROVE  EffectiveCards(s2, LineageOf(s2, s2.shifts[h].assignmentId), s2.shifts[h].date) = {}
    BY FillFacts DEF ShiftsPinned
  <2> DEFINE lineage == LineageOf(s, s.shifts[h].assignmentId)
             date == s.shifts[h].date
  <2>1. Get(s.shifts[h], "rateCardId") = Null
    BY <1>4 DEF Kept
  <2>2. LineageOf(s2, s2.shifts[h].assignmentId) = lineage /\ s2.shifts[h].date = date
    BY FillFacts DEF LineageOf
  <2>3. EffectiveCards(s, lineage, date) = {}
    BY <2>1, <2>2 DEF ShiftsPinned
  <2> HIDE DEF lineage, date
  <2>4. EffectiveCards(s2, lineage, date) = EffectiveCards(s, lineage, date)
    <3>1. \A r \in DOMAIN s.rateCards : s2.rateCards[r].effectiveFrom = s.rateCards[r].effectiveFrom
      BY FillFacts
    <3>2. DOMAIN s2.rateCards = DOMAIN s.rateCards
      BY FillFacts
    <3> QED BY <1>8, <3>1, <3>2 DEF EffectiveCards, VersionsBy
  <2> QED BY <2>2, <2>3, <2>4
<1>10. MasterDataAdded(s) => MasterDataAdded(s2)
  BY FillFacts, KeptIs DEF MasterDataAdded
<1>11. CardsVersioned(s) /\ LineagesExist(s) => LineagesExist(s2)
  BY <1>8, FillFacts DEF LineagesExist
<1>12. MasterDataAdded(s) /\ ClientsOwnSites(s) => ClientsOwnSites(s2)
  <2> SUFFICES ASSUME MasterDataAdded(s), ClientsOwnSites(s), NEW x \in DOMAIN s.sites,
                      s.sites[x].clientName # Null
               PROVE  s2.organisations[s.sites[x].organisationId].types \notin SelfTypes
    BY FillFacts DEF ClientsOwnSites
  <2> DEFINE o == s.sites[x].organisationId
  <2>1. o \in DOMAIN s.organisations
    BY <1>1 DEF SitesRelated
  <2>2. Get(s.organisations[o], "types") # Null
    BY <2>1 DEF MasterDataAdded, Filled
  <2>3. Get(s2.organisations[o], "types") = Get(s.organisations[o], "types")
    BY <2>1, <2>2, <1>4 DEF Kept
  <2>4. s2.organisations[o].types = s.organisations[o].types
    BY <2>2, <2>3 DEF Get
  <2> QED BY <2>4 DEF ClientsOwnSites
<1>13. ProfilesRefined(s) => ProfilesRefined(s2)
  BY FillFacts, KeptIs DEF ProfilesRefined
<1>14. PlacementsAdded(s) => PlacementsAdded(s2)
  BY FillFacts, KeptIs DEF PlacementsAdded
<1>15. TemplatesAdded(s) => TemplatesAdded(s2)
  BY FillFacts DEF TemplatesAdded
<1>16. /\ \A F : HasFields(s.driverProfiles, F) => HasFields(s2.driverProfiles, F)
       /\ \A F : HasFields(s.rateCardLineages, F) => HasFields(s2.rateCardLineages, F)
       /\ \A F : HasFields(s.vehicles, F) => HasFields(s2.vehicles, F)
  BY FillFacts, KeptIs
<1> QED BY <1>1, <1>2, <1>3, <1>7, <1>9, <1>10, <1>11, <1>12, <1>13, <1>14, <1>15, <1>16 DEF ShapeOf

LEMMA FillKeepsRelated ==
  ASSUME NEW local, NEW v \in 3..13, NEW s, NEW s2, RowTypes(s), Fills(s, s2), Good(v, local, s)
  PROVE  Related(v, s2) /\ Undoubled(s2) /\ Named(s2)
<1>1. Related(v, s) /\ Undoubled(s) /\ Named(s)
  BY DEF Good
<1>4. /\ Kept(s.rateCards, s2.rateCards) /\ Kept(s.assignments, s2.assignments)
      /\ Kept(s.shifts, s2.shifts) /\ Kept(s.organisations, s2.organisations)
      /\ Kept(s.driverProfiles, s2.driverProfiles) /\ Kept(s.engagements, s2.engagements)
  BY FillFacts
<1>5. Named(s2)
  BY <1>1, FillFacts DEF Named
<1>6. NamesOnce(s2)
  BY <1>1, FillFacts DEF Undoubled, NamesOnce
<1>7. TemplatesOnce(s2) /\ PlacementsOnce(s2)
  BY <1>1, FillFacts DEF Undoubled, TemplatesOnce, PlacementsOnce
<1>8. SitesRelated(s2)
  <2> SUFFICES ASSUME NEW x \in DOMAIN s.sites
               PROVE  /\ s.sites[x].organisationId \in DOMAIN s.organisations
                      /\ s.sites[x].clientName # Null => \A o \in DOMAIN s.organisations :
                           /\ s.organisations[o].workspaceId
                                = s.organisations[s.sites[x].organisationId].workspaceId
                           /\ s.organisations[o].tradingName = s.sites[x].clientName
                           => Get(s2.organisations[o], "types") = "client"
    BY FillFacts DEF SitesRelated
  <2>1. s.sites[x].organisationId \in DOMAIN s.organisations
    BY <1>1 DEF Related, SitesRelated
  <2>2. ASSUME s.sites[x].clientName # Null, NEW o \in DOMAIN s.organisations,
               s.organisations[o].workspaceId = s.organisations[s.sites[x].organisationId].workspaceId,
               s.organisations[o].tradingName = s.sites[x].clientName
        PROVE  Get(s2.organisations[o], "types") = "client"
    <3>1. Get(s.organisations[o], "types") = "client"
      BY <1>1, <2>2 DEF Related, SitesRelated
    <3> QED BY <3>1, <1>4 DEF Null, Kept
  <2> QED BY <2>1, <2>2
<1>9. DriversRelated(s2)
  <2> SUFFICES ASSUME NEW d \in DOMAIN s.driverProfiles, Get(s2.driverProfiles[d], "workspaceId") = Null
               PROVE  \E w \in DOMAIN s.workspaces :
                        /\ s.workspaces[w].kind = "personal"
                        /\ s.workspaces[w].ownerPersonId = s.driverProfiles[d].personId
    BY FillFacts DEF DriversRelated, Kept
  <2>1. Get(s.driverProfiles[d], "workspaceId") = Null
    BY <1>4 DEF Kept
  <2> QED BY <1>1, <2>1 DEF Related, DriversRelated
<1>10. EngagementsRelated(v, s2)
  <2>1. /\ DOMAIN s2.engagements = DOMAIN s.engagements
        /\ \A e \in DOMAIN s.engagements :
             Get(s2.engagements[e], "organisationId") = Get(s.engagements[e], "organisationId")
    BY FillFacts
  <2> QED BY <1>1, <1>4, <2>1 DEF Related, EngagementsRelated, Kept
<1>11. AssignmentsRelated(v, s2)
  <2> SUFFICES ASSUME NEW a \in DOMAIN s.assignments, Get(s2.assignments[a], "placementId") = Null
               PROVE  /\ s.assignments[a].engagementId \in DOMAIN s.engagements
                      /\ Get(s.assignments[a], "siteId") # Null
                      /\ \/ Get(s2.assignments[a], "rateCardLineageId") # Null
                         \/ v < 4 /\ Get(s.assignments[a], "rateCardId") \in DOMAIN s.rateCards
    BY FillFacts DEF AssignmentsRelated, Kept
  <2>1. Get(s.assignments[a], "placementId") = Null
    BY <1>4 DEF Kept
  <2>2. Get(s.assignments[a], "rateCardLineageId") # Null => Get(s2.assignments[a], "rateCardLineageId") # Null
    BY <1>4 DEF Kept
  <2> QED BY <1>1, <2>1, <2>2 DEF Related, AssignmentsRelated
<1>12. PlacementsDerived(s2)
  <2>1. CASE \A a \in DOMAIN s.assignments : Get(s.assignments[a], "placementId") # Null
    BY <1>4, <2>1 DEF PlacementsDerived, Kept
  <2>2. CASE ~(\A a \in DOMAIN s.assignments : Get(s.assignments[a], "placementId") # Null)
    BY <1>1, <2>2, FillFacts DEF Related, PlacementsDerived
  <2> QED BY <2>1, <2>2
<1> QED BY <1>5, <1>6, <1>7, <1>8, <1>9, <1>10, <1>11, <1>12 DEF Related, Undoubled

\* The passes of the migrations after 003, by the version they start from
LateKind(v, k, p) ==
  \/ v = 3 /\ p = On("version", "rateCards")
  \/ v = 3 /\ p = On("line", "assignments")
  \/ v = 3 /\ p = On("pin", "shifts") /\ k = 3
  \/ v = 4 /\ p = On("type", "organisations")
  \/ v = 4 /\ p = On("archivedAt", "sites")
  \/ v = 4 /\ p = On("archivedAt", "memberships")
  \/ v = 4 /\ p = On("lastUsedAssignmentId", "driverProfiles")
  \/ v = 4 /\ p = On("insert", "rateCardLineages")
  \/ v = 5 /\ p = On("employer", "engagements")
  \/ v = 5 /\ p = On("client", "sites")
  \/ v = 6 /\ p = On("archivedAt", "people")
  \/ v = 6 /\ p = On("workspace", "driverProfiles")
  \/ v = 7 /\ p = On("provider", "engagements")
  \/ v = 7 /\ p = On("placement", "assignments")
  \/ v = 8 /\ p = On("template", "workspaces")
  \/ v = 9 /\ p = On("preferredAssignmentId", "driverProfiles")
  \/ v = 10 /\ p = On("payType", "rateCardLineages")
  \/ v = 13 /\ p = On("motExpiryDate", "vehicles")

LEMMA LateKinds ==
  ASSUME NEW v \in 3..13, NEW k \in 1..Len(PassesOf[v + 1])
  PROVE  LateKind(v, k, PassesOf[v + 1][k])
<1> DEFINE p == PassesOf[v + 1][k]
<1> SUFFICES LateKind(v, k, p)
  OBVIOUS
<1>1. CASE v = 3
  <2>0. v + 1 = 4
    BY <1>1
  <2>1. k \in 1..3 /\ p = PassesOf[4][k]
    <3>1. k \in 1..Len(PassesOf[4]) /\ p = PassesOf[4][k]
      BY <2>0
    <3> QED BY <3>1, LatePasses
  <2> HIDE DEF p
  <2> QED BY <1>1, <2>1, LatePasses DEF LateKind
<1>2. CASE v = 4
  <2>0. v + 1 = 5
    BY <1>2
  <2>1. k \in 1..5 /\ p = PassesOf[5][k]
    <3>1. k \in 1..Len(PassesOf[5]) /\ p = PassesOf[5][k]
      BY <2>0
    <3> QED BY <3>1, LatePasses
  <2>2. k = 1 \/ k = 2 \/ k = 3 \/ k = 4 \/ k = 5
    BY <2>1
  <2> HIDE DEF p
  <2> QED BY <1>2, <2>1, <2>2, LatePasses DEF LateKind
<1>3. CASE v = 5
  <2>0. v + 1 = 6
    BY <1>3
  <2>1. k \in 1..2 /\ p = PassesOf[6][k]
    <3>1. k \in 1..Len(PassesOf[6]) /\ p = PassesOf[6][k]
      BY <2>0
    <3> QED BY <3>1, LatePasses
  <2> HIDE DEF p
  <2> QED BY <1>3, <2>1, LatePasses DEF LateKind
<1>4. CASE v = 6
  <2>0. v + 1 = 7
    BY <1>4
  <2>1. k \in 1..2 /\ p = PassesOf[7][k]
    <3>1. k \in 1..Len(PassesOf[7]) /\ p = PassesOf[7][k]
      BY <2>0
    <3> QED BY <3>1, LatePasses
  <2> HIDE DEF p
  <2> QED BY <1>4, <2>1, LatePasses DEF LateKind
<1>5. CASE v = 7
  <2>0. v + 1 = 8
    BY <1>5
  <2>1. k \in 1..2 /\ p = PassesOf[8][k]
    <3>1. k \in 1..Len(PassesOf[8]) /\ p = PassesOf[8][k]
      BY <2>0
    <3> QED BY <3>1, LatePasses
  <2> HIDE DEF p
  <2> QED BY <1>5, <2>1, LatePasses DEF LateKind
<1>6. CASE v = 8
  <2>0. v + 1 = 9
    BY <1>6
  <2>1. k \in 1..1 /\ p = PassesOf[9][k]
    <3>1. k \in 1..Len(PassesOf[9]) /\ p = PassesOf[9][k]
      BY <2>0
    <3> QED BY <3>1, LatePasses
  <2> HIDE DEF p
  <2> QED BY <1>6, <2>1, LatePasses DEF LateKind
<1>7. CASE v = 9
  <2>0. v + 1 = 10
    BY <1>7
  <2>1. k \in 1..1 /\ p = PassesOf[10][k]
    <3>1. k \in 1..Len(PassesOf[10]) /\ p = PassesOf[10][k]
      BY <2>0
    <3> QED BY <3>1, LatePasses
  <2> HIDE DEF p
  <2> QED BY <1>7, <2>1, LatePasses DEF LateKind
<1>8. CASE v = 10
  <2>0. v + 1 = 11
    BY <1>8
  <2>1. k \in 1..1 /\ p = PassesOf[11][k]
    <3>1. k \in 1..Len(PassesOf[11]) /\ p = PassesOf[11][k]
      BY <2>0
    <3> QED BY <3>1, LatePasses
  <2> HIDE DEF p
  <2> QED BY <1>8, <2>1, LatePasses DEF LateKind
<1>9. CASE v = 11
  BY <1>9, LatePasses
<1>10. CASE v = 12
  BY <1>10, LatePasses
<1>11. CASE v = 13
  <2>0. v + 1 = 14
    BY <1>11
  <2>1. k \in 1..1 /\ p = PassesOf[14][k]
    <3>1. k \in 1..Len(PassesOf[14]) /\ p = PassesOf[14][k]
      BY <2>0
    <3> QED BY <3>1, LatePasses
  <2> HIDE DEF p
  <2> QED BY <1>11, <2>1, LatePasses DEF LateKind
<1> QED BY <1>1, <1>2, <1>3, <1>4, <1>5, <1>6, <1>7, <1>8, <1>9, <1>10, <1>11

\* What is settled remains so while fields are filled.
KeepsSettled(local, p, s, s2) ==
  /\ Targets(local, p, s2) = Targets(local, p, s)
  /\ \A id \in Targets(local, p, s) : Settled(p, s, id) => Settled(p, s2, id)

LEMMA FillKeepsSettled ==
  ASSUME NEW local, NEW v \in 3..13, NEW k \in 1..Len(PassesOf[v + 1]), NEW p, p = PassesOf[v + 1][k],
         NEW s, NEW s2, RowTypes(s), Fills(s, s2), Good(v, local, s),
         p.does = "pin" => s2.rateCards = s.rateCards /\ s2.assignments = s.assignments
  PROVE  KeepsSettled(local, p, s, s2)
<1>0. ShapeOf(v, local, s) /\ SitesRelated(s)
  BY DEF Good, Related
<1>2. ASSUME p = On("version", "rateCards") PROVE KeepsSettled(local, p, s, s2)
  <2>1. Kept(s.rateCards, s2.rateCards)
    BY FillFacts
  <2>3. Targets(local, p, s) = DOMAIN s.rateCards /\ Targets(local, p, s2) = DOMAIN s.rateCards
    BY <1>2, <2>1, TargetsAre DEF Kept
  <2>4. ASSUME NEW id \in DOMAIN s.rateCards, Settled(p, s, id) PROVE Settled(p, s2, id)
    <3>1. Get(s.rateCards[id], "lineageId") # Null
      BY <1>2, <2>4, SettledIs
    <3>2. Get(s2.rateCards[id], "lineageId") = Get(s.rateCards[id], "lineageId")
      BY <2>1, <3>1 DEF Kept
    <3> QED BY <1>2, <3>1, <3>2, SettledIs
  <2> QED BY <2>3, <2>4 DEF KeepsSettled
<1>3. ASSUME p = On("line", "assignments") PROVE KeepsSettled(local, p, s, s2)
  <2>1. Kept(s.assignments, s2.assignments)
    BY FillFacts
  <2>2. /\ DOMAIN s2.rateCards = DOMAIN s.rateCards
        /\ \A a \in DOMAIN s.assignments :
             Get(s2.assignments[a], "rateCardId") = Get(s.assignments[a], "rateCardId")
    BY FillFacts
  <2>3. Targets(local, p, s) = DOMAIN s.assignments /\ Targets(local, p, s2) = DOMAIN s.assignments
    BY <1>3, <2>1, TargetsAre DEF Kept
  <2>4. ASSUME NEW id \in DOMAIN s.assignments, Settled(p, s, id) PROVE Settled(p, s2, id)
    <3>1. Get(s.assignments[id], "rateCardLineageId") # Null \/ Get(s.assignments[id], "rateCardId") \notin DOMAIN s.rateCards
      BY <1>3, <2>4, SettledIs
    <3>2. Get(s.assignments[id], "rateCardLineageId") # Null => Get(s2.assignments[id], "rateCardLineageId") # Null
      BY <2>1 DEF Kept
    <3> QED BY <1>3, <2>2, <3>1, <3>2, SettledIs
  <2> QED BY <2>3, <2>4 DEF KeepsSettled
<1>4. ASSUME p = On("pin", "shifts") PROVE KeepsSettled(local, p, s, s2)
  <2>6. Kept(s.shifts, s2.shifts)
    BY FillFacts
  <2>0. p.does = "pin"
    BY <1>4 DEF On
  <2>1. s2.rateCards = s.rateCards /\ s2.assignments = s.assignments
    BY <2>0
  <2>2. \A h \in DOMAIN s.shifts :
          s2.shifts[h].assignmentId = s.shifts[h].assignmentId /\ s2.shifts[h].date = s.shifts[h].date
    BY FillFacts
  <2>3. \A lineage, date : EffectiveCards(s2, lineage, date) = EffectiveCards(s, lineage, date)
    BY <2>1 DEF EffectiveCards, VersionsBy
  <2>4. \A a : LineageOf(s2, a) = LineageOf(s, a)
    BY <2>1 DEF LineageOf
  <2>5. ASSUME NEW h \in DOMAIN s.shifts, Settled(p, s, h) PROVE Settled(p, s2, h)
    <3>1. \/ Get(s.shifts[h], "rateCardId") # Null
          \/ LineageOf(s, s.shifts[h].assignmentId) = Null
          \/ EffectiveCards(s, LineageOf(s, s.shifts[h].assignmentId), s.shifts[h].date) = {}
      BY <1>4, <2>5, SettledIs
    <3>2. \/ Get(s2.shifts[h], "rateCardId") # Null
          \/ LineageOf(s2, s2.shifts[h].assignmentId) = Null
          \/ EffectiveCards(s2, LineageOf(s2, s2.shifts[h].assignmentId), s2.shifts[h].date) = {}
      BY <2>6, <2>2, <2>3, <2>4, <3>1 DEF Kept
    <3> QED BY <1>4, <3>2, SettledIs
  <2> QED BY <2>6, <1>4, <2>5, TargetsAre DEF KeepsSettled, Kept
<1>5. ASSUME p = On("type", "organisations") PROVE KeepsSettled(local, p, s, s2)
  <2>1. Kept(s.organisations, s2.organisations)
    BY FillFacts
  <2>3. Targets(local, p, s) = DOMAIN s.organisations /\ Targets(local, p, s2) = DOMAIN s.organisations
    BY <1>5, <2>1, TargetsAre DEF Kept
  <2>4. ASSUME NEW id \in DOMAIN s.organisations, Settled(p, s, id) PROVE Settled(p, s2, id)
    <3>1. Get(s.organisations[id], "types") # Null
      BY <1>5, <2>4, SettledIs
    <3>2. Get(s2.organisations[id], "types") = Get(s.organisations[id], "types")
      BY <2>1, <3>1 DEF Kept
    <3> QED BY <1>5, <3>1, <3>2, SettledIs
  <2> QED BY <2>3, <2>4 DEF KeepsSettled
<1>6. ASSUME v >= 4, p = On("insert", "rateCardLineages") PROVE KeepsSettled(local, p, s, s2)
  <2>6. Kept(s.rateCards, s2.rateCards) /\ Kept(s.rateCardLineages, s2.rateCardLineages)
    BY FillFacts
  <2>1. ASSUME NEW r \in DOMAIN s.rateCards PROVE s2.rateCards[r].lineageId = s.rateCards[r].lineageId
    <3>1. Get(s.rateCards[r], "lineageId") # Null
      BY <1>0, <1>6 DEF ShapeOf, CardsVersioned, Filled
    <3>2. Get(s2.rateCards[r], "lineageId") = Get(s.rateCards[r], "lineageId")
      BY <2>6, <3>1 DEF Kept
    <3> QED BY <3>1, <3>2 DEF Get
  <2>2. Targets(local, p, s2) = Targets(local, p, s)
    <3>1. DOMAIN s2.rateCards = DOMAIN s.rateCards
      BY <2>6 DEF Kept
    <3>2. {s2.rateCards[r].lineageId : r \in DOMAIN s2.rateCards} = {s.rateCards[r].lineageId : r \in DOMAIN s.rateCards}
      BY <2>1, <3>1
    <3>3. Targets(local, p, s) = {s.rateCards[r].lineageId : r \in DOMAIN s.rateCards}
      BY <1>6, TargetsAre
    <3>4. Targets(local, p, s2) = {s2.rateCards[r].lineageId : r \in DOMAIN s2.rateCards}
      BY <1>6, TargetsAre
    <3> QED BY <3>2, <3>3, <3>4
  <2> QED BY <2>6, <1>6, <2>2, SettledIs DEF KeepsSettled, Kept
<1>7. ASSUME p = On("employer", "engagements") PROVE KeepsSettled(local, p, s, s2)
  <2>1. Kept(s.engagements, s2.engagements)
    BY FillFacts
  <2>2. \A e \in DOMAIN s.engagements :
          Get(s2.engagements[e], "organisationId") = Get(s.engagements[e], "organisationId")
    BY FillFacts
  <2>3. Targets(local, p, s) = DOMAIN s.engagements /\ Targets(local, p, s2) = DOMAIN s.engagements
    BY <1>7, <2>1, TargetsAre DEF Kept
  <2>4. ASSUME NEW id \in DOMAIN s.engagements, Settled(p, s, id) PROVE Settled(p, s2, id)
    <3>1. Get(s.engagements[id], "employerOrganisationId") # Null \/ Get(s.engagements[id], "organisationId") = Null
      BY <1>7, <2>4, SettledIs
    <3>2. Get(s.engagements[id], "employerOrganisationId") # Null => Get(s2.engagements[id], "employerOrganisationId") # Null
      BY <2>1 DEF Kept
    <3> QED BY <1>7, <2>2, <3>1, <3>2, SettledIs
  <2> QED BY <2>3, <2>4 DEF KeepsSettled
<1>8. ASSUME v >= 5, p = On("client", "sites") PROVE KeepsSettled(local, p, s, s2)
  <2>6. Kept(s.sites, s2.sites) /\ Kept(s.organisations, s2.organisations)
    BY FillFacts
  <2>1. \A x \in DOMAIN s.sites :
          /\ s2.sites[x].organisationId = s.sites[x].organisationId
          /\ s2.sites[x].clientName = s.sites[x].clientName
    BY FillFacts
  <2>2. ASSUME NEW o \in DOMAIN s.organisations PROVE s2.organisations[o].types = s.organisations[o].types
    <3>1. Get(s.organisations[o], "types") # Null
      BY <1>0, <1>8 DEF ShapeOf, MasterDataAdded, Filled
    <3>2. Get(s2.organisations[o], "types") = Get(s.organisations[o], "types")
      BY <2>6, <3>1 DEF Kept
    <3> QED BY <3>1, <3>2 DEF Get
  <2>3. Targets(local, p, s) = DOMAIN s.sites /\ Targets(local, p, s2) = DOMAIN s.sites
    BY <2>6, <1>8, TargetsAre DEF Kept
  <2>4. ASSUME NEW x \in DOMAIN s.sites, Settled(p, s, x) PROVE Settled(p, s2, x)
    <3>1. s.sites[x].organisationId \in DOMAIN s.organisations
      BY <1>0 DEF SitesRelated
    <3> QED BY <1>8, <2>1, <2>2, <2>4, <3>1, SettledIs
  <2> QED BY <2>3, <2>4 DEF KeepsSettled
<1>9. ASSUME p = On("workspace", "driverProfiles") PROVE KeepsSettled(local, p, s, s2)
  <2>1. Kept(s.driverProfiles, s2.driverProfiles)
    BY FillFacts
  <2>3. Targets(local, p, s) = DOMAIN s.driverProfiles /\ Targets(local, p, s2) = DOMAIN s.driverProfiles
    BY <1>9, <2>1, TargetsAre DEF Kept
  <2>4. ASSUME NEW id \in DOMAIN s.driverProfiles, Settled(p, s, id) PROVE Settled(p, s2, id)
    <3>1. Get(s.driverProfiles[id], "workspaceId") # Null
      BY <1>9, <2>4, SettledIs
    <3>2. Get(s2.driverProfiles[id], "workspaceId") = Get(s.driverProfiles[id], "workspaceId")
      BY <2>1, <3>1 DEF Kept
    <3> QED BY <1>9, <3>1, <3>2, SettledIs
  <2> QED BY <2>3, <2>4 DEF KeepsSettled
<1>10. ASSUME p = On("provider", "engagements") PROVE KeepsSettled(local, p, s, s2)
  <2>1. Kept(s.engagements, s2.engagements)
    BY FillFacts
  <2>3. Targets(local, p, s) = DOMAIN s.engagements /\ Targets(local, p, s2) = DOMAIN s.engagements
    BY <1>10, <2>1, TargetsAre DEF Kept
  <2>4. ASSUME NEW id \in DOMAIN s.engagements, Settled(p, s, id) PROVE Settled(p, s2, id)
    <3>1. Get(s.engagements[id], "providerOrganisationId") # Null
      BY <1>10, <2>4, SettledIs
    <3>2. Get(s2.engagements[id], "providerOrganisationId") = Get(s.engagements[id], "providerOrganisationId")
      BY <2>1, <3>1 DEF Kept
    <3> QED BY <1>10, <3>1, <3>2, SettledIs
  <2> QED BY <2>3, <2>4 DEF KeepsSettled
<1>11. ASSUME p = On("placement", "assignments") PROVE KeepsSettled(local, p, s, s2)
  <2>1. Kept(s.assignments, s2.assignments)
    BY FillFacts
  <2>3. Targets(local, p, s) = DOMAIN s.assignments /\ Targets(local, p, s2) = DOMAIN s.assignments
    BY <1>11, <2>1, TargetsAre DEF Kept
  <2>4. ASSUME NEW id \in DOMAIN s.assignments, Settled(p, s, id) PROVE Settled(p, s2, id)
    <3>1. Get(s.assignments[id], "placementId") # Null
      BY <1>11, <2>4, SettledIs
    <3>2. Get(s2.assignments[id], "placementId") = Get(s.assignments[id], "placementId")
      BY <2>1, <3>1 DEF Kept
    <3> QED BY <1>11, <3>1, <3>2, SettledIs
  <2> QED BY <2>3, <2>4 DEF KeepsSettled
<1>12. ASSUME p = On("template", "workspaces") PROVE KeepsSettled(local, p, s, s2)
  <2>1. s2.workspaces = s.workspaces /\ s2.checklistTemplates = s.checklistTemplates
    BY FillFacts
  <2>2. ASSUME NEW id, Settled(p, s, id) PROVE Settled(p, s2, id)
    BY <1>12, <2>1, <2>2, SettledIs
  <2> QED BY <1>12, <2>1, <2>2, TargetsAre DEF KeepsSettled
<1>13. ASSUME p = On("payType", "rateCardLineages") PROVE KeepsSettled(local, p, s, s2)
  <2>1. Kept(s.rateCardLineages, s2.rateCardLineages)
    BY FillFacts
  <2>3. Targets(local, p, s) = DOMAIN s.rateCardLineages /\ Targets(local, p, s2) = DOMAIN s.rateCardLineages
    BY <1>13, <2>1, TargetsAre DEF Kept
  <2>4. ASSUME NEW id \in DOMAIN s.rateCardLineages, Settled(p, s, id) PROVE Settled(p, s2, id)
    BY <1>13, <2>1, <2>4, SettledIs DEF Kept
  <2> QED BY <2>3, <2>4 DEF KeepsSettled
<1>14. ASSUME p = On("archivedAt", "sites") PROVE KeepsSettled(local, p, s, s2)
  <2>1. Kept(s.sites, s2.sites)
    BY FillFacts
  <2>3. Targets(local, p, s) = DOMAIN s.sites /\ Targets(local, p, s2) = DOMAIN s.sites
    BY <1>14, <2>1, TargetsAre DEF Kept
  <2>4. ASSUME NEW id \in DOMAIN s.sites, Settled(p, s, id) PROVE Settled(p, s2, id)
    BY <1>14, <2>1, <2>4, SettledIs DEF Kept
  <2> QED BY <2>3, <2>4 DEF KeepsSettled
<1>15. ASSUME p = On("archivedAt", "memberships") PROVE KeepsSettled(local, p, s, s2)
  <2>1. Kept(s.memberships, s2.memberships)
    BY FillFacts
  <2>3. Targets(local, p, s) = DOMAIN s.memberships /\ Targets(local, p, s2) = DOMAIN s.memberships
    BY <1>15, <2>1, TargetsAre DEF Kept
  <2>4. ASSUME NEW id \in DOMAIN s.memberships, Settled(p, s, id) PROVE Settled(p, s2, id)
    BY <1>15, <2>1, <2>4, SettledIs DEF Kept
  <2> QED BY <2>3, <2>4 DEF KeepsSettled
<1>16. ASSUME p = On("archivedAt", "people") PROVE KeepsSettled(local, p, s, s2)
  <2>1. Kept(s.people, s2.people)
    BY FillFacts
  <2>3. Targets(local, p, s) = DOMAIN s.people /\ Targets(local, p, s2) = DOMAIN s.people
    BY <1>16, <2>1, TargetsAre DEF Kept
  <2>4. ASSUME NEW id \in DOMAIN s.people, Settled(p, s, id) PROVE Settled(p, s2, id)
    BY <1>16, <2>1, <2>4, SettledIs DEF Kept
  <2> QED BY <2>3, <2>4 DEF KeepsSettled
<1>17. ASSUME p = On("lastUsedAssignmentId", "driverProfiles") PROVE KeepsSettled(local, p, s, s2)
  <2>1. Kept(s.driverProfiles, s2.driverProfiles)
    BY FillFacts
  <2>3. Targets(local, p, s) = DOMAIN s.driverProfiles /\ Targets(local, p, s2) = DOMAIN s.driverProfiles
    BY <1>17, <2>1, TargetsAre DEF Kept
  <2>4. ASSUME NEW id \in DOMAIN s.driverProfiles, Settled(p, s, id) PROVE Settled(p, s2, id)
    BY <1>17, <2>1, <2>4, SettledIs DEF Kept
  <2> QED BY <2>3, <2>4 DEF KeepsSettled
<1>18. ASSUME p = On("preferredAssignmentId", "driverProfiles") PROVE KeepsSettled(local, p, s, s2)
  <2>1. Kept(s.driverProfiles, s2.driverProfiles)
    BY FillFacts
  <2>3. Targets(local, p, s) = DOMAIN s.driverProfiles /\ Targets(local, p, s2) = DOMAIN s.driverProfiles
    BY <1>18, <2>1, TargetsAre DEF Kept
  <2>4. ASSUME NEW id \in DOMAIN s.driverProfiles, Settled(p, s, id) PROVE Settled(p, s2, id)
    BY <1>18, <2>1, <2>4, SettledIs DEF Kept
  <2> QED BY <2>3, <2>4 DEF KeepsSettled
<1>19. ASSUME p = On("motExpiryDate", "vehicles") PROVE KeepsSettled(local, p, s, s2)
  <2>1. Kept(s.vehicles, s2.vehicles)
    BY FillFacts
  <2>3. Targets(local, p, s) = DOMAIN s.vehicles /\ Targets(local, p, s2) = DOMAIN s.vehicles
    BY <1>19, <2>1, TargetsAre DEF Kept
  <2>4. ASSUME NEW id \in DOMAIN s.vehicles, Settled(p, s, id) PROVE Settled(p, s2, id)
    BY <1>19, <2>1, <2>4, SettledIs DEF Kept
  <2> QED BY <2>3, <2>4 DEF KeepsSettled
<1>20. LateKind(v, k, p)
  BY LateKinds
<1> QED BY <1>2, <1>3, <1>4, <1>5, <1>6, <1>7, <1>8, <1>9, <1>10, <1>11, <1>12, <1>13, <1>14, <1>15, <1>16, <1>17, <1>18, <1>19, <1>20 DEF LateKind

\* A step of pass k over row id keeps what holds, what is settled and the other rows.
Advances(v, local, k, s, s2, id) ==
  /\ Good(v, local, s2)
  /\ \A j \in 1..k : KeepsSettled(local, PassesOf[v + 1][j], s, s2)
  /\ \A x \in Targets(local, PassesOf[v + 1][k], s) \ {id} :
       Item(local, PassesOf[v + 1][k], s2, x) = Item(local, PassesOf[v + 1][k], s, x)

\* An update that fills fields of row id of c
Patches(s, s2, c, id, patch) ==
  /\ c \in DOMAIN Fillable /\ DOMAIN patch \subseteq Fillable[c]
  /\ \A f \in DOMAIN patch : Get(s[c][id], f) = Null
  /\ Written(s, Update(c, id, patch), s2)

LEMMA PatchFills ==
  ASSUME NEW s, NEW s2, NEW c, NEW id, NEW patch, Patches(s, s2, c, id, patch)
  PROVE  /\ Fills(s, s2) /\ id \in DOMAIN s[c]
         /\ \A d \in Collections \ {c} : s2[d] = s[d]
         /\ \A x \in DOMAIN s[c] \ {id} : s2[c][x] = s[c][x]
         /\ \A f \in DOMAIN patch : f \in DOMAIN s2[c][id] /\ Get(s2[c][id], f) = patch[f]
         /\ \A f : f \notin DOMAIN patch => Get(s2[c][id], f) = Get(s[c][id], f)
<1> USE DEF Patches
<1>0. c \in Collections
  BY DEF Fillable, Collections
<1> DEFINE w == Update(c, id, patch)
<1>1. w.in = c /\ w.id = id /\ w.op = "update" /\ w.row = patch
  BY DEF Update
<1> HIDE DEF w
<1>2. /\ \A d \in Collections \ {c} : s2[d] = s[d]
      /\ DOMAIN s2[c] = DOMAIN s[c] \cup {id}
      /\ \A x \in DOMAIN s[c] \ {id} : s2[c][x] = s[c][x]
      /\ id \in DOMAIN s[c] /\ s2[c][id] = Merge(s[c][id], patch)
  BY <1>0, <1>1 DEF Written, w
<1>3. /\ DOMAIN s2[c][id] = DOMAIN s[c][id] \cup DOMAIN patch
      /\ \A f \in DOMAIN s2[c][id] : s2[c][id][f] = IF f \in DOMAIN patch THEN patch[f] ELSE s[c][id][f]
  BY <1>2 DEF Merge
<1>4. RowFills(Fillable[c], s[c][id], s2[c][id])
  <2>1. \A f \in DOMAIN s[c][id] : f \in DOMAIN patch => s[c][id][f] = Null /\ f \in Fillable[c]
    BY DEF Get
  <2> QED BY <1>3, <2>1 DEF RowFills
<1>5. ASSUME NEW d \in DOMAIN Fillable, NEW x \in DOMAIN s[d]
      PROVE  RowFills(Fillable[d], s[d][x], s2[d][x])
  <2>1. CASE d = c /\ x = id
    BY <1>4, <2>1
  <2>2. CASE d # c \/ x # id
    <3>1. s2[d][x] = s[d][x]
      BY <1>2, <2>2 DEF Fillable, Collections
    <3>2. \A r : RowFills(Fillable[d], r, r)
      BY DEF RowFills
    <3> QED BY <3>1, <3>2
  <2> QED BY <2>1, <2>2
<1>6. Fills(s, s2)
  BY <1>2, <1>5 DEF Fills
<1> QED BY <1>2, <1>3, <1>6 DEF Get

LEMMA FillAdvances ==
  ASSUME NEW local, NEW v \in 3..13, NEW k \in 1..Len(PassesOf[v + 1]), NEW p, p = PassesOf[v + 1][k],
         NEW s, NEW s2, RowTypes(s), Good(v, local, s), p.does # "insert",
         NEW id, NEW patch, Patches(s, s2, p.over, id, patch),
         p.over = "assignments" /\ v >= 4 => "rateCardLineageId" \notin DOMAIN patch
  PROVE  Advances(v, local, k, s, s2, id)
<1>1. /\ Fills(s, s2) /\ id \in DOMAIN s[p.over]
      /\ \A d \in Collections \ {p.over} : s2[d] = s[d]
      /\ \A x \in DOMAIN s[p.over] \ {id} : s2[p.over][x] = s[p.over][x]
      /\ \A f : f \notin DOMAIN patch => Get(s2[p.over][id], f) = Get(s[p.over][id], f)
  BY PatchFills
<1>2. v >= 4 => \A a \in DOMAIN s.assignments :
        Get(s2.assignments[a], "rateCardLineageId") = Get(s.assignments[a], "rateCardLineageId")
  <2> SUFFICES ASSUME v >= 4, NEW a \in DOMAIN s.assignments
               PROVE Get(s2.assignments[a], "rateCardLineageId") = Get(s.assignments[a], "rateCardLineageId")
    OBVIOUS
  <2>1. CASE p.over = "assignments" /\ a = id
    BY <1>1, <2>1
  <2>2. CASE p.over = "assignments" /\ a # id
    BY <1>1, <2>2
  <2>3. CASE p.over # "assignments"
    BY <1>1, <2>3 DEF Collections
  <2> QED BY <2>1, <2>2, <2>3
<1>3. ShapeOf(v, local, s2)
  BY <1>1, <1>2, FillKeepsShape
<1>4. Related(v, s2) /\ Undoubled(s2) /\ Named(s2)
  BY <1>1, FillKeepsRelated
<1>5. Good(v, local, s2)
  BY <1>3, <1>4 DEF Good
<1>6. ASSUME NEW j \in 1..k PROVE KeepsSettled(local, PassesOf[v + 1][j], s, s2)
  <2>0. Len(PassesOf[v + 1]) \in Nat
    <3>1. v + 1 \in 1..LastVersion
      BY DEF LastVersion
    <3> QED BY <3>1, PassesAre
  <2>1. j \in 1..Len(PassesOf[v + 1])
    BY <2>0
  <2> DEFINE o == PassesOf[v + 1][j]
  <2>2. o.does = "pin" => s2.rateCards = s.rateCards /\ s2.assignments = s.assignments
    <3> SUFFICES ASSUME o.does = "pin" PROVE s2.rateCards = s.rateCards /\ s2.assignments = s.assignments
      OBVIOUS
    <3>1. LateKind(v, j, o) /\ LateKind(v, k, p)
      BY <2>1, LateKinds
    <3> HIDE DEF o
    <3>2. v = 3 /\ j = 3
      BY <3>1 DEF LateKind, On
    <3>3. k \in 1..3
      <4>1. v + 1 = 4
        BY <3>2
      <4>2. k \in 1..Len(PassesOf[4])
        BY <4>1
      <4> QED BY <4>2, LatePasses
    <3>4. k = 3
      BY <3>2, <3>3
    <3>5. p = PassesOf[4][3]
      BY <3>2, <3>4
    <3>6. p.over = "shifts"
      BY <3>5, LatePasses DEF On
    <3> QED BY <1>1, <3>6 DEF Collections
  <2> QED BY <1>1, <2>1, <2>2, FillKeepsSettled
<1>7. ASSUME NEW x \in Targets(local, p, s) \ {id} PROVE Item(local, p, s2, x) = Item(local, p, s, x)
  <2>1. LateKind(v, k, p)
    BY LateKinds
  <2>2. p.does \notin {"init", "demo", "hgv-shifts", "copy", "insert"}
    BY <2>1 DEF LateKind, On
  <2>3. x \in DOMAIN s[p.over] \ {id}
    BY <2>2 DEF Targets
  <2>4. s2[p.over][x] = s[p.over][x]
    BY <1>1, <2>3
  <2> QED BY <2>2, <2>4 DEF Item
<1> QED BY <1>5, <1>6, <1>7 DEF Advances

\* The collections that gain rows, or whose rows lose what they had, after 003
Growing == {"organisations", "sites", "placements", "rateCardLineages", "checklistTemplates"}

Grows(s, s2) ==
  /\ \A c \in Collections \ Growing : s2[c] = s[c]
  /\ \A c \in Collections : DOMAIN s[c] \subseteq DOMAIN s2[c]

LEMMA GrowsIs ==
  ASSUME NEW s, NEW s2, Grows(s, s2)
  PROVE  /\ s2.complianceProfiles = s.complianceProfiles /\ s2.rateCards = s.rateCards
         /\ s2.shifts = s.shifts /\ s2.assignments = s.assignments /\ s2.engagements = s.engagements
         /\ s2.driverProfiles = s.driverProfiles /\ s2.workspaces = s.workspaces
         /\ s2.people = s.people /\ s2.memberships = s.memberships /\ s2.vehicles = s.vehicles
  BY DEF Grows, Growing, Collections

LEMMA GrowthKeeps ==
  ASSUME NEW local, NEW v \in 3..13, NEW s, NEW s2, Good(v, local, s), Grows(s, s2)
  PROVE  /\ Initialised(local, s2) /\ Moved(local, s2)
         /\ v >= 4 => CardsVersioned(s2) /\ ShiftsPinned(s2)
         /\ v >= 7 => ProfilesRefined(s2)
         /\ v >= 8 => PlacementsAdded(s2)
         /\ v >= 10 => HasFields(s2.driverProfiles, {"preferredAssignmentId"})
         /\ DriversRelated(s2) /\ EngagementsRelated(v, s2) /\ AssignmentsRelated(v, s2) /\ Named(s2)
<1>1. ShapeOf(v, local, s) /\ Related(v, s) /\ Named(s)
  BY DEF Good
<1>2. Initialised(local, s2) /\ Moved(local, s2)
  BY <1>1, GrowsIs DEF ShapeOf, Initialised, Moved, Grows
<1>3. v >= 4 => CardsVersioned(s2)
  BY <1>1, GrowsIs DEF ShapeOf, CardsVersioned
<1>4. v >= 4 => ShiftsPinned(s2)
  <2>1. \A lineage, date : EffectiveCards(s2, lineage, date) = EffectiveCards(s, lineage, date)
    BY GrowsIs DEF EffectiveCards, VersionsBy
  <2>2. \A a : LineageOf(s2, a) = LineageOf(s, a)
    BY GrowsIs DEF LineageOf
  <2>3. s2.shifts = s.shifts
    BY GrowsIs
  <2>4. v >= 4 => ShiftsPinned(s)
    BY <1>1 DEF ShapeOf
  <2> QED BY <2>1, <2>2, <2>3, <2>4 DEF ShiftsPinned
<1>5. v >= 7 => ProfilesRefined(s2)
  BY <1>1, GrowsIs DEF ShapeOf, ProfilesRefined
<1>6. v >= 8 => PlacementsAdded(s2)
  BY <1>1, GrowsIs DEF ShapeOf, PlacementsAdded
<1>7. v >= 10 => HasFields(s2.driverProfiles, {"preferredAssignmentId"})
  BY <1>1, GrowsIs DEF ShapeOf
<1>8. DriversRelated(s2)
  BY <1>1, GrowsIs DEF Related, DriversRelated
<1>9. EngagementsRelated(v, s2)
  BY <1>1, GrowsIs DEF Related, EngagementsRelated
<1>10. AssignmentsRelated(v, s2)
  BY <1>1, GrowsIs DEF Related, AssignmentsRelated
<1>11. Named(s2)
  BY <1>1, GrowsIs DEF Named
<1> QED BY <1>2, <1>3, <1>4, <1>5, <1>6, <1>7, <1>8, <1>9, <1>10, <1>11

\* What an insert does
LEMMA Inserted ==
  ASSUME NEW s, NEW s2, NEW c \in Growing, NEW id, NEW row, Written(s, Insert(c, id, row), s2)
  PROVE  /\ Grows(s, s2) /\ \A d \in Collections \ {c} : s2[d] = s[d]
         /\ id \notin DOMAIN s[c] /\ DOMAIN s2[c] = DOMAIN s[c] \cup {id} /\ s2[c][id] = row
         /\ \A x \in DOMAIN s[c] : s2[c][x] = s[c][x]
<1> DEFINE w == Insert(c, id, row)
<1>1. w.in = c /\ w.id = id /\ w.op = "insert" /\ w.row = row
  BY DEF Insert
<1> HIDE DEF w
<1>2. /\ \A d \in Collections \ {c} : s2[d] = s[d]
      /\ id \notin DOMAIN s[c] /\ DOMAIN s2[c] = DOMAIN s[c] \cup {id} /\ s2[c][id] = row
      /\ \A x \in DOMAIN s[c] \ {id} : s2[c][x] = s[c][x]
  BY <1>1 DEF Written, w
<1>3. Grows(s, s2)
  BY <1>2 DEF Grows
<1> QED BY <1>2, <1>3

LEMMA LineageAdvances ==
  ASSUME NEW local, NEW k \in 1..5, NEW p, p = PassesOf[5][k], p = On("insert", "rateCardLineages"),
         NEW s, NEW s2, RowTypes(s), Good(4, local, s), NEW id,
         Written(s, Insert("rateCardLineages", id, NoFields), s2)
  PROVE  Advances(4, local, k, s, s2, id) /\ Settled(p, s2, id)
<1>0. Good(4, local, s) /\ 4 \in 3..13
  OBVIOUS
<1>1. /\ Grows(s, s2) /\ \A d \in Collections \ {"rateCardLineages"} : s2[d] = s[d]
      /\ DOMAIN s2.rateCardLineages = DOMAIN s.rateCardLineages \cup {id}
  BY Inserted DEF Growing
<1>2. /\ s2.sites = s.sites /\ s2.organisations = s.organisations /\ s2.placements = s.placements
      /\ s2.checklistTemplates = s.checklistTemplates
  BY <1>1 DEF Collections
<1>3. Related(4, s) /\ Undoubled(s)
  BY DEF Good
<1>4. SitesRelated(s2) /\ PlacementsDerived(s2) /\ Undoubled(s2)
  BY <1>1, <1>2, <1>3, GrowsIs
     DEF Related, SitesRelated, PlacementsDerived, Undoubled, NamesOnce, TemplatesOnce, PlacementsOnce
<1>5. Good(4, local, s2)
  BY <1>0, <1>1, <1>4, GrowthKeeps DEF Good, ShapeOf, Related
<1>6. ASSUME NEW j \in 1..k PROVE KeepsSettled(local, PassesOf[5][j], s, s2)
  <2> DEFINE o == PassesOf[5][j]
  <2>1. j \in 1..5
    OBVIOUS
  <2>2. \/ o = On("type", "organisations") \/ o = On("archivedAt", "sites")
        \/ o = On("archivedAt", "memberships") \/ o = On("lastUsedAssignmentId", "driverProfiles")
        \/ o = On("insert", "rateCardLineages")
    BY <2>1, LatePasses
  <2> HIDE DEF o
  <2>3. Targets(local, o, s2) = Targets(local, o, s)
    <3>1. CASE o = On("insert", "rateCardLineages")
      <4>1. s2.rateCards = s.rateCards
        BY <1>1, GrowsIs
      <4> QED BY <3>1, <4>1, TargetsAre
    <3>2. CASE o = On("type", "organisations") \/ o = On("archivedAt", "sites")
      BY <1>2, <3>2, TargetsAre
    <3>3. CASE o = On("archivedAt", "memberships") \/ o = On("lastUsedAssignmentId", "driverProfiles")
      <4>1. s2.memberships = s.memberships /\ s2.driverProfiles = s.driverProfiles
        BY <1>1, GrowsIs
      <4> QED BY <3>3, <4>1, TargetsAre
    <3> QED BY <2>2, <3>1, <3>2, <3>3
  <2>4. \A x : Settled(o, s, x) => Settled(o, s2, x)
    BY <1>1, <1>2, <2>2, GrowsIs, SettledIs
  <2> QED BY <2>3, <2>4 DEF KeepsSettled, o
<1>7. \A x : Item(local, p, s2, x) = Item(local, p, s, x)
  BY DEF Item, On
<1>8. Settled(p, s2, id)
  BY <1>1, SettledIs
<1>9. 4 + 1 = 5
  OBVIOUS
<1> QED BY <1>5, <1>6, <1>7, <1>8, <1>9 DEF Advances

\* No organisation of x's workspace has the name of its client.
NewClient(s, x) ==
  /\ x \in DOMAIN s.sites /\ s.sites[x].clientName # Null
  /\ \A o \in DOMAIN s.organisations :
       ~ /\ s.organisations[o].workspaceId = s.organisations[s.sites[x].organisationId].workspaceId
         /\ s.organisations[o].tradingName = s.sites[x].clientName

ClientRow(s, x) ==
  [workspaceId |-> s.organisations[s.sites[x].organisationId].workspaceId,
   tradingName |-> s.sites[x].clientName, types |-> "client"]

\* o is the organisation of x's client.
ClientOf(s, x, o) ==
  /\ x \in DOMAIN s.sites /\ s.sites[x].clientName # Null /\ o \in DOMAIN s.organisations
  /\ s.organisations[o].workspaceId = s.organisations[s.sites[x].organisationId].workspaceId
  /\ s.organisations[o].tradingName = s.sites[x].clientName
  /\ Get(s.organisations[o], "types") = "client"

LEMMA ClientAdvances ==
  ASSUME NEW local, NEW k \in 1..2, NEW p, p = PassesOf[6][k], p = On("client", "sites"),
         NEW s, NEW s2, RowTypes(s), Good(5, local, s), NEW x, NewClient(s, x), NEW n,
         Written(s, Insert("organisations", n, ClientRow(s, x)), s2)
  PROVE  Advances(5, local, k, s, s2, x) /\ ClientOf(s2, x, n)
<1> DEFINE org == s.sites[x].organisationId
           row == ClientRow(s, x)
<1>0. /\ Good(5, local, s) /\ 5 \in 3..13 /\ ShapeOf(5, local, s) /\ Related(5, s) /\ Undoubled(s)
  BY DEF Good
<1>1. /\ Grows(s, s2) /\ \A d \in Collections \ {"organisations"} : s2[d] = s[d]
      /\ DOMAIN s2.organisations = DOMAIN s.organisations \cup {n}
      /\ n \notin DOMAIN s.organisations /\ s2.organisations[n] = row
      /\ \A o \in DOMAIN s.organisations : s2.organisations[o] = s.organisations[o]
  BY Inserted DEF Growing
<1>2. /\ s2.sites = s.sites /\ s2.placements = s.placements /\ s2.rateCardLineages = s.rateCardLineages
      /\ s2.checklistTemplates = s.checklistTemplates
  BY <1>1 DEF Collections
<1>3. /\ row.workspaceId = s.organisations[org].workspaceId /\ row.tradingName = s.sites[x].clientName
      /\ Get(row, "types") = "client" /\ row.types = "client"
  BY DEF ClientRow, Get
<1>4. \A y \in DOMAIN s.sites : s.sites[y].organisationId \in DOMAIN s.organisations
  BY <1>0 DEF Related, SitesRelated
<1> HIDE DEF row
<1>5. SitesRelated(s2)
  <2> SUFFICES ASSUME NEW y \in DOMAIN s.sites, s.sites[y].clientName # Null,
                      NEW o \in DOMAIN s2.organisations,
                      s2.organisations[o].workspaceId
                        = s2.organisations[s.sites[y].organisationId].workspaceId,
                      s2.organisations[o].tradingName = s.sites[y].clientName
               PROVE  Get(s2.organisations[o], "types") = "client"
    BY <1>1, <1>2, <1>4 DEF SitesRelated
  <2>1. CASE o = n
    BY <1>1, <1>3, <2>1
  <2>2. CASE o # n
    <3>1. /\ o \in DOMAIN s.organisations /\ s2.organisations[o] = s.organisations[o]
          /\ s2.organisations[s.sites[y].organisationId] = s.organisations[s.sites[y].organisationId]
      BY <1>1, <1>4, <2>2
    <3> QED BY <1>0, <3>1 DEF Related, SitesRelated
  <2> QED BY <2>1, <2>2
<1>6. NamesOnce(s2)
  <2> SUFFICES ASSUME NEW o \in DOMAIN s2.organisations, NEW q \in DOMAIN s2.organisations,
                      s2.organisations[o].workspaceId = s2.organisations[q].workspaceId,
                      s2.organisations[o].tradingName = s2.organisations[q].tradingName
               PROVE  o = q
    BY DEF NamesOnce
  <2>1. CASE o # n /\ q # n
    BY <1>0, <1>1, <2>1 DEF Undoubled, NamesOnce
  <2>2. CASE o = n /\ q # n
    BY <1>1, <1>3, <2>2 DEF NewClient
  <2>3. CASE o # n /\ q = n
    BY <1>1, <1>3, <2>3 DEF NewClient
  <2> QED BY <2>1, <2>2, <2>3
<1>7. Undoubled(s2) /\ PlacementsDerived(s2)
  <2>1. s2.assignments = s.assignments
    BY <1>1, GrowsIs
  <2> QED BY <1>0, <1>2, <1>6, <2>1
       DEF Related, Undoubled, TemplatesOnce, PlacementsOnce, PlacementsDerived
<1>8. MasterDataAdded(s2) /\ LineagesExist(s2)
  <2>1. MasterDataAdded(s) /\ LineagesExist(s)
    BY <1>0 DEF ShapeOf
  <2>2. Filled(s2.organisations, "types")
    <3>1. "client" # Null
      BY DEF Null
    <3> QED BY <1>1, <1>3, <2>1, <3>1 DEF MasterDataAdded, Filled
  <2>3. /\ s2.memberships = s.memberships /\ s2.driverProfiles = s.driverProfiles
        /\ s2.rateCards = s.rateCards
    BY <1>1, GrowsIs
  <2> QED BY <1>2, <2>1, <2>2, <2>3 DEF MasterDataAdded, LineagesExist
<1>9. Good(5, local, s2)
  <2>1. ShapeOf(5, local, s2)
    BY <1>0, <1>1, <1>8, GrowthKeeps DEF ShapeOf
  <2>2. Related(5, s2) /\ Named(s2)
    BY <1>0, <1>1, <1>5, <1>7, GrowthKeeps DEF Related
  <2> QED BY <1>7, <2>1, <2>2 DEF Good
<1>10. ASSUME NEW j \in 1..k PROVE KeepsSettled(local, PassesOf[6][j], s, s2)
  <2> DEFINE o == PassesOf[6][j]
  <2>1. j \in 1..2
    OBVIOUS
  <2>2. o = On("employer", "engagements") \/ o = On("client", "sites")
    BY <2>1, LatePasses
  <2> HIDE DEF o
  <2>3. CASE o = On("employer", "engagements")
    <3>1. s2.engagements = s.engagements
      BY <1>1, GrowsIs
    <3>2. Targets(local, o, s2) = Targets(local, o, s)
      BY <2>3, <3>1, TargetsAre
    <3>3. \A y : Settled(o, s, y) => Settled(o, s2, y)
      BY <2>3, <3>1, SettledIs
    <3> QED BY <3>2, <3>3 DEF KeepsSettled, o
  <2>4. CASE o = On("client", "sites")
    <3>1. Targets(local, o, s2) = DOMAIN s.sites /\ Targets(local, o, s) = DOMAIN s.sites
      BY <1>2, <2>4, TargetsAre
    <3>2. ASSUME NEW y \in DOMAIN s.sites, Settled(o, s, y) PROVE Settled(o, s2, y)
      <4>1. s2.organisations[s.sites[y].organisationId] = s.organisations[s.sites[y].organisationId]
        BY <1>1, <1>4
      <4> QED BY <1>2, <2>4, <3>2, <4>1, SettledIs
    <3> QED BY <3>1, <3>2 DEF KeepsSettled, o
  <2> QED BY <2>2, <2>3, <2>4
<1>11. \A y : Item(local, p, s2, y) = Item(local, p, s, y)
  BY <1>2 DEF Item, On
<1>12. ClientOf(s2, x, n)
  BY <1>1, <1>2, <1>3, <1>4 DEF ClientOf, NewClient
<1>13. 5 + 1 = 6
  OBVIOUS
<1> QED BY <1>9, <1>10, <1>11, <1>12, <1>13 DEF Advances

LEMMA SiteAdvances ==
  ASSUME NEW local, NEW k \in 1..2, NEW p, p = PassesOf[6][k], p = On("client", "sites"),
         NEW s, NEW s2, RowTypes(s), Good(5, local, s), NEW x, NEW n, ClientOf(s, x, n),
         Written(s, Update("sites", x, [organisationId |-> n]), s2)
  PROVE  Advances(5, local, k, s, s2, x) /\ Settled(p, s2, x)
<1> DEFINE w == Update("sites", x, [organisationId |-> n])
<1>0. /\ Good(5, local, s) /\ 5 \in 3..13 /\ ShapeOf(5, local, s) /\ Related(5, s) /\ Undoubled(s)
  BY DEF Good
<1>a. w.in = "sites" /\ w.id = x /\ w.op = "update" /\ w.row = [organisationId |-> n]
  BY DEF Update
<1> HIDE DEF w
<1>1. /\ \A d \in Collections \ {"sites"} : s2[d] = s[d]
      /\ DOMAIN s2.sites = DOMAIN s.sites /\ x \in DOMAIN s.sites
      /\ \A y \in DOMAIN s.sites \ {x} : s2.sites[y] = s.sites[y]
      /\ s2.sites[x] = Merge(s.sites[x], [organisationId |-> n])
  BY <1>a DEF Written, w, Collections
<1>2. /\ s2.organisations = s.organisations /\ s2.placements = s.placements
      /\ s2.rateCardLineages = s.rateCardLineages /\ s2.checklistTemplates = s.checklistTemplates
  BY <1>1 DEF Collections
<1>3. /\ s2.sites[x].organisationId = n /\ s2.sites[x].clientName = s.sites[x].clientName
      /\ \A f \in DOMAIN s.sites[x] : f \in DOMAIN s2.sites[x]
  <2>1. "clientName" \in DOMAIN s.sites[x]
    BY <1>1 DEF RowTypes, Always
  <2> QED BY <1>1, <2>1 DEF Merge
<1>4. Grows(s, s2)
  BY <1>1 DEF Grows, Growing
<1>5. SitesRelated(s2)
  <2> SUFFICES ASSUME NEW y \in DOMAIN s.sites
               PROVE  /\ s2.sites[y].organisationId \in DOMAIN s.organisations
                      /\ s2.sites[y].clientName # Null => \A o \in DOMAIN s.organisations :
                           /\ s.organisations[o].workspaceId
                                = s.organisations[s2.sites[y].organisationId].workspaceId
                           /\ s.organisations[o].tradingName = s2.sites[y].clientName
                           => Get(s.organisations[o], "types") = "client"
    BY <1>1, <1>2 DEF SitesRelated
  <2>1. CASE y # x
    BY <1>0, <1>1, <2>1 DEF Related, SitesRelated
  <2>2. CASE y = x
    BY <1>0, <1>3, <2>2 DEF Related, SitesRelated, ClientOf
  <2> QED BY <2>1, <2>2
<1>6. Undoubled(s2) /\ PlacementsDerived(s2)
  <2>1. s2.assignments = s.assignments
    BY <1>4, GrowsIs
  <2> QED BY <1>0, <1>2, <2>1
       DEF Related, Undoubled, NamesOnce, TemplatesOnce, PlacementsOnce, PlacementsDerived
<1>7. MasterDataAdded(s2) /\ LineagesExist(s2)
  <2>1. MasterDataAdded(s) /\ LineagesExist(s)
    BY <1>0 DEF ShapeOf
  <2>2. HasFields(s2.sites, {"archivedAt"})
    <3>1. \A y \in DOMAIN s.sites : "archivedAt" \in DOMAIN s.sites[y]
      BY <2>1 DEF MasterDataAdded, HasFields
    <3> QED BY <1>1, <1>3, <3>1 DEF HasFields
  <2>3. /\ s2.memberships = s.memberships /\ s2.driverProfiles = s.driverProfiles
        /\ s2.rateCards = s.rateCards
    BY <1>4, GrowsIs
  <2> QED BY <1>2, <2>1, <2>2, <2>3 DEF MasterDataAdded, LineagesExist
<1>8. Good(5, local, s2)
  <2>1. ShapeOf(5, local, s2)
    BY <1>0, <1>4, <1>7, GrowthKeeps DEF ShapeOf
  <2>2. Related(5, s2) /\ Named(s2)
    BY <1>0, <1>4, <1>5, <1>6, GrowthKeeps DEF Related
  <2> QED BY <1>6, <2>1, <2>2 DEF Good
<1>9. Settled(On("client", "sites"), s2, x)
  <2>1. s.organisations[n].types = "client"
    BY DEF ClientOf, Get, Null
  <2> QED BY <1>2, <1>3, <2>1, SettledIs DEF SelfTypes
<1>10. ASSUME NEW j \in 1..k PROVE KeepsSettled(local, PassesOf[6][j], s, s2)
  <2> DEFINE o == PassesOf[6][j]
  <2>1. j \in 1..2
    OBVIOUS
  <2>2. o = On("employer", "engagements") \/ o = On("client", "sites")
    BY <2>1, LatePasses
  <2> HIDE DEF o
  <2>3. CASE o = On("employer", "engagements")
    <3>1. s2.engagements = s.engagements
      BY <1>4, GrowsIs
    <3>2. Targets(local, o, s2) = Targets(local, o, s)
      BY <2>3, <3>1, TargetsAre
    <3>3. \A y : Settled(o, s, y) => Settled(o, s2, y)
      BY <2>3, <3>1, SettledIs
    <3> QED BY <3>2, <3>3 DEF KeepsSettled, o
  <2>4. CASE o = On("client", "sites")
    <3>1. Targets(local, o, s2) = DOMAIN s.sites /\ Targets(local, o, s) = DOMAIN s.sites
      BY <1>1, <2>4, TargetsAre
    <3>2. ASSUME NEW y \in DOMAIN s.sites, Settled(o, s, y) PROVE Settled(o, s2, y)
      <4>1. CASE y = x
        BY <1>9, <2>4, <4>1
      <4>2. CASE y # x
        BY <1>1, <1>2, <2>4, <3>2, <4>2, SettledIs
      <4> QED BY <4>1, <4>2
    <3> QED BY <3>1, <3>2 DEF KeepsSettled, o
  <2> QED BY <2>2, <2>3, <2>4
<1>11. ASSUME NEW y \in Targets(local, p, s) \ {x} PROVE Item(local, p, s2, y) = Item(local, p, s, y)
  <2>1. Targets(local, p, s) = DOMAIN s.sites
    BY TargetsAre
  <2> QED BY <1>1, <2>1 DEF Item, On
<1>12. 5 + 1 = 6
  OBVIOUS
<1> QED BY <1>8, <1>9, <1>10, <1>11, <1>12 DEF Advances

\* The parts of the shape that rest on collections which only some passes grow
LEMMA Regrown ==
  ASSUME NEW v \in 5..13, NEW local, NEW s, NEW s2, Good(v, local, s), Grows(s, s2),
         s2.organisations = s.organisations, s2.sites = s.sites,
         s2.rateCardLineages = s.rateCardLineages
  PROVE  /\ MasterDataAdded(s2) /\ LineagesExist(s2) /\ SitesRelated(s2) /\ NamesOnce(s2)
         /\ v >= 6 => ClientsOwnSites(s2)
<1>1. /\ MasterDataAdded(s) /\ LineagesExist(s) /\ SitesRelated(s) /\ NamesOnce(s)
      /\ v >= 6 => ClientsOwnSites(s)
  BY DEF Good, ShapeOf, Related, Undoubled
<1>2. s2.memberships = s.memberships /\ s2.driverProfiles = s.driverProfiles /\ s2.rateCards = s.rateCards
  BY GrowsIs
<1>3. MasterDataAdded(s2) /\ LineagesExist(s2)
  BY <1>1, <1>2 DEF MasterDataAdded, LineagesExist
<1>4. SitesRelated(s2) /\ NamesOnce(s2)
  BY <1>1 DEF SitesRelated, NamesOnce
<1>5. v >= 6 => ClientsOwnSites(s2)
  BY <1>1 DEF ClientsOwnSites
<1> QED BY <1>3, <1>4, <1>5

PlacementRow(provider, site, line) ==
  [providerOrganisationId |-> provider, siteId |-> site, rateCardLineageId |-> line]

LEMMA PlacementAdvances ==
  ASSUME NEW local, NEW k \in 1..2, NEW p, p = PassesOf[8][k], p = On("placement", "assignments"),
         NEW s, NEW s2, Good(7, local, s),
         NEW a \in DOMAIN s.assignments, Get(s.assignments[a], "placementId") = Null,
         NEW provider, NEW site, NEW line,
         Written(s, Insert("placements", derivePlacementId(provider, site, line),
                           PlacementRow(provider, site, line)), s2)
  PROVE  Advances(7, local, k, s, s2, a) /\ derivePlacementId(provider, site, line) \in DOMAIN s2.placements
<1> DEFINE n == derivePlacementId(provider, site, line)
           row == PlacementRow(provider, site, line)
<1>0. Good(7, local, s) /\ 7 \in 3..13 /\ 7 \in 5..13 /\ ShapeOf(7, local, s) /\ Related(7, s) /\ Undoubled(s)
  BY DEF Good
<1>1. /\ Grows(s, s2) /\ \A d \in Collections \ {"placements"} : s2[d] = s[d]
      /\ DOMAIN s2.placements = DOMAIN s.placements \cup {n}
      /\ n \notin DOMAIN s.placements /\ s2.placements[n] = row
      /\ \A q \in DOMAIN s.placements : s2.placements[q] = s.placements[q]
  BY Inserted DEF Growing
<1>2. /\ s2.sites = s.sites /\ s2.organisations = s.organisations /\ s2.rateCardLineages = s.rateCardLineages
      /\ s2.checklistTemplates = s.checklistTemplates
  BY <1>1 DEF Collections
<1>3. row.providerOrganisationId = provider /\ row.siteId = site /\ row.rateCardLineageId = line
  BY DEF PlacementRow
<1> HIDE DEF n, row
<1>4. \A q \in DOMAIN s.placements :
        q = derivePlacementId(s.placements[q].providerOrganisationId, s.placements[q].siteId,
                              s.placements[q].rateCardLineageId)
  BY <1>0 DEF Related, PlacementsDerived
<1>5. \A q \in DOMAIN s2.placements :
        q = derivePlacementId(s2.placements[q].providerOrganisationId, s2.placements[q].siteId,
                              s2.placements[q].rateCardLineageId)
  BY <1>1, <1>3, <1>4 DEF n
<1>6. PlacementsOnce(s2)
  BY <1>5 DEF PlacementsOnce
<1>7. /\ MasterDataAdded(s2) /\ LineagesExist(s2) /\ SitesRelated(s2) /\ NamesOnce(s2) /\ ClientsOwnSites(s2)
  BY <1>0, <1>1, <1>2, Regrown
<1>8. Undoubled(s2) /\ PlacementsDerived(s2)
  BY <1>0, <1>2, <1>5, <1>6, <1>7 DEF Undoubled, TemplatesOnce, PlacementsDerived
<1>9. Good(7, local, s2)
  <2>1. ShapeOf(7, local, s2)
    BY <1>0, <1>1, <1>7, GrowthKeeps DEF ShapeOf
  <2>2. Related(7, s2) /\ Named(s2)
    BY <1>0, <1>1, <1>7, <1>8, GrowthKeeps DEF Related
  <2> QED BY <1>8, <2>1, <2>2 DEF Good
<1>10. ASSUME NEW j \in 1..k PROVE KeepsSettled(local, PassesOf[8][j], s, s2)
  <2> DEFINE o == PassesOf[8][j]
  <2>1. j \in 1..2
    OBVIOUS
  <2>2. o = On("provider", "engagements") \/ o = On("placement", "assignments")
    BY <2>1, LatePasses
  <2> HIDE DEF o
  <2>3. s2.engagements = s.engagements /\ s2.assignments = s.assignments
    BY <1>1, GrowsIs
  <2>4. Targets(local, o, s2) = Targets(local, o, s)
    BY <2>2, <2>3, TargetsAre
  <2>5. \A y : Settled(o, s, y) => Settled(o, s2, y)
    BY <2>2, <2>3, SettledIs
  <2> QED BY <2>4, <2>5 DEF KeepsSettled, o
<1>11. \A y : Item(local, p, s2, y) = Item(local, p, s, y)
  <2>1. s2.assignments = s.assignments
    BY <1>1, GrowsIs
  <2> QED BY <2>1 DEF Item, On
<1>12. 7 + 1 = 8
  OBVIOUS
<1> QED BY <1>1, <1>9, <1>10, <1>11, <1>12 DEF Advances, n

LEMMA TemplateAdvances ==
  ASSUME NEW local, NEW k \in 1..1, NEW p, p = PassesOf[9][k], p = On("template", "workspaces"),
         NEW s, NEW s2, Good(8, local, s), NEW w \in DOMAIN s.workspaces, NEW n,
         ~ \E c \in DOMAIN s.checklistTemplates : s.checklistTemplates[c].workspaceId = w,
         Written(s, Insert("checklistTemplates", n, [workspaceId |-> w]), s2)
  PROVE  Advances(8, local, k, s, s2, w) /\ Settled(p, s2, w)
<1> DEFINE row == [workspaceId |-> w]
<1>0. Good(8, local, s) /\ 8 \in 3..13 /\ 8 \in 5..13 /\ ShapeOf(8, local, s) /\ Related(8, s) /\ Undoubled(s)
  BY DEF Good
<1>1. /\ Grows(s, s2) /\ \A d \in Collections \ {"checklistTemplates"} : s2[d] = s[d]
      /\ DOMAIN s2.checklistTemplates = DOMAIN s.checklistTemplates \cup {n}
      /\ n \notin DOMAIN s.checklistTemplates /\ s2.checklistTemplates[n] = row
      /\ \A q \in DOMAIN s.checklistTemplates : s2.checklistTemplates[q] = s.checklistTemplates[q]
  BY Inserted DEF Growing
<1>2. /\ s2.sites = s.sites /\ s2.organisations = s.organisations /\ s2.rateCardLineages = s.rateCardLineages
      /\ s2.placements = s.placements
  BY <1>1 DEF Collections
<1>3. row.workspaceId = w
  OBVIOUS
<1> HIDE DEF row
<1>4. s2.workspaces = s.workspaces /\ s2.assignments = s.assignments
  BY <1>1, GrowsIs
<1>5. TemplatesOnce(s2)
  <2> SUFFICES ASSUME NEW c \in DOMAIN s2.checklistTemplates, NEW d \in DOMAIN s2.checklistTemplates,
                      s2.checklistTemplates[c].workspaceId = s2.checklistTemplates[d].workspaceId
               PROVE  c = d
    BY DEF TemplatesOnce
  <2>1. TemplatesOnce(s)
    BY <1>0 DEF Undoubled
  <2> QED BY <1>1, <1>3, <2>1 DEF TemplatesOnce
<1>7. MasterDataAdded(s2) /\ LineagesExist(s2) /\ SitesRelated(s2) /\ NamesOnce(s2) /\ ClientsOwnSites(s2)
  BY <1>0, <1>1, <1>2, Regrown
<1>8. Undoubled(s2) /\ PlacementsDerived(s2)
  BY <1>0, <1>2, <1>4, <1>5, <1>7 DEF Undoubled, PlacementsOnce, PlacementsDerived, Related
<1>9. Good(8, local, s2)
  <2>1. ShapeOf(8, local, s2)
    BY <1>0, <1>1, <1>7, GrowthKeeps DEF ShapeOf
  <2>2. Related(8, s2) /\ Named(s2)
    BY <1>0, <1>1, <1>7, <1>8, GrowthKeeps DEF Related
  <2> QED BY <1>8, <2>1, <2>2 DEF Good
<1>10. KeepsSettled(local, p, s, s2)
  <2>1. Targets(local, p, s2) = Targets(local, p, s)
    BY <1>4, TargetsAre
  <2>2. ASSUME NEW y, Settled(p, s, y) PROVE Settled(p, s2, y)
    <3>1. PICK c \in DOMAIN s.checklistTemplates : s.checklistTemplates[c].workspaceId = y
      BY <2>2, SettledIs
    <3>2. c \in DOMAIN s2.checklistTemplates /\ s2.checklistTemplates[c].workspaceId = y
      BY <1>1, <3>1
    <3> QED BY <3>2, SettledIs
  <2> QED BY <2>1, <2>2 DEF KeepsSettled
<1>11. \A y : Item(local, p, s2, y) = Item(local, p, s, y)
  BY <1>4 DEF Item, On
<1>12. Settled(p, s2, w)
  <2>1. n \in DOMAIN s2.checklistTemplates /\ s2.checklistTemplates[n].workspaceId = w
    BY <1>1, <1>3
  <2> QED BY <2>1, SettledIs
<1>13. 8 + 1 = 9 /\ \A j \in 1..k : j = k
  OBVIOUS
<1> QED BY <1>9, <1>10, <1>11, <1>12, <1>13 DEF Advances

-------------------------------------------------------------------------------
(***************************************************************************)
(* Migrations 001 to 003                                                   *)
(***************************************************************************)

\* The first disjunct of Early: the rows of 001 and 002
OnlyDemo(v, local, s) ==
  /\ \A c \in Collections \ {"complianceProfiles"} : local[c] = NoFields
  /\ \A c \in Collections : \A id \in DOMAIN s[c] : FreshRow(c, id, s[c][id])
  /\ v >= 1 => "compliance-default" \in DOMAIN s.complianceProfiles \cup DOMAIN local.complianceProfiles
  /\ v = 2 => DemoIn(s, 12)

\* The second one: copies
OnlyCopies(v, local, s) ==
  /\ v = 2 /\ "compliance-default" \in DOMAIN local.complianceProfiles
  /\ \A c \in Collections \ Copied : local[c] = NoFields
  /\ Related(2, local) /\ Undoubled(local)
  /\ \A c \in Collections : \A id \in DOMAIN s[c] : id \in DOMAIN local[c] /\ s[c][id] = local[c][id]

LEMMA EarlyIs ==
  ASSUME NEW v, NEW local, NEW s
  PROVE  Early(v, local, s) <=> (OnlyDemo(v, local, s) \/ OnlyCopies(v, local, s))
  BY DEF Early, OnlyDemo, OnlyCopies

\* The twelve demo rows, by collection
LEMMA DemoRowsAre ==
  ASSUME NEW id, NEW row
  PROVE  /\ FreshRow("organisations", id, row) =>
              id = "o-demo" /\ row = [workspaceId |-> "ws-agency", tradingName |-> "agency", types |-> "agency"]
         /\ FreshRow("sites", id, row) =>
              id = "s-demo" /\ row = [organisationId |-> "o-demo", clientName |-> "logistics", archivedAt |-> Null]
         /\ FreshRow("driverProfiles", id, row) =>
              row = [personId |-> "p-demo", workspaceId |-> "ws-demo", lastUsedAssignmentId |-> Null]
         /\ FreshRow("engagements", id, row) =>
              row = [providerOrganisationId |-> "o-demo", workspaceId |-> "ws-agency",
                     relationshipType |-> "agency_worker"]
         /\ FreshRow("assignments", id, row) =>
              id = "a-demo" /\ row = [engagementId |-> "e-demo", placementId |-> "pl-demo"]
         /\ FreshRow("placements", id, row) => id = "pl-demo"
         /\ FreshRow("rateCards", id, row) => id = "rc-demo"
         /\ FreshRow("workspaces", id, row) => id \in {"ws-demo", "ws-agency"}
         /\ ~ FreshRow("checklistTemplates", id, row)
<1>1. ASSUME NEW c, c \notin {"shifts", "complianceProfiles"}, FreshRow(c, id, row)
      PROVE  \E k \in 1..12 : DemoRows[k].in = c /\ DemoRows[k].id = id /\ DemoRows[k].row = row
  BY <1>1 DEF FreshRow, Insert
<1>2. \A k \in 1..12 :
        /\ DemoRows[k].in = "organisations" => k = 6
        /\ DemoRows[k].in = "sites" => k = 8
        /\ DemoRows[k].in = "driverProfiles" => k = 4
        /\ DemoRows[k].in = "engagements" => k = 10
        /\ DemoRows[k].in = "assignments" => k = 12
        /\ DemoRows[k].in = "placements" => k = 11
        /\ DemoRows[k].in = "rateCards" => k = 9
        /\ DemoRows[k].in = "workspaces" => k = 2 \/ k = 5
        /\ DemoRows[k].in # "checklistTemplates"
  BY DEF DemoRows, Insert
<1>3. /\ DemoRows[6].id = "o-demo"
      /\ DemoRows[6].row = [workspaceId |-> "ws-agency", tradingName |-> "agency", types |-> "agency"]
  BY DEF DemoRows, Insert
<1>4. /\ DemoRows[8].id = "s-demo"
      /\ DemoRows[8].row = [organisationId |-> "o-demo", clientName |-> "logistics", archivedAt |-> Null]
  BY DEF DemoRows, Insert
<1>5. DemoRows[4].row = [personId |-> "p-demo", workspaceId |-> "ws-demo", lastUsedAssignmentId |-> Null]
  BY DEF DemoRows, Insert
<1>6. DemoRows[10].row = [providerOrganisationId |-> "o-demo", workspaceId |-> "ws-agency",
                          relationshipType |-> "agency_worker"]
  BY DEF DemoRows, Insert
<1>7. DemoRows[12].id = "a-demo" /\ DemoRows[12].row = [engagementId |-> "e-demo", placementId |-> "pl-demo"]
  BY DEF DemoRows, Insert
<1>8. DemoRows[11].id = "pl-demo" /\ DemoRows[9].id = "rc-demo" /\ DemoRows[2].id = "ws-demo" /\ DemoRows[5].id = "ws-agency"
  BY DEF DemoRows, Insert
<1>9. FreshRow("organisations", id, row) =>
        id = "o-demo" /\ row = [workspaceId |-> "ws-agency", tradingName |-> "agency", types |-> "agency"]
  BY <1>1, <1>2, <1>3
<1>10. FreshRow("sites", id, row) =>
        id = "s-demo" /\ row = [organisationId |-> "o-demo", clientName |-> "logistics", archivedAt |-> Null]
  BY <1>1, <1>2, <1>4
<1>11. FreshRow("driverProfiles", id, row) =>
        row = [personId |-> "p-demo", workspaceId |-> "ws-demo", lastUsedAssignmentId |-> Null]
  BY <1>1, <1>2, <1>5
<1>12. FreshRow("engagements", id, row) =>
        row = [providerOrganisationId |-> "o-demo", workspaceId |-> "ws-agency",
               relationshipType |-> "agency_worker"]
  BY <1>1, <1>2, <1>6
<1>13. FreshRow("assignments", id, row) =>
        id = "a-demo" /\ row = [engagementId |-> "e-demo", placementId |-> "pl-demo"]
  BY <1>1, <1>2, <1>7
<1>14. /\ FreshRow("placements", id, row) => id = "pl-demo"
       /\ FreshRow("rateCards", id, row) => id = "rc-demo"
       /\ FreshRow("workspaces", id, row) => id \in {"ws-demo", "ws-agency"}
       /\ ~ FreshRow("checklistTemplates", id, row)
  BY <1>1, <1>2, <1>8
<1> QED BY <1>9, <1>10, <1>11, <1>12, <1>13, <1>14

LEMMA DemoUndoubled ==
  ASSUME NEW v, NEW local, NEW s, OnlyDemo(v, local, s)
  PROVE  Undoubled(s) /\ Named(s)
<1>1. \A c \in Collections : \A id \in DOMAIN s[c] : FreshRow(c, id, s[c][id])
  BY DEF OnlyDemo
<1>2. /\ \A id \in DOMAIN s.organisations : FreshRow("organisations", id, s.organisations[id])
      /\ \A id \in DOMAIN s.placements : FreshRow("placements", id, s.placements[id])
      /\ \A id \in DOMAIN s.checklistTemplates : FreshRow("checklistTemplates", id, s.checklistTemplates[id])
      /\ \A id \in DOMAIN s.rateCards : FreshRow("rateCards", id, s.rateCards[id])
      /\ \A id \in DOMAIN s.workspaces : FreshRow("workspaces", id, s.workspaces[id])
      /\ \A id \in DOMAIN s.assignments : FreshRow("assignments", id, s.assignments[id])
  BY <1>1 DEF Collections
<1>3. Undoubled(s)
  BY <1>2, DemoRowsAre DEF Undoubled, NamesOnce, TemplatesOnce, PlacementsOnce
<1>4. Named(s)
  BY <1>2, DemoRowsAre DEF Named, Null
<1> QED BY <1>3, <1>4

LEMMA DemoRelated ==
  ASSUME NEW local, NEW s, OnlyDemo(2, local, s)
  PROVE  Related(3, s)
<1>1. \A c \in Collections : \A id \in DOMAIN s[c] : FreshRow(c, id, s[c][id])
  BY DEF OnlyDemo
<1>2. /\ \A id \in DOMAIN s.organisations : FreshRow("organisations", id, s.organisations[id])
      /\ \A id \in DOMAIN s.sites : FreshRow("sites", id, s.sites[id])
      /\ \A id \in DOMAIN s.driverProfiles : FreshRow("driverProfiles", id, s.driverProfiles[id])
      /\ \A id \in DOMAIN s.engagements : FreshRow("engagements", id, s.engagements[id])
      /\ \A id \in DOMAIN s.assignments : FreshRow("assignments", id, s.assignments[id])
  BY <1>1 DEF Collections
<1>3. "o-demo" \in DOMAIN s.organisations
  <2>1. DemoRows[6].id \in DOMAIN s[DemoRows[6].in]
    BY DEF OnlyDemo, DemoIn
  <2> QED BY <2>1 DEF DemoRows, Insert
<1>4. SitesRelated(s)
  <2> SUFFICES ASSUME NEW x \in DOMAIN s.sites
               PROVE  /\ s.sites[x].organisationId \in DOMAIN s.organisations
                      /\ \A o \in DOMAIN s.organisations : s.organisations[o].tradingName # s.sites[x].clientName
    BY DEF SitesRelated
  <2>1. s.sites[x].organisationId = "o-demo" /\ s.sites[x].clientName = "logistics"
    BY <1>2, DemoRowsAre
  <2>2. \A o \in DOMAIN s.organisations : s.organisations[o].tradingName = "agency"
    BY <1>2, DemoRowsAre
  <2> QED BY <1>3, <2>1, <2>2
<1>5. DriversRelated(s)
  <2>1. \A d \in DOMAIN s.driverProfiles : Get(s.driverProfiles[d], "workspaceId") = "ws-demo"
    BY <1>2, DemoRowsAre DEF Get
  <2> QED BY <2>1 DEF DriversRelated, Null
<1>6. EngagementsRelated(3, s)
  <2>1. \A e \in DOMAIN s.engagements : Get(s.engagements[e], "providerOrganisationId") = "o-demo"
    BY <1>2, DemoRowsAre DEF Get
  <2> QED BY <2>1 DEF EngagementsRelated, Null
<1>7. \A a \in DOMAIN s.assignments : Get(s.assignments[a], "placementId") # Null
  BY <1>2, DemoRowsAre DEF Get, Null
<1>8. AssignmentsRelated(3, s) /\ PlacementsDerived(s)
  BY <1>7 DEF AssignmentsRelated, PlacementsDerived
<1> QED BY <1>4, <1>5, <1>6, <1>8 DEF Related

LEMMA CopiesUndoubled ==
  ASSUME NEW v, NEW local, NEW s, OnlyCopies(v, local, s)
  PROVE  Undoubled(s)
<1>1. \A c \in Collections : \A id \in DOMAIN s[c] : id \in DOMAIN local[c] /\ s[c][id] = local[c][id]
  BY DEF OnlyCopies
<1>2. /\ \A id \in DOMAIN s.organisations : id \in DOMAIN local.organisations /\ s.organisations[id] = local.organisations[id]
      /\ \A id \in DOMAIN s.placements : id \in DOMAIN local.placements /\ s.placements[id] = local.placements[id]
      /\ \A id \in DOMAIN s.checklistTemplates :
           id \in DOMAIN local.checklistTemplates /\ s.checklistTemplates[id] = local.checklistTemplates[id]
  BY <1>1 DEF Collections
<1>3. Undoubled(local)
  BY DEF OnlyCopies
<1> QED BY <1>2, <1>3 DEF Undoubled, NamesOnce, TemplatesOnce, PlacementsOnce

\* Before 003 too the version tells the shape, and nothing is doubled.
LEMMA EarlyShape ==
  ASSUME NEW v \in 0..2, NEW local, NEW s, Early(v, local, s)
  PROVE  ShapeOf(v, local, s) /\ Undoubled(s)
<1>1. v >= 1 => Initialised(local, s)
  BY DEF Early, Initialised
<1>2. ShapeOf(v, local, s)
  BY <1>1 DEF ShapeOf
<1>3. Undoubled(s)
  BY EarlyIs, DemoUndoubled, CopiesUndoubled
<1> QED BY <1>2, <1>3

\* The passes of 001, 002 and 003
LEMMA EarlyPasses ==
  /\ Len(PassesOf[1]) = 1 /\ PassesOf[1][1] = On("init", "complianceProfiles")
  /\ Len(PassesOf[2]) = 2 /\ PassesOf[2][1] = On("demo", "none") /\ PassesOf[2][2] = On("hgv-shifts", "shifts")
  /\ Len(PassesOf[3]) = 11
  /\ \A k \in 1..11 : PassesOf[3][k].does = "copy" /\ PassesOf[3][k].over \in Collections
  /\ \A c \in Copied : \E k \in 1..11 : PassesOf[3][k] = On("copy", c)
<1>1. /\ Len(PassesOf[1]) = 1 /\ PassesOf[1][1] = On("init", "complianceProfiles")
      /\ Len(PassesOf[2]) = 2 /\ PassesOf[2][1] = On("demo", "none") /\ PassesOf[2][2] = On("hgv-shifts", "shifts")
  BY DEF PassesOf
<1>2. /\ Len(PassesOf[3]) = 11
      /\ PassesOf[3][1] = On("copy", "workspaces") /\ PassesOf[3][2] = On("copy", "people")
      /\ PassesOf[3][3] = On("copy", "memberships") /\ PassesOf[3][4] = On("copy", "organisations")
      /\ PassesOf[3][5] = On("copy", "sites") /\ PassesOf[3][6] = On("copy", "driverProfiles")
      /\ PassesOf[3][7] = On("copy", "engagements") /\ PassesOf[3][8] = On("copy", "assignments")
      /\ PassesOf[3][9] = On("copy", "shifts") /\ PassesOf[3][10] = On("copy", "rateCards")
      /\ PassesOf[3][11] = On("copy", "complianceProfiles")
  BY DEF PassesOf
<1>3. \A k \in 1..11 : \E c \in Copied : PassesOf[3][k] = On("copy", c)
  BY <1>2 DEF Copied
<1>4. \A k \in 1..11 : PassesOf[3][k].does = "copy" /\ PassesOf[3][k].over \in Collections
  BY <1>3 DEF Copied, Collections, On
<1>5. \A c \in Copied : \E k \in 1..11 : PassesOf[3][k] = On("copy", c)
  BY <1>2 DEF Copied
<1> QED BY <1>1, <1>2, <1>4, <1>5

LEMMA EarlyFinish ==
  ASSUME NEW local, NEW s, RowTypes(s), IsStore(local), NEW v \in 0..2, Good(v, local, s),
         \A k \in 1..Len(PassesOf[v + 1]) : Done(local, PassesOf[v + 1][k], s)
  PROVE  Good(v + 1, local, s)
<1>0. Early(v, local, s)
  BY DEF Good
<1>1. CASE v = 0
  <2>1. Done(local, PassesOf[1][1], s)
    BY <1>1, EarlyPasses
  <2>2. "compliance-default" \in DOMAIN s.complianceProfiles
    BY <2>1, EarlyPasses DEF Done, Targets, Settled, On
  <2>3. Early(1, local, s)
    BY <1>0, <1>1, <2>2 DEF Early
  <2> QED BY <1>1, <2>3 DEF Good
<1>2. CASE v = 1
  <2>1. Done(local, PassesOf[2][1], s)
    BY <1>2, EarlyPasses
  <2>2. DemoIn(s, 12)
    BY <2>1, EarlyPasses DEF Done, Targets, Settled, On
  <2>3. Early(2, local, s)
    BY <1>0, <1>2, <2>2 DEF Early
  <2> QED BY <1>2, <2>3 DEF Good
<1>3. CASE v = 2
  <2>1. \A k \in 1..11 : Done(local, PassesOf[3][k], s)
    <3>1. v + 1 = 3
      BY <1>3
    <3>2. \A k \in 1..Len(PassesOf[3]) : Done(local, PassesOf[3][k], s)
      BY <3>1
    <3> QED BY <3>2, EarlyPasses
  <2>2. ASSUME NEW c \in Copied PROVE DOMAIN local[c] \subseteq DOMAIN s[c]
    <3>1. PICK k \in 1..11 : PassesOf[3][k] = On("copy", c)
      BY EarlyPasses
    <3>2. Done(local, On("copy", c), s)
      BY <2>1, <3>1
    <3>3. Targets(local, On("copy", c), s) = DOMAIN local[c]
      BY DEF Targets, On
    <3>4. \A id : Settled(On("copy", c), s, id) => id \in DOMAIN s[c]
      BY DEF Settled, On
    <3> QED BY <3>2, <3>3, <3>4 DEF Done
  <2>3. Initialised(local, s)
    BY <1>0, <1>3 DEF Early, Initialised
  <2>4. OnlyDemo(2, local, s) \/ OnlyCopies(2, local, s)
    BY <1>0, <1>3, EarlyIs
  <2>5. \A c \in Collections \ Copied : local[c] = NoFields
    BY <2>4 DEF OnlyDemo, OnlyCopies, Copied
  <2>6. Moved(local, s)
    <3>1. DOMAIN NoFields = {}
      BY DEF NoFields
    <3> QED BY <2>2, <2>5, <3>1 DEF Moved
  <2>7. ShapeOf(3, local, s)
    BY <2>3, <2>6 DEF ShapeOf
  <2>8. Related(3, s) /\ Undoubled(s) /\ Named(s)
    <3>1. CASE OnlyDemo(2, local, s)
      BY <3>1, DemoRelated, DemoUndoubled
    <3>2. CASE OnlyCopies(2, local, s)
      <4>1. ASSUME NEW c \in Collections PROVE s[c] = local[c]
        <5>1. DOMAIN s[c] = DOMAIN local[c] /\ \A id \in DOMAIN s[c] : s[c][id] = local[c][id]
          BY <2>6, <3>2 DEF OnlyCopies, Moved
        <5>2. IsFunction(s[c]) /\ IsFunction(local[c])
          BY DEF RowTypes, IsStore
        <5> QED BY <5>1, <5>2 DEF IsFunction
      <4>2. s = local
        <5>1. s = [c \in Collections |-> s[c]] /\ local = [c \in Collections |-> local[c]]
          BY DEF RowTypes, IsStore, IsFunction
        <5> QED BY <4>1, <5>1
      <4>3. Related(2, s) /\ Undoubled(s)
        BY <3>2, <4>2 DEF OnlyCopies
      <4>4. Related(3, s)
        BY <4>3 DEF Related, EngagementsRelated, AssignmentsRelated
      <4>5. Named(s)
        BY <4>2 DEF Named, IsStore, Collections
      <4> QED BY <4>3, <4>4, <4>5
    <3> QED BY <2>4, <3>1, <3>2
  <2> QED BY <1>3, <2>7, <2>8 DEF Good
<1> QED BY <1>1, <1>2, <1>3

\* What 001, 002 and 003 write
EarlyWrite(v, local, w) ==
  /\ w.in \in Collections
  /\ \/ v < 2 /\ w.op = "insert" /\ FreshRow(w.in, w.id, w.row)
     \/ /\ v = 2 /\ w.op \in {"insert", "update"}
        /\ w.id \in DOMAIN local[w.in] /\ w.row = local[w.in][w.id]

LEMMA EarlyKeeps ==
  ASSUME NEW v \in 0..2, NEW local, IsStore(local), NEW s, NEW s2, Good(v, local, s),
         NEW w, EarlyWrite(v, local, w), Written(s, w, s2)
  PROVE  /\ Good(v, local, s2) /\ \A c \in Collections : DOMAIN s[c] \subseteq DOMAIN s2[c]
         /\ w.id \in DOMAIN s2[w.in]
<1>1. /\ \A c \in Collections \ {w.in} : s2[c] = s[c]
      /\ DOMAIN s2[w.in] = DOMAIN s[w.in] \cup {w.id}
      /\ \A id \in DOMAIN s[w.in] \ {w.id} : s2[w.in][id] = s[w.in][id]
      /\ w.in \in Collections
  BY DEF Written, EarlyWrite
<1>2. \A c \in Collections : DOMAIN s[c] \subseteq DOMAIN s2[c]
  BY <1>1
<1>4. \A k \in 1..12 : DemoRows[k].in \in Collections
  BY DEF DemoRows, Insert, Collections
<1>5. DemoIn(s, 12) => DemoIn(s2, 12)
  BY <1>2, <1>4 DEF DemoIn
<1>6. DOMAIN s.complianceProfiles \subseteq DOMAIN s2.complianceProfiles
  BY <1>2 DEF Collections
<1>7. CASE OnlyDemo(v, local, s)
  <2>1. FreshRow(w.in, w.id, s2[w.in][w.id])
    <3>1. CASE v < 2
      BY <3>1 DEF EarlyWrite, Written
    <3>2. CASE v = 2
      <4>1. DOMAIN NoFields = {}
        BY DEF NoFields
      <4>2. w.in = "complianceProfiles"
        BY <1>7, <3>2, <4>1 DEF EarlyWrite, OnlyDemo
      <4> QED BY <4>2 DEF FreshRow
    <3> QED BY <3>1, <3>2
  <2>2. ASSUME NEW c \in Collections, NEW id \in DOMAIN s2[c] PROVE FreshRow(c, id, s2[c][id])
    <3>1. CASE c = w.in /\ id = w.id
      BY <2>1, <3>1
    <3>2. CASE c # w.in \/ id # w.id
      <4>1. id \in DOMAIN s[c] /\ s2[c][id] = s[c][id]
        BY <1>1, <3>2
      <4> QED BY <1>7, <4>1 DEF OnlyDemo
    <3> QED BY <3>1, <3>2
  <2>3. OnlyDemo(v, local, s2)
    BY <1>5, <1>6, <1>7, <2>2 DEF OnlyDemo
  <2> QED BY <1>1, <1>2, <2>3, EarlyIs DEF Good
<1>8. CASE OnlyCopies(v, local, s)
  <2>0. v = 2 /\ w.op \in {"insert", "update"} /\ w.id \in DOMAIN local[w.in] /\ w.row = local[w.in][w.id]
    BY <1>8 DEF OnlyCopies, EarlyWrite
  <2>1. s2[w.in][w.id] = local[w.in][w.id]
    <3>1. CASE w.op = "insert"
      BY <2>0, <3>1 DEF Written
    <3>2. CASE w.op = "update"
      <4> DEFINE row == local[w.in][w.id]
      <4>1. w.id \in DOMAIN s[w.in] /\ s2[w.in][w.id] = Merge(s[w.in][w.id], w.row)
        BY <3>2 DEF Written
      <4>2. s2[w.in][w.id] = Merge(row, row)
        BY <1>1, <1>8, <2>0, <4>1 DEF OnlyCopies
      <4>3. IsFunction(row)
        BY <1>1, <2>0 DEF IsStore
      <4> HIDE DEF row
      <4>4. Merge(row, row) = row
        BY <4>3 DEF Merge, IsFunction
      <4> QED BY <4>2, <4>4 DEF row
    <3> QED BY <2>0, <3>1, <3>2
  <2>2. ASSUME NEW c \in Collections, NEW id \in DOMAIN s2[c]
        PROVE  id \in DOMAIN local[c] /\ s2[c][id] = local[c][id]
    <3>1. CASE c = w.in /\ id = w.id
      BY <2>0, <2>1, <3>1
    <3>2. CASE c # w.in \/ id # w.id
      <4>1. id \in DOMAIN s[c] /\ s2[c][id] = s[c][id]
        BY <1>1, <3>2
      <4> QED BY <1>8, <4>1 DEF OnlyCopies
    <3> QED BY <3>1, <3>2
  <2>3. OnlyCopies(v, local, s2)
    BY <1>8, <2>2 DEF OnlyCopies
  <2> QED BY <1>1, <1>2, <2>3, EarlyIs DEF Good
<1> QED BY <1>7, <1>8, EarlyIs DEF Good

\* Pass p finds the same rows in s2.
SameItems(local, p, s, s2) == \A x : Item(local, p, s2, x) = Item(local, p, s, x)

LEMMA EarlyKeepsSettled ==
  ASSUME NEW v \in 0..2, NEW local, NEW s, NEW s2, \A c \in Collections : DOMAIN s[c] \subseteq DOMAIN s2[c],
         NEW j \in 1..Len(PassesOf[v + 1]), NEW p, p = PassesOf[v + 1][j]
  PROVE  KeepsSettled(local, p, s, s2) /\ SameItems(local, p, s, s2)
<1>1. \/ p = On("init", "complianceProfiles") \/ p = On("demo", "none") \/ p = On("hgv-shifts", "shifts")
      \/ p.does = "copy" /\ p.over \in Collections
  <2>1. CASE v = 0
    <3>1. j = 1 /\ p = PassesOf[1][1]
      BY <2>1, EarlyPasses
    <3> QED BY <3>1, EarlyPasses
  <2>2. CASE v = 1
    <3>1. (j = 1 \/ j = 2) /\ p = PassesOf[2][j]
      BY <2>2, EarlyPasses
    <3> QED BY <3>1, EarlyPasses
  <2>3. CASE v = 2
    <3>1. v + 1 = 3
      BY <2>3
    <3>2. j \in 1..Len(PassesOf[3]) /\ p = PassesOf[3][j]
      BY <3>1
    <3> QED BY <3>2, EarlyPasses
  <2> QED BY <2>1, <2>2, <2>3
<1>2. p.does \in {"init", "demo", "hgv-shifts", "copy"}
  BY <1>1 DEF On
<1>3. Targets(local, p, s2) = Targets(local, p, s)
  BY <1>2 DEF Targets
<1>4. SameItems(local, p, s, s2)
  BY <1>2 DEF Item, SameItems
<1>5. \A k \in 1..12 : DemoRows[k].in \in Collections
  BY DEF DemoRows, Insert, Collections
<1>6. DemoIn(s, 12) => DemoIn(s2, 12)
  BY <1>5 DEF DemoIn
<1>7. DOMAIN s.complianceProfiles \subseteq DOMAIN s2.complianceProfiles
  BY DEF Collections
<1>8. ASSUME NEW x, Settled(p, s, x) PROVE Settled(p, s2, x)
  <2>1. CASE p.does = "copy"
    <3>1. x \in DOMAIN s[p.over] /\ p.over \in Collections
      BY <1>1, <1>8, <2>1 DEF Settled, On
    <3>2. x \in DOMAIN s2[p.over]
      BY <3>1
    <3> QED BY <2>1, <3>2 DEF Settled, Columns
  <2>2. CASE p.does = "init"
    BY <1>7, <1>8, <2>2 DEF Settled, Columns
  <2>3. CASE p.does = "demo"
    BY <1>6, <1>8, <2>3 DEF Settled, Columns
  <2>4. CASE p.does = "hgv-shifts"
    BY <2>4 DEF Settled, Columns
  <2> QED BY <1>2, <2>1, <2>2, <2>3, <2>4
<1> QED BY <1>3, <1>4, <1>8 DEF KeepsSettled

LEMMA EarlyAdvances ==
  ASSUME NEW v \in 0..2, NEW local, IsStore(local), NEW s, NEW s2, Good(v, local, s),
         NEW k \in 1..Len(PassesOf[v + 1]), NEW w, EarlyWrite(v, local, w), Written(s, w, s2), NEW id
  PROVE  Advances(v, local, k, s, s2, id)
<1>1. Good(v, local, s2) /\ \A c \in Collections : DOMAIN s[c] \subseteq DOMAIN s2[c]
  BY EarlyKeeps
<1>2. Len(PassesOf[v + 1]) \in Nat
  <2>1. v + 1 \in 1..LastVersion
    BY DEF LastVersion
  <2> QED BY <2>1, PassesAre
<1>3. \A j \in 1..k : j \in 1..Len(PassesOf[v + 1])
  BY <1>2
<1>4. \A j \in 1..k : KeepsSettled(local, PassesOf[v + 1][j], s, s2) /\ SameItems(local, PassesOf[v + 1][j], s, s2)
  BY <1>1, <1>3, EarlyKeepsSettled
<1>5. k \in 1..k
  BY <1>2
<1> QED BY <1>1, <1>4, <1>5 DEF Advances, SameItems

-------------------------------------------------------------------------------
(***************************************************************************)
(* A pass in progress                                                      *)
(***************************************************************************)

\* With the write w the visit of row id is done, and was a step forward.
Completes(v, local, k, s, w, id) ==
  \A s2 : RowTypes(s2) /\ Written(s, w, s2) =>
    Advances(v, local, k, s, s2, id) /\ Settled(PassesOf[v + 1][k], s2, id)

\* The write w is a step forward, and with x after it the visit of id is done.
Leads(v, local, k, s, w, x, id) ==
  \A s2 : RowTypes(s2) /\ Written(s, w, s2) =>
    Advances(v, local, k, s, s2, id) /\ Completes(v, local, k, s2, x, id)

\* q is what is left to write of the demo rows.
DemoLeft(s, q) ==
  \E n \in 0..11 : /\ Len(q) = 12 - n /\ DemoIn(s, n)
                   /\ \A j \in 1..(12 - n) : q[j] = DemoRows[n + j]

\* What is left to write for row id will be done with it.
Pending(v, local, k, s, q, id) ==
  \/ Len(q) = 1 /\ Completes(v, local, k, s, q[1], id)
  \/ Len(q) = 2 /\ Leads(v, local, k, s, q[1], q[2], id)
  \/ v = 1 /\ k = 1 /\ DemoLeft(s, q)

LEMMA Pendings ==
  ASSUME NEW v, NEW local, NEW k, NEW s, NEW w, NEW x, NEW id
  PROVE  /\ Completes(v, local, k, s, w, id) => Pending(v, local, k, s, <<w>>, id)
         /\ Leads(v, local, k, s, w, x, id) => Pending(v, local, k, s, <<w, x>>, id)
<1>1. Len(<<w>>) = 1 /\ <<w>>[1] = w /\ Len(<<w, x>>) = 2 /\ <<w, x>>[1] = w /\ <<w, x>>[2] = x
  OBVIOUS
<1> QED BY <1>1 DEF Pending

LEMMA DemoRowAdvances ==
  ASSUME NEW local, IsStore(local), NEW s, NEW s2, Good(1, local, s), NEW n \in 0..11, DemoIn(s, n),
         Written(s, DemoRows[n + 1], s2), NEW id
  PROVE  Advances(1, local, 1, s, s2, id) /\ DemoIn(s2, n + 1)
<1>1. \A m \in 1..12 : DemoRows[m].in \in Collections /\ DemoRows[m].op = "insert"
  BY DEF DemoRows, Insert, Collections
<1>2. \A m \in 1..12 : DemoRows[m] = Insert(DemoRows[m].in, DemoRows[m].id, DemoRows[m].row)
  BY DEF DemoRows, Insert
<1>3. n + 1 \in 1..12
  OBVIOUS
<1> DEFINE w == DemoRows[n + 1]
<1>4. w = DemoRows[n + 1] /\ w.in \in Collections /\ w.op = "insert" /\ FreshRow(w.in, w.id, w.row)
  BY <1>1, <1>2, <1>3 DEF FreshRow
<1> HIDE DEF w
<1>5. EarlyWrite(1, local, w)
  BY <1>4 DEF EarlyWrite
<1>6. Written(s, w, s2) /\ 1 \in 0..2
  BY <1>4
<1>7. Good(1, local, s2) /\ (\A c \in Collections : DOMAIN s[c] \subseteq DOMAIN s2[c]) /\ w.id \in DOMAIN s2[w.in]
  BY <1>5, <1>6, EarlyKeeps
<1>8. DemoIn(s2, n + 1)
  <2> SUFFICES ASSUME NEW m \in 1..(n + 1) PROVE DemoRows[m].id \in DOMAIN s2[DemoRows[m].in]
    BY DEF DemoIn
  <2>1. CASE m = n + 1
    BY <1>4, <1>7, <2>1
  <2>2. CASE m # n + 1
    <3>1. m \in 1..n /\ m \in 1..12
      BY <2>2
    <3> QED BY <1>1, <1>7, <3>1 DEF DemoIn
  <2> QED BY <2>1, <2>2
<1>9. Advances(1, local, 1, s, s2, id)
  <2>1. 1 + 1 = 2
    OBVIOUS
  <2>2. 1 \in 1..Len(PassesOf[1 + 1])
    BY <2>1, EarlyPasses
  <2> QED BY <1>5, <1>6, <2>2, EarlyAdvances
<1> QED BY <1>8, <1>9

\* A write that is not refused brings the visit forward.
LEMMA WriteLeads ==
  ASSUME NEW local, IsStore(local), NEW v, NEW k, NEW s, NEW s2, Good(v, local, s), RowTypes(s2),
         NEW q, IsSeq(q), q # <<>>, NEW id, Pending(v, local, k, s, q, id), Written(s, Head(q), s2)
  PROVE  /\ Advances(v, local, k, s, s2, id)
         /\ Tail(q) = <<>> => Settled(PassesOf[v + 1][k], s2, id)
         /\ Tail(q) # <<>> => Pending(v, local, k, s2, Tail(q), id)
<1>1. /\ Len(q) \in Nat \ {0} /\ Head(q) = q[1] /\ IsSeq(Tail(q)) /\ Len(Tail(q)) = Len(q) - 1
      /\ \A j \in 1..(Len(q) - 1) : Tail(q)[j] = q[j + 1]
  BY SequenceIs
<1>2. PICK r : r = Tail(q)
  OBVIOUS
<1>3. r = <<>> <=> Len(r) = 0
  <2>1. Len(<<>>) = 0
    OBVIOUS
  <2>2. r # <<>> => Len(r) \in Nat \ {0}
    BY <1>1, <1>2, SequenceIs
  <2> QED BY <2>1, <2>2
<1>4. CASE Len(q) = 1 /\ Completes(v, local, k, s, q[1], id)
  BY <1>1, <1>2, <1>3, <1>4 DEF Completes
<1>5. CASE Len(q) = 2 /\ Leads(v, local, k, s, q[1], q[2], id)
  <2>1. Advances(v, local, k, s, s2, id) /\ Completes(v, local, k, s2, q[2], id)
    BY <1>1, <1>5 DEF Leads
  <2>2. Len(r) = 1 /\ r[1] = q[2] /\ r # <<>>
    BY <1>1, <1>2, <1>3, <1>5
  <2> QED BY <1>2, <2>1, <2>2 DEF Pending
<1>6. CASE v = 1 /\ k = 1 /\ DemoLeft(s, q)
  <2>1. PICK n \in 0..11 : /\ Len(q) = 12 - n /\ DemoIn(s, n)
                           /\ \A j \in 1..(12 - n) : q[j] = DemoRows[n + j]
    BY <1>6 DEF DemoLeft
  <2>2. Head(q) = DemoRows[n + 1]
    BY <1>1, <2>1
  <2>3. Advances(1, local, 1, s, s2, id) /\ DemoIn(s2, n + 1)
    BY <1>6, <2>1, <2>2, DemoRowAdvances
  <2>4. CASE n = 11
    <3>1. Len(r) = 0 /\ DemoIn(s2, 12)
      BY <1>1, <1>2, <2>1, <2>3, <2>4
    <3>2. Settled(On("demo", "none"), s2, id)
      BY <3>1 DEF Settled, On, Columns
    <3>3. PassesOf[1 + 1][1] = On("demo", "none")
      <4>1. 1 + 1 = 2
        OBVIOUS
      <4> QED BY <4>1, EarlyPasses
    <3> QED BY <1>2, <1>3, <1>6, <2>3, <3>1, <3>2, <3>3
  <2>5. CASE n # 11
    <3>1. n + 1 \in 0..11 /\ Len(r) = 12 - (n + 1) /\ r # <<>>
      BY <1>1, <1>2, <1>3, <2>1, <2>5
    <3>2. ASSUME NEW j \in 1..(12 - (n + 1)) PROVE r[j] = DemoRows[(n + 1) + j]
      <4>1. j \in 1..(Len(q) - 1) /\ j + 1 \in 1..(12 - n) /\ n + (j + 1) = (n + 1) + j
        BY <1>1, <2>1
      <4>2. r[j] = q[j + 1] /\ q[j + 1] = DemoRows[n + (j + 1)]
        BY <1>1, <1>2, <2>1, <4>1
      <4> QED BY <4>1, <4>2
    <3>3. DemoLeft(s2, r)
      BY <2>3, <3>1, <3>2 DEF DemoLeft
    <3> QED BY <1>2, <1>6, <2>3, <3>1, <3>3 DEF Pending
  <2> QED BY <2>4, <2>5
<1> QED BY <1>4, <1>5, <1>6 DEF Pending

\* patch only fills fields of row id of c.
Fits(s, c, id, patch) ==
  /\ c \in DOMAIN Fillable /\ DOMAIN patch \subseteq Fillable[c]
  /\ \A f \in DOMAIN patch : Get(s[c][id], f) = Null

\* Once patch is in, pass p has done with row id.
Settles(p, s, id, patch) == \A s2 : Patches(s, s2, p.over, id, patch) => Settled(p, s2, id)

LEMMA FillCompletes ==
  ASSUME NEW local, NEW v \in 3..13, NEW k \in 1..Len(PassesOf[v + 1]), NEW p, p = PassesOf[v + 1][k],
         NEW s, RowTypes(s), Good(v, local, s), p.does # "insert",
         NEW id, NEW patch, Fits(s, p.over, id, patch), Settles(p, s, id, patch),
         p.over = "assignments" /\ v >= 4 => "rateCardLineageId" \notin DOMAIN patch
  PROVE  Completes(v, local, k, s, Update(p.over, id, patch), id)
<1> SUFFICES ASSUME NEW s2, Written(s, Update(p.over, id, patch), s2)
             PROVE  Advances(v, local, k, s, s2, id) /\ Settled(p, s2, id)
  BY DEF Completes
<1>1. Patches(s, s2, p.over, id, patch)
  BY DEF Patches, Fits
<1>2. Settled(p, s2, id)
  BY <1>1 DEF Settles
<1>3. Advances(v, local, k, s, s2, id)
  BY <1>1, FillAdvances
<1> QED BY <1>2, <1>3

\* q, the writes of a visit of row id, is all that the pass asks of it.
Handles(v, local, k, s, id, q) ==
  /\ q = <<>> => Settled(PassesOf[v + 1][k], s, id)
  /\ q # <<>> => Pending(v, local, k, s, q, id)

\* Pass p, the k-th after version v > 2, is about to visit id.
Ready(v, k, p, id) ==
  /\ v \in 3..13 /\ k \in 1..Len(PassesOf[v + 1]) /\ p = PassesOf[v + 1][k]
  /\ RowTypes(db) /\ Good(v, ls, db) /\ id \in Targets(ls, p, db)
  /\ \A j \in 1..(k - 1) : Done(ls, PassesOf[v + 1][j], db)

Visited(v, k, p, id) == Handles(v, ls, k, db, id, WritesOf(p.does, Item(ls, p, db, id)))

\* A visit of an existing row: its row, and what it takes to handle it
Visiting(v, k, p, c, id, i) ==
  /\ Ready(v, k, p, id) /\ p.over = c /\ id \in DOMAIN db[c]
  /\ i.in = c /\ i.id = id /\ i.row = db[c][id]
  /\ Related(v, db) /\ ShapeOf(v, ls, db) /\ Named(db)
  /\ i = Item(ls, p, db, id)

LEMMA VisitingIs ==
  ASSUME NEW v, NEW k, NEW p, NEW id, Ready(v, k, p, id), NEW does, NEW c, p = On(does, c),
         does \notin {"init", "demo", "hgv-shifts", "copy", "insert"}
  PROVE  Visiting(v, k, p, c, id, Item(ls, p, db, id))
<1>1. p.does = does /\ p.over = c
  BY DEF On
<1>2. /\ Item(ls, p, db, id).in = c /\ Item(ls, p, db, id).id = id
      /\ Item(ls, p, db, id).row = db[c][id]
  BY <1>1 DEF Item
<1>3. id \in DOMAIN db[c]
  BY <1>1 DEF Ready, Targets
<1>4. Related(v, db) /\ ShapeOf(v, ls, db) /\ Named(db)
  BY DEF Ready, Good
<1> QED BY <1>1, <1>2, <1>3, <1>4 DEF Visiting

LEMMA SkipHandled ==
  ASSUME NEW v, NEW k, NEW p, NEW id, Ready(v, k, p, id), Settled(p, db, id)
  PROVE  Handles(v, ls, k, db, id, Skip)
  BY DEF Ready, Handles, Skip

LEMMA FillHandled ==
  ASSUME NEW v, NEW k, NEW p, NEW id, Ready(v, k, p, id), p.does # "insert",
         NEW patch, Fits(db, p.over, id, patch), Settles(p, db, id, patch),
         p.over = "assignments" /\ v >= 4 => "rateCardLineageId" \notin DOMAIN patch
  PROVE  Handles(v, ls, k, db, id, <<Update(p.over, id, patch)>>)
<1>1. Completes(v, ls, k, db, Update(p.over, id, patch), id)
  BY FillCompletes DEF Ready
<1>2. Pending(v, ls, k, db, <<Update(p.over, id, patch)>>, id)
  BY <1>1, Pendings
<1>3. <<Update(p.over, id, patch)>> # <<>>
  OBVIOUS
<1> QED BY <1>2, <1>3 DEF Handles

LEMMA VersionVisited ==
  ASSUME NEW v, NEW k, NEW p, NEW id, Ready(v, k, p, id), p = On("version", "rateCards")
  PROVE  Visited(v, k, p, id)
<1>1. PICK i : Visiting(v, k, p, "rateCards", id, i)
  BY VisitingIs
<1>0. Ready(v, k, p, id) /\ p.does = "version" /\ p.over = "rateCards"
  BY DEF On
<1> DEFINE patch == [lineageId |-> id]
<1>2. WritesOf(p.does, i) = VersionCard(i)
  BY <1>0 DEF WritesOf
<1>3. CASE Get(i.row, "lineageId") # Null
  <2>1. Settled(p, db, id)
    BY <1>1, <1>3, SettledIs DEF Visiting
  <2> QED BY <1>1, <1>2, <1>3, <2>1, SkipHandled DEF VersionCard, Visiting, Visited
<1>4. CASE Get(i.row, "lineageId") = Null
  <2>1. VersionCard(i) = <<Update("rateCards", id, patch)>>
    BY <1>1, <1>4 DEF VersionCard, Visiting
  <2>2. DOMAIN patch = {"lineageId"} /\ patch["lineageId"] = id /\ id # Null
    BY <1>1 DEF Visiting, Named
  <2> HIDE DEF patch
  <2>3. Fits(db, "rateCards", id, patch)
    BY <1>1, <1>4, <2>2 DEF Fits, Fillable, Visiting
  <2>4. Settles(p, db, id, patch)
    BY <1>0, <2>2, PatchFills, SettledIs DEF Settles
  <2>5. Handles(v, ls, k, db, id, <<Update("rateCards", id, patch)>>)
    BY <1>0, <2>3, <2>4, FillHandled
  <2> QED BY <1>1, <1>2, <2>1, <2>5 DEF Visiting, Visited
<1> QED BY <1>3, <1>4

LEMMA LineVisited ==
  ASSUME NEW v, NEW k, NEW p, NEW id, Ready(v, k, p, id), p = On("line", "assignments")
  PROVE  Visited(v, k, p, id)
<1>1. PICK i : Visiting(v, k, p, "assignments", id, i)
  BY VisitingIs
<1>0. Ready(v, k, p, id) /\ p.does = "line" /\ p.over = "assignments"
  BY DEF On
<1>2. WritesOf(p.does, i) = LineOfAssignment(i)
  BY <1>0 DEF WritesOf
<1>3. v = 3
  <2>1. LateKind(v, k, p)
    BY <1>0, LateKinds DEF Ready
  <2> QED BY <1>0, <2>1 DEF LateKind, On
<1>4. \A r \in DOMAIN db.rateCards : db.rateCards[r].lineageId # Null
  <2>0. v + 1 = 4
    BY <1>3
  <2>1. k \in 1..3 /\ p = PassesOf[4][k]
    <3>1. k \in 1..Len(PassesOf[4]) /\ p = PassesOf[4][k]
      BY <1>0, <2>0 DEF Ready
    <3> QED BY <3>1, LatePasses
  <2>2. k # 1
    BY <1>0, <2>1, LatePasses DEF On
  <2>3. 1 \in 1..(k - 1)
    BY <2>1, <2>2
  <2>4. Done(ls, PassesOf[4][1], db)
    BY <1>0, <2>0, <2>3 DEF Ready
  <2>5. Done(ls, On("version", "rateCards"), db)
    BY <2>4, LatePasses
  <2>6. \A r \in DOMAIN db.rateCards : Get(db.rateCards[r], "lineageId") # Null
    BY <2>5, TargetsAre, SettledIs DEF Done
  <2> QED BY <2>6 DEF Get
<1> DEFINE card == Get(i.row, "rateCardId")
           line == IF card \in DOMAIN db.rateCards THEN db.rateCards[card].lineageId ELSE Null
           patch == [rateCardLineageId |-> line]
<1>5. CASE Get(i.row, "rateCardLineageId") # Null \/ card = Null
  <2>1. Settled(p, db, id)
    BY <1>1, <1>5, SettledIs DEF Visiting, Named
  <2> QED BY <1>1, <1>2, <1>5, <2>1, SkipHandled DEF LineOfAssignment, Visiting, Visited
<1>6. CASE ~ (Get(i.row, "rateCardLineageId") # Null \/ card = Null)
  <2>1. LineOfAssignment(i) = <<Update("assignments", id, patch)>>
    BY <1>1, <1>6 DEF LineOfAssignment, Visiting
  <2>2. DOMAIN patch = {"rateCardLineageId"} /\ patch["rateCardLineageId"] = line
    OBVIOUS
  <2>3. line # Null \/ card \notin DOMAIN db.rateCards
    BY <1>4
  <2> HIDE DEF patch, line
  <2>4. Fits(db, "assignments", id, patch)
    BY <1>1, <1>6, <2>2 DEF Fits, Fillable, Visiting
  <2>5. Settles(p, db, id, patch)
    <3> SUFFICES ASSUME NEW s2, Patches(db, s2, "assignments", id, patch) PROVE Settled(p, s2, id)
      BY <1>0 DEF Settles
    <3>1. s2.rateCards = db.rateCards
      BY PatchFills DEF Collections
    <3>2. Get(s2.assignments[id], "rateCardLineageId") = line
      BY <2>2, PatchFills
    <3>3. Get(s2.assignments[id], "rateCardId") = Get(db.assignments[id], "rateCardId")
      BY <2>2, PatchFills
    <3>4. card = Get(db.assignments[id], "rateCardId")
      BY <1>1 DEF Visiting
    <3> HIDE DEF card
    <3> QED BY <2>3, <3>1, <3>2, <3>3, <3>4, SettledIs
  <2>6. Handles(v, ls, k, db, id, <<Update("assignments", id, patch)>>)
    BY <1>0, <1>3, <2>4, <2>5, FillHandled
  <2> QED BY <1>1, <1>2, <2>1, <2>6 DEF Visiting, Visited
<1> QED BY <1>5, <1>6

LEMMA PinVisited ==
  ASSUME NEW v, NEW k, NEW p, NEW id, Ready(v, k, p, id), p = On("pin", "shifts")
  PROVE  Visited(v, k, p, id)
<1>1. PICK i : Visiting(v, k, p, "shifts", id, i)
  BY VisitingIs
<1>0. Ready(v, k, p, id) /\ p.does = "pin" /\ p.over = "shifts"
  BY DEF On
<1>2. WritesOf(p.does, i) = PinShift(i)
  BY <1>0 DEF WritesOf
<1> DEFINE lineage == LineageOf(db, i.row.assignmentId)
           cards == EffectiveCards(db, lineage, i.row.date)
           patch == [rateCardId |-> CHOOSE r \in cards : TRUE]
           skip == \/ Get(i.row, "rateCardId") # Null \/ i.row.assignmentId = Null
                   \/ lineage = Null \/ cards = {}
<1>3. CASE skip
  <2>1. LineageOf(db, Null) = Null
    BY <1>1 DEF LineageOf, Visiting, Named
  <2>2. Settled(p, db, id)
    BY <1>1, <1>3, <2>1, SettledIs DEF Visiting
  <2>3. PinShift(i) = Skip
    BY <1>3 DEF PinShift
  <2> QED BY <1>1, <1>2, <2>2, <2>3, SkipHandled DEF Visiting, Visited
<1>4. CASE ~skip
  <2>1. PinShift(i) = <<Update("shifts", id, patch)>>
    BY <1>1, <1>4 DEF PinShift, Visiting
  <2>2. cards # {} /\ cards \subseteq DOMAIN db.rateCards
    BY <1>4 DEF EffectiveCards, VersionsBy
  <2>3. Get(db.shifts[id], "rateCardId") = Null
    BY <1>1, <1>4 DEF Visiting
  <2> HIDE DEF cards
  <2>4. (CHOOSE r \in cards : TRUE) \in cards
    BY <2>2
  <2>5. DOMAIN patch = {"rateCardId"} /\ patch["rateCardId"] # Null
    BY <1>1, <2>2, <2>4 DEF Visiting, Named
  <2> HIDE DEF patch
  <2>6. Fits(db, "shifts", id, patch)
    BY <2>3, <2>5 DEF Fits, Fillable
  <2>7. Settles(p, db, id, patch)
    BY <1>0, <2>5, PatchFills, SettledIs DEF Settles
  <2>8. Handles(v, ls, k, db, id, <<Update("shifts", id, patch)>>)
    BY <1>0, <2>6, <2>7, FillHandled
  <2> QED BY <1>1, <1>2, <2>1, <2>8 DEF Visiting, Visited
<1> QED BY <1>3, <1>4

LEMMA TypeVisited ==
  ASSUME NEW v, NEW k, NEW p, NEW id, Ready(v, k, p, id), p = On("type", "organisations")
  PROVE  Visited(v, k, p, id)
<1>1. PICK i : Visiting(v, k, p, "organisations", id, i)
  BY VisitingIs
<1>0. Ready(v, k, p, id) /\ p.does = "type" /\ p.over = "organisations"
  BY DEF On
<1>2. WritesOf(p.does, i) = TypeOfOrganisation(i)
  BY <1>0 DEF WritesOf
<1> DEFINE kind == IF i.row.workspaceId \in DOMAIN db.workspaces
                     THEN db.workspaces[i.row.workspaceId].kind ELSE "other"
           type == IF kind \in {"agency", "transport_company"} THEN kind ELSE "other"
           patch == [types |-> type]
<1>3. CASE Get(i.row, "types") # Null
  <2>1. Settled(p, db, id)
    BY <1>1, <1>3, SettledIs DEF Visiting
  <2> QED BY <1>1, <1>2, <1>3, <2>1, SkipHandled DEF TypeOfOrganisation, Visiting, Visited
<1>4. CASE Get(i.row, "types") = Null
  <2>1. TypeOfOrganisation(i) = <<Update("organisations", id, patch)>>
    BY <1>1, <1>4 DEF TypeOfOrganisation, Visiting
  <2> HIDE DEF kind
  <2>2. DOMAIN patch = {"types"} /\ patch["types"] # Null
    BY DEF Null
  <2> HIDE DEF patch
  <2>3. Fits(db, "organisations", id, patch)
    BY <1>1, <1>4, <2>2 DEF Fits, Fillable, Visiting
  <2>4. Settles(p, db, id, patch)
    BY <1>0, <2>2, PatchFills, SettledIs DEF Settles
  <2>5. Handles(v, ls, k, db, id, <<Update("organisations", id, patch)>>)
    BY <1>0, <2>3, <2>4, FillHandled
  <2> QED BY <1>1, <1>2, <2>1, <2>5 DEF Visiting, Visited
<1> QED BY <1>3, <1>4

\* The passes that add a field
LEMMA FieldVisited ==
  ASSUME NEW v, NEW k, NEW p, NEW id, Ready(v, k, p, id),
         \/ p \in {On("archivedAt", "sites"), On("archivedAt", "memberships"), On("archivedAt", "people")}
         \/ p \in {On("lastUsedAssignmentId", "driverProfiles"), On("preferredAssignmentId", "driverProfiles")}
         \/ p \in {On("motExpiryDate", "vehicles")}
  PROVE  Visited(v, k, p, id)
<1>0. /\ Ready(v, k, p, id) /\ p = On(p.does, p.over) /\ p.does \in Columns
      /\ p.over \in DOMAIN Fillable /\ p.does \in Fillable[p.over] /\ p.over # "assignments"
  BY DEF On, Columns, Fillable
<1>1. PICK i : Visiting(v, k, p, p.over, id, i)
  BY <1>0, VisitingIs DEF Columns
<1>2. WritesOf(p.does, i) = AddField(i, p.does)
  BY <1>0 DEF WritesOf, Columns
<1> DEFINE patch == [g \in {p.does} |-> Null]
<1>3. \A s : Settled(p, s, id) <=> p.does \in DOMAIN s[p.over][id]
  BY <1>0 DEF Settled, Columns
<1>4. CASE p.does \in DOMAIN i.row
  <2>1. Settled(p, db, id)
    BY <1>1, <1>3, <1>4 DEF Visiting
  <2> QED BY <1>1, <1>2, <1>4, <2>1, SkipHandled DEF AddField, Visiting, Visited
<1>5. CASE p.does \notin DOMAIN i.row
  <2>1. AddField(i, p.does) = <<Update(p.over, id, patch)>>
    BY <1>1, <1>5 DEF AddField, Visiting
  <2>2. DOMAIN patch = {p.does}
    OBVIOUS
  <2> HIDE DEF patch
  <2>3. Fits(db, p.over, id, patch)
    BY <1>0, <1>1, <1>5, <2>2 DEF Fits, Visiting, Get
  <2>4. Settles(p, db, id, patch)
    BY <1>3, <2>2, PatchFills DEF Settles
  <2>5. Handles(v, ls, k, db, id, <<Update(p.over, id, patch)>>)
    BY <1>0, <2>3, <2>4, FillHandled DEF Columns
  <2> QED BY <1>1, <1>2, <2>1, <2>5 DEF Visiting, Visited
<1> QED BY <1>4, <1>5

LEMMA PayTypeVisited ==
  ASSUME NEW v, NEW k, NEW p, NEW id, Ready(v, k, p, id), p = On("payType", "rateCardLineages")
  PROVE  Visited(v, k, p, id)
<1>1. PICK i : Visiting(v, k, p, "rateCardLineages", id, i)
  BY VisitingIs
<1>0. Ready(v, k, p, id) /\ p.does = "payType" /\ p.over = "rateCardLineages"
  BY DEF On
<1>2. WritesOf(p.does, i) = PayType(i)
  BY <1>0 DEF WritesOf
<1> DEFINE patch == [payType |-> "hourly"]
<1>3. CASE "payType" \in DOMAIN i.row
  <2>1. Settled(p, db, id)
    BY <1>1, <1>3, SettledIs DEF Visiting
  <2> QED BY <1>1, <1>2, <1>3, <2>1, SkipHandled DEF PayType, Visiting, Visited
<1>4. CASE "payType" \notin DOMAIN i.row
  <2>1. PayType(i) = <<Update("rateCardLineages", id, patch)>>
    BY <1>1, <1>4 DEF PayType, Visiting
  <2>2. DOMAIN patch = {"payType"}
    OBVIOUS
  <2> HIDE DEF patch
  <2>3. Fits(db, "rateCardLineages", id, patch)
    BY <1>1, <1>4, <2>2 DEF Fits, Fillable, Visiting, Get
  <2>4. Settles(p, db, id, patch)
    BY <1>0, <2>2, PatchFills, SettledIs DEF Settles
  <2>5. Handles(v, ls, k, db, id, <<Update("rateCardLineages", id, patch)>>)
    BY <1>0, <2>3, <2>4, FillHandled
  <2> QED BY <1>1, <1>2, <2>1, <2>5 DEF Visiting, Visited
<1> QED BY <1>3, <1>4

LEMMA LineageVisited ==
  ASSUME NEW v, NEW k, NEW p, NEW id, Ready(v, k, p, id), p = On("insert", "rateCardLineages")
  PROVE  Visited(v, k, p, id)
<1>0. Ready(v, k, p, id) /\ p.does = "insert" /\ p.over = "rateCardLineages"
  BY DEF On
<1>1. PICK i : i = Item(ls, p, db, id)
  OBVIOUS
<1>2. i.id = id /\ WritesOf(p.does, i) = LineageRow(i)
  BY <1>0, <1>1 DEF Item, WritesOf
<1>3. v = 4 /\ v + 1 = 5
  <2>1. LateKind(v, k, p)
    BY <1>0, LateKinds DEF Ready
  <2>2. v = 4
    BY <1>0, <2>1 DEF LateKind, On
  <2> QED BY <2>2
<1>4. CASE id \in DOMAIN db.rateCardLineages
  <2>1. Settled(p, db, id)
    BY <1>4, SettledIs
  <2> QED BY <1>0, <1>1, <1>2, <1>4, <2>1, SkipHandled DEF LineageRow, Visited
<1>5. CASE id \notin DOMAIN db.rateCardLineages
  <2> DEFINE w == Insert("rateCardLineages", id, NoFields)
  <2>1. LineageRow(i) = <<w>>
    BY <1>2, <1>5 DEF LineageRow
  <2>2. k \in 1..5 /\ p = PassesOf[5][k] /\ RowTypes(db) /\ Good(4, ls, db)
    <3>1. k \in 1..Len(PassesOf[5])
      BY <1>3 DEF Ready
    <3> QED BY <1>3, <3>1, LatePasses DEF Ready
  <2>3. Completes(4, ls, k, db, w, id)
    <3> SUFFICES ASSUME NEW s2, Written(db, w, s2)
                 PROVE  Advances(4, ls, k, db, s2, id) /\ Settled(PassesOf[4 + 1][k], s2, id)
      BY DEF Completes
    <3>1. Advances(4, ls, k, db, s2, id) /\ Settled(p, s2, id)
      BY <2>2, LineageAdvances
    <3> QED BY <1>0, <1>3, <3>1 DEF Ready
  <2> HIDE DEF w
  <2>4. Pending(v, ls, k, db, <<w>>, id) /\ <<w>> # <<>>
    BY <1>3, <2>3, Pendings
  <2> QED BY <1>1, <1>2, <2>1, <2>4 DEF Visited, Handles
<1> QED BY <1>4, <1>5

LEMMA EmployerVisited ==
  ASSUME NEW v, NEW k, NEW p, NEW id, Ready(v, k, p, id), p = On("employer", "engagements")
  PROVE  Visited(v, k, p, id)
<1>1. PICK i : Visiting(v, k, p, "engagements", id, i)
  BY VisitingIs
<1>0. Ready(v, k, p, id) /\ p.does = "employer" /\ p.over = "engagements"
  BY DEF On
<1>2. WritesOf(p.does, i) = Employer(i)
  BY <1>0 DEF WritesOf
<1> DEFINE employer == Get(i.row, "organisationId")
           patch == [employerOrganisationId |-> employer]
<1>3. CASE Get(i.row, "employerOrganisationId") # Null
  <2>1. Settled(p, db, id)
    BY <1>1, <1>3, SettledIs DEF Visiting
  <2> QED BY <1>1, <1>2, <1>3, <2>1, SkipHandled DEF Employer, Visiting, Visited
<1>4. CASE Get(i.row, "employerOrganisationId") = Null
  <2>1. Employer(i) = <<Update("engagements", id, patch)>>
    BY <1>1, <1>4 DEF Employer, Visiting
  <2>2. DOMAIN patch = {"employerOrganisationId"} /\ patch["employerOrganisationId"] = employer
    OBVIOUS
  <2>3. employer = Get(db.engagements[id], "organisationId")
    BY <1>1 DEF Visiting
  <2> HIDE DEF patch, employer
  <2>4. Fits(db, "engagements", id, patch)
    BY <1>1, <1>4, <2>2 DEF Fits, Fillable, Visiting
  <2>5. Settles(p, db, id, patch)
    <3> SUFFICES ASSUME NEW s2, Patches(db, s2, "engagements", id, patch) PROVE Settled(p, s2, id)
      BY <1>0 DEF Settles
    <3>1. Get(s2.engagements[id], "employerOrganisationId") = employer
      BY <2>2, PatchFills
    <3>2. Get(s2.engagements[id], "organisationId") = Get(db.engagements[id], "organisationId")
      BY <2>2, PatchFills
    <3> QED BY <2>3, <3>1, <3>2, SettledIs
  <2>6. Handles(v, ls, k, db, id, <<Update("engagements", id, patch)>>)
    BY <1>0, <2>4, <2>5, FillHandled
  <2> QED BY <1>1, <1>2, <2>1, <2>6 DEF Visiting, Visited
<1> QED BY <1>3, <1>4

LEMMA WorkspaceVisited ==
  ASSUME NEW v, NEW k, NEW p, NEW id, Ready(v, k, p, id), p = On("workspace", "driverProfiles")
  PROVE  Visited(v, k, p, id)
<1>1. PICK i : Visiting(v, k, p, "driverProfiles", id, i)
  BY VisitingIs
<1>0. Ready(v, k, p, id) /\ p.does = "workspace" /\ p.over = "driverProfiles"
  BY DEF On
<1>2. WritesOf(p.does, i) = ProfileWorkspace(i)
  BY <1>0 DEF WritesOf
<1> DEFINE personal == {w \in DOMAIN db.workspaces :
                          /\ db.workspaces[w].kind = "personal"
                          /\ db.workspaces[w].ownerPersonId = i.row.personId}
           patch == [workspaceId |-> CHOOSE w \in personal : TRUE]
<1>3. CASE Get(i.row, "workspaceId") # Null
  <2>1. Settled(p, db, id)
    BY <1>1, <1>3, SettledIs DEF Visiting
  <2> QED BY <1>1, <1>2, <1>3, <2>1, SkipHandled DEF ProfileWorkspace, Visiting, Visited
<1>4. CASE Get(i.row, "workspaceId") = Null
  <2>1. personal # {}
    BY <1>1, <1>4 DEF Visiting, Related, DriversRelated
  <2>2. ProfileWorkspace(i) = <<Update("driverProfiles", id, patch)>>
    BY <1>1, <1>4, <2>1 DEF ProfileWorkspace, Visiting
  <2>3. personal \subseteq DOMAIN db.workspaces
    OBVIOUS
  <2> HIDE DEF personal
  <2>4. (CHOOSE w \in personal : TRUE) \in personal
    BY <2>1
  <2>5. DOMAIN patch = {"workspaceId"} /\ patch["workspaceId"] # Null
    BY <1>1, <2>3, <2>4 DEF Visiting, Named
  <2> HIDE DEF patch
  <2>6. Fits(db, "driverProfiles", id, patch)
    BY <1>1, <1>4, <2>5 DEF Fits, Fillable, Visiting
  <2>7. Settles(p, db, id, patch)
    BY <1>0, <2>5, PatchFills, SettledIs DEF Settles
  <2>8. Handles(v, ls, k, db, id, <<Update("driverProfiles", id, patch)>>)
    BY <1>0, <2>6, <2>7, FillHandled
  <2> QED BY <1>1, <1>2, <2>2, <2>8 DEF Visiting, Visited
<1> QED BY <1>3, <1>4

LEMMA ProviderVisited ==
  ASSUME NEW v, NEW k, NEW p, NEW id, Ready(v, k, p, id), p = On("provider", "engagements")
  PROVE  Visited(v, k, p, id)
<1>1. PICK i : Visiting(v, k, p, "engagements", id, i)
  BY VisitingIs
<1>0. Ready(v, k, p, id) /\ p.does = "provider" /\ p.over = "engagements"
  BY DEF On
<1>2. WritesOf(p.does, i) = Provider(i)
  BY <1>0 DEF WritesOf
<1>3. v = 7
  <2>1. LateKind(v, k, p)
    BY <1>0, LateKinds DEF Ready
  <2> QED BY <1>0, <2>1 DEF LateKind, On
<1> DEFINE whole == [providerOrganisationId |-> Get(i.row, "employerOrganisationId"),
                     relationshipType |-> Get(i.row, "role")]
           missing == {f \in DOMAIN whole : Get(i.row, f) = Null}
           patch == [f \in missing |-> whole[f]]
<1>4. DOMAIN whole = {"providerOrganisationId", "relationshipType"}
  OBVIOUS
<1>5. CASE missing = {}
  <2>1. Settled(p, db, id)
    BY <1>1, <1>4, <1>5, SettledIs DEF Visiting
  <2> QED BY <1>1, <1>2, <1>5, <2>1, SkipHandled DEF Provider, Visiting, Visited
<1>6. CASE missing # {}
  <2>1. Provider(i) = <<Update("engagements", id, patch)>>
    BY <1>1, <1>6 DEF Provider, Visiting
  <2>2. /\ DOMAIN patch = missing /\ missing \subseteq {"providerOrganisationId", "relationshipType"}
        /\ \A f \in missing : Get(db.engagements[id], f) = Null
        /\ "providerOrganisationId" \in missing =>
             patch["providerOrganisationId"] = Get(db.engagements[id], "employerOrganisationId")
        /\ "providerOrganisationId" \notin missing => Get(db.engagements[id], "providerOrganisationId") # Null
    BY <1>1, <1>4 DEF Visiting
  <2> HIDE DEF patch, missing, whole
  <2>3. Fits(db, "engagements", id, patch)
    BY <2>2 DEF Fits, Fillable
  <2>4. \/ Get(db.engagements[id], "providerOrganisationId") # Null
        \/ Get(db.engagements[id], "employerOrganisationId") # Null
    BY <1>1, <1>3 DEF Visiting, Related, EngagementsRelated
  <2>5. Settles(p, db, id, patch)
    <3> SUFFICES ASSUME NEW s2, Patches(db, s2, "engagements", id, patch) PROVE Settled(p, s2, id)
      BY <1>0 DEF Settles
    <3>1. Get(s2.engagements[id], "providerOrganisationId") # Null
      <4>1. CASE "providerOrganisationId" \in missing
        BY <2>2, <2>4, <4>1, PatchFills
      <4>2. CASE "providerOrganisationId" \notin missing
        BY <2>2, <4>2, PatchFills
      <4> QED BY <4>1, <4>2
    <3> QED BY <3>1, SettledIs
  <2>6. Handles(v, ls, k, db, id, <<Update("engagements", id, patch)>>)
    BY <1>0, <2>3, <2>5, FillHandled
  <2> QED BY <1>1, <1>2, <2>1, <2>6 DEF Visiting, Visited
<1> QED BY <1>5, <1>6

LEMMA TemplateVisited ==
  ASSUME NEW v, NEW k, NEW p, NEW id, Ready(v, k, p, id), p = On("template", "workspaces")
  PROVE  Visited(v, k, p, id)
<1>1. PICK i : Visiting(v, k, p, "workspaces", id, i)
  BY VisitingIs
<1>0. Ready(v, k, p, id) /\ p.does = "template" /\ p.over = "workspaces"
  BY DEF On
<1>2. WritesOf(p.does, i) = DefaultTemplate(i) /\ i.id = id
  BY <1>0, <1>1 DEF WritesOf, Visiting
<1>3. v = 8 /\ v + 1 = 9
  <2>1. LateKind(v, k, p)
    BY <1>0, LateKinds DEF Ready
  <2>2. v = 8
    BY <1>0, <2>1 DEF LateKind, On
  <2> QED BY <2>2
<1> DEFINE found == \E c \in DOMAIN db.checklistTemplates : db.checklistTemplates[c].workspaceId = id
<1>4. CASE found
  <2>1. Settled(p, db, id)
    BY <1>4, SettledIs
  <2> QED BY <1>1, <1>2, <1>4, <2>1, SkipHandled DEF DefaultTemplate, Visiting, Visited
<1>5. CASE ~found
  <2> DEFINE w == Insert("checklistTemplates", NewId, [workspaceId |-> id])
  <2>1. DefaultTemplate(i) = <<w>>
    BY <1>2, <1>5 DEF DefaultTemplate
  <2>2. k \in 1..1 /\ p = PassesOf[9][k] /\ Good(8, ls, db) /\ id \in DOMAIN db.workspaces
    <3>1. k \in 1..Len(PassesOf[9])
      BY <1>3 DEF Ready
    <3> QED BY <1>1, <1>3, <3>1, LatePasses DEF Ready, Visiting
  <2>3. Completes(8, ls, k, db, w, id)
    <3> SUFFICES ASSUME NEW s2, Written(db, w, s2)
                 PROVE  Advances(8, ls, k, db, s2, id) /\ Settled(PassesOf[8 + 1][k], s2, id)
      BY DEF Completes
    <3>1. Advances(8, ls, k, db, s2, id) /\ Settled(p, s2, id)
      BY <1>5, <2>2, TemplateAdvances
    <3> QED BY <1>0, <1>3, <3>1 DEF Ready
  <2> HIDE DEF w
  <2>4. Pending(v, ls, k, db, <<w>>, id) /\ <<w>> # <<>>
    BY <1>3, <2>3, Pendings
  <2> QED BY <1>1, <1>2, <2>1, <2>4 DEF Visited, Handles, Visiting
<1> QED BY <1>4, <1>5

LEMMA ClientVisited ==
  ASSUME NEW v, NEW k, NEW p, NEW id, Ready(v, k, p, id), p = On("client", "sites")
  PROVE  Visited(v, k, p, id)
<1>1. PICK i : Visiting(v, k, p, "sites", id, i)
  BY VisitingIs
<1>0. Ready(v, k, p, id) /\ p.does = "client" /\ p.over = "sites"
  BY DEF On
<1>2. WritesOf(p.does, i) = ClientOfSite(i)
  BY <1>0 DEF WritesOf
<1>3. v = 5 /\ v + 1 = 6
  <2>1. LateKind(v, k, p)
    BY <1>0, LateKinds DEF Ready
  <2>2. v = 5
    BY <1>0, <2>1 DEF LateKind, On
  <2> QED BY <2>2
<1>4. k \in 1..2 /\ p = PassesOf[6][k] /\ RowTypes(db) /\ Good(5, ls, db)
  <2>1. k \in 1..Len(PassesOf[6])
    BY <1>3 DEF Ready
  <2> QED BY <1>3, <2>1, LatePasses DEF Ready
<1> DEFINE org  == db.sites[id].organisationId
           name == db.sites[id].clientName
           found == ClientOrgs(db.organisations[org].workspaceId, name)
           skip == name = Null \/ org \notin DOMAIN db.organisations \/ Get(db.organisations[org], "types") \notin SelfTypes
           w(o) == Update("sites", id, [organisationId |-> o])
<1>5. i.row = db.sites[id] /\ i.id = id /\ id \in DOMAIN db.sites
  BY <1>1 DEF Visiting
<1>6. org \in DOMAIN db.organisations /\ SitesRelated(db)
  BY <1>1, <1>5 DEF Visiting, Related, SitesRelated
<1>7. ASSUME NEW s, NEW o, RowTypes(s), Good(5, ls, s), ClientOf(s, id, o)
      PROVE  Completes(5, ls, k, s, w(o), id)
  <2> SUFFICES ASSUME NEW s2, Written(s, w(o), s2)
               PROVE  Advances(5, ls, k, s, s2, id) /\ Settled(PassesOf[5 + 1][k], s2, id)
    BY DEF Completes
  <2>1. Advances(5, ls, k, s, s2, id) /\ Settled(p, s2, id)
    BY <1>4, <1>7, SiteAdvances
  <2> QED BY <1>0, <1>3, <2>1 DEF Ready
<1>8. CASE skip
  <2>1. Get(db.organisations[org], "types") = db.organisations[org].types
    BY <1>1, <1>3, <1>6 DEF Visiting, ShapeOf, MasterDataAdded, Filled, Get
  <2>2. Settled(p, db, id)
    BY <1>6, <1>8, <2>1, SettledIs
  <2>3. ClientOfSite(i) = Skip
    BY <1>5, <1>8 DEF ClientOfSite
  <2> QED BY <1>1, <1>2, <2>2, <2>3, SkipHandled DEF Visiting, Visited
<1>9. CASE ~skip /\ found # {}
  <2> DEFINE o == CHOOSE x \in found : TRUE
  <2>1. ClientOfSite(i) = <<w(o)>>
    BY <1>5, <1>9 DEF ClientOfSite
  <2>2. o \in found
    BY <1>9
  <2> HIDE DEF o
  <2>3. /\ o \in DOMAIN db.organisations
        /\ db.organisations[o].workspaceId = db.organisations[org].workspaceId
        /\ db.organisations[o].tradingName = name
    BY <2>2 DEF ClientOrgs
  <2>4. name # Null
    BY <1>9
  <2>5. Get(db.organisations[o], "types") = "client"
    BY <1>5, <1>6, <2>3, <2>4 DEF SitesRelated
  <2>6. ClientOf(db, id, o)
    BY <1>5, <2>3, <2>4, <2>5 DEF ClientOf
  <2>7. Completes(5, ls, k, db, w(o), id)
    BY <1>4, <1>7, <2>6
  <2> HIDE DEF w
  <2>8. Pending(v, ls, k, db, <<w(o)>>, id) /\ <<w(o)>> # <<>>
    BY <1>3, <2>7, Pendings
  <2> QED BY <1>1, <1>2, <2>1, <2>8 DEF Visited, Handles, Visiting
<1>10. CASE ~skip /\ found = {}
  <2> DEFINE n == NewId
             x == Insert("organisations", n, ClientRow(db, id))
  <2>1. ClientOfSite(i) = <<x, w(n)>>
    BY <1>5, <1>10 DEF ClientOfSite, ClientRow
  <2>2. NewClient(db, id)
    BY <1>5, <1>10 DEF NewClient, ClientOrgs
  <2>3. Leads(5, ls, k, db, x, w(n), id)
    <3> SUFFICES ASSUME NEW s2, RowTypes(s2), Written(db, x, s2)
                 PROVE  Advances(5, ls, k, db, s2, id) /\ Completes(5, ls, k, s2, w(n), id)
      BY DEF Leads
    <3> HIDE DEF n
    <3>1. Advances(5, ls, k, db, s2, id) /\ ClientOf(s2, id, n)
      BY <1>4, <2>2, ClientAdvances
    <3>2. Good(5, ls, s2)
      BY <3>1 DEF Advances
    <3> QED BY <1>7, <3>1, <3>2
  <2> HIDE DEF x, w, n
  <2>4. Pending(v, ls, k, db, <<x, w(n)>>, id) /\ <<x, w(n)>> # <<>>
    BY <1>3, <2>3, Pendings
  <2> QED BY <1>1, <1>2, <2>1, <2>4 DEF Visited, Handles, Visiting
<1> QED BY <1>8, <1>9, <1>10

LEMMA PlacementVisited ==
  ASSUME NamesAreNotNull,
         NEW v, NEW k, NEW p, NEW id, Ready(v, k, p, id), p = On("placement", "assignments")
  PROVE  Visited(v, k, p, id)
<1>1. PICK i : Visiting(v, k, p, "assignments", id, i)
  BY VisitingIs
<1>0. Ready(v, k, p, id) /\ p.does = "placement" /\ p.over = "assignments"
  BY DEF On
<1>2. WritesOf(p.does, i) = PlacementOf(i)
  BY <1>0 DEF WritesOf
<1>3. v = 7 /\ v + 1 = 8
  <2>1. LateKind(v, k, p)
    BY <1>0, LateKinds DEF Ready
  <2>2. v = 7
    BY <1>0, <2>1 DEF LateKind, On
  <2> QED BY <2>2
<1>4. k \in 1..2 /\ p = PassesOf[8][k] /\ RowTypes(db) /\ Good(7, ls, db)
  <2>1. k \in 1..Len(PassesOf[8])
    BY <1>3 DEF Ready
  <2> QED BY <1>3, <2>1, LatePasses DEF Ready
<1>5. i.row = db.assignments[id] /\ i.id = id /\ id \in DOMAIN db.assignments
  BY <1>1 DEF Visiting
<1> DEFINE site == Get(db.assignments[id], "siteId")
           line == Get(db.assignments[id], "rateCardLineageId")
           provider == Get(db.engagements[db.assignments[id].engagementId], "providerOrganisationId")
           n == derivePlacementId(provider, site, line)
           patch == [placementId |-> n]
           w == Update("assignments", id, patch)
<1>6. CASE Get(db.assignments[id], "placementId") # Null
  <2>1. Settled(p, db, id)
    BY <1>6, SettledIs
  <2>2. PlacementOf(i) = Skip
    BY <1>5, <1>6 DEF PlacementOf
  <2> QED BY <1>1, <1>2, <2>1, <2>2, SkipHandled DEF Visiting, Visited
<1>7. CASE Get(db.assignments[id], "placementId") = Null
  <2>1. site # Null /\ line # Null /\ db.assignments[id].engagementId \in DOMAIN db.engagements
    BY <1>1, <1>3, <1>5, <1>7 DEF Visiting, Related, AssignmentsRelated
  <2>2. n # Null
    BY DEF NamesAreNotNull
  <2>3. ASSUME NEW s, RowTypes(s), Good(7, ls, s), s.assignments = db.assignments
        PROVE  Completes(7, ls, k, s, w, id)
    <3>1. DOMAIN patch = {"placementId"} /\ patch["placementId"] = n
      OBVIOUS
    <3> HIDE DEF patch, n
    <3>2. Fits(s, "assignments", id, patch)
      BY <1>7, <2>3, <3>1 DEF Fits, Fillable
    <3>3. Settles(p, s, id, patch)
      BY <1>0, <2>2, <3>1, PatchFills, SettledIs DEF Settles
    <3>4. 7 + 1 = 8 /\ 7 \in 3..13
      OBVIOUS
    <3>5. k \in 1..Len(PassesOf[7 + 1]) /\ p = PassesOf[7 + 1][k]
      BY <1>4, <3>4, LatePasses
    <3>6. "rateCardLineageId" \notin DOMAIN patch
      BY <3>1
    <3> QED BY <1>0, <2>3, <3>2, <3>3, <3>4, <3>5, <3>6, FillCompletes
  <2>4. CASE n \in DOMAIN db.placements
    <3>1. PlacementOf(i) = <<w>>
      BY <1>5, <1>7, <2>1, <2>4 DEF PlacementOf
    <3>2. Completes(7, ls, k, db, w, id)
      BY <1>4, <2>3
    <3> HIDE DEF w
    <3>3. Pending(v, ls, k, db, <<w>>, id) /\ <<w>> # <<>>
      BY <1>3, <3>2, Pendings
    <3> QED BY <1>1, <1>2, <3>1, <3>3 DEF Visited, Handles, Visiting
  <2>5. CASE n \notin DOMAIN db.placements
    <3> DEFINE x == Insert("placements", n, PlacementRow(provider, site, line))
    <3>1. PlacementOf(i) = <<x, w>>
      BY <1>5, <1>7, <2>1, <2>5 DEF PlacementOf, PlacementRow
    <3>2. Leads(7, ls, k, db, x, w, id)
      <4> SUFFICES ASSUME NEW s2, RowTypes(s2), Written(db, x, s2)
                   PROVE  Advances(7, ls, k, db, s2, id) /\ Completes(7, ls, k, s2, w, id)
        BY DEF Leads
      <4>1. Advances(7, ls, k, db, s2, id)
        <5> HIDE DEF provider, site, line
        <5> QED BY <1>4, <1>5, <1>7, PlacementAdvances
      <4>2. Good(7, ls, s2)
        BY <4>1 DEF Advances
      <4>3. s2.assignments = db.assignments
        BY DEF Written, Insert, Collections
      <4> HIDE DEF w
      <4> QED BY <2>3, <4>1, <4>2, <4>3
    <3> HIDE DEF x, w
    <3>3. Pending(v, ls, k, db, <<x, w>>, id) /\ <<x, w>> # <<>>
      BY <1>3, <3>2, Pendings
    <3> QED BY <1>1, <1>2, <3>1, <3>3 DEF Visited, Handles, Visiting
  <2> QED BY <2>4, <2>5
<1> QED BY <1>6, <1>7

LEMMA EarlyCompletes ==
  ASSUME NEW v \in 0..2, NEW local, IsStore(local), NEW s, Good(v, local, s),
         NEW k \in 1..Len(PassesOf[v + 1]), NEW p, p = PassesOf[v + 1][k],
         NEW w, EarlyWrite(v, local, w), NEW id,
         \A s2 : w.id \in DOMAIN s2[w.in] => Settled(p, s2, id)
  PROVE  Completes(v, local, k, s, w, id)
<1> SUFFICES ASSUME NEW s2, Written(s, w, s2)
             PROVE  Advances(v, local, k, s, s2, id) /\ Settled(p, s2, id)
  BY DEF Completes
<1>1. w.id \in DOMAIN s2[w.in]
  BY DEF Written
<1>2. Advances(v, local, k, s, s2, id)
  BY EarlyAdvances
<1> QED BY <1>1, <1>2

\* Pass p, the k-th after version v < 3, is about to visit id.
EarlyReady(v, k, p, id) ==
  /\ v \in 0..2 /\ k \in 1..Len(PassesOf[v + 1]) /\ p = PassesOf[v + 1][k]
  /\ IsStore(ls) /\ Good(v, ls, db) /\ id \in Targets(ls, p, db)

LEMMA WriteHandled ==
  ASSUME NEW v, NEW k, NEW p, NEW id, EarlyReady(v, k, p, id), NEW w, EarlyWrite(v, ls, w),
         \A s2 : w.id \in DOMAIN s2[w.in] => Settled(p, s2, id),
         WritesOf(p.does, Item(ls, p, db, id)) = <<w>>
  PROVE  Visited(v, k, p, id)
<1>1. Completes(v, ls, k, db, w, id)
  BY EarlyCompletes DEF EarlyReady
<1>2. Pending(v, ls, k, db, <<w>>, id) /\ <<w>> # <<>>
  BY <1>1, Pendings
<1> QED BY <1>2 DEF Visited, Handles

LEMMA EarlyVisited ==
  ASSUME NEW v, NEW k, NEW p, NEW id, EarlyReady(v, k, p, id)
  PROVE  Visited(v, k, p, id)
<1>0. EarlyReady(v, k, p, id)
  OBVIOUS
<1>1. CASE v = 0
  <2>1. p = On("init", "complianceProfiles")
    <3>1. v + 1 = 1
      BY <1>1
    <3>2. k \in 1..Len(PassesOf[1]) /\ p = PassesOf[1][k]
      BY <3>1 DEF EarlyReady
    <3> QED BY <3>2, EarlyPasses
  <2>2. p.does = "init" /\ p.over = "complianceProfiles"
    BY <2>1 DEF On
  <2> DEFINE w == Insert("complianceProfiles", "compliance-default", NoFields)
  <2>3. WritesOf(p.does, Item(ls, p, db, id)) = InitSchema
    BY <2>2 DEF WritesOf
  <2>4. \A s2 : "compliance-default" \in DOMAIN s2.complianceProfiles => Settled(p, s2, id)
    BY <2>2 DEF Settled, Columns
  <2>5. CASE "compliance-default" \in DOMAIN db.complianceProfiles
    BY <2>3, <2>4, <2>5 DEF InitSchema, Visited, Handles, Skip, EarlyReady
  <2>6. CASE "compliance-default" \notin DOMAIN db.complianceProfiles
    <3>1. WritesOf(p.does, Item(ls, p, db, id)) = <<w>>
      BY <2>3, <2>6 DEF InitSchema
    <3>2. w.in = "complianceProfiles" /\ w.id = "compliance-default" /\ w.op = "insert"
      BY DEF Insert
    <3> HIDE DEF w
    <3>3. EarlyWrite(v, ls, w)
      BY <1>1, <3>2 DEF EarlyWrite, Collections, FreshRow
    <3> QED BY <2>4, <3>1, <3>2, <3>3, WriteHandled
  <2> QED BY <2>5, <2>6
<1>2. CASE v = 1
  <2>1. v + 1 = 2 /\ (k = 1 \/ k = 2) /\ p = PassesOf[2][k]
    <3>1. v + 1 = 2
      BY <1>2
    <3>2. k \in 1..Len(PassesOf[2]) /\ p = PassesOf[2][k]
      BY <3>1 DEF EarlyReady
    <3> QED BY <3>1, <3>2, EarlyPasses
  <2>2. CASE k = 1
    <3>1. p.does = "demo"
      BY <2>1, <2>2, EarlyPasses DEF On
    <3>2. WritesOf(p.does, Item(ls, p, db, id)) = DemoRows
      BY <3>1 DEF WritesOf
    <3>3. Len(DemoRows) = 12
      BY DEF DemoRows
    <3>4. DemoLeft(db, DemoRows)
      <4>1. DemoIn(db, 0)
        BY DEF DemoIn
      <4>2. \A j \in 1..(12 - 0) : DemoRows[j] = DemoRows[0 + j]
        OBVIOUS
      <4> QED BY <3>3, <4>1, <4>2 DEF DemoLeft
    <3>5. DemoRows # <<>>
      BY <3>3
    <3> QED BY <1>2, <2>2, <3>2, <3>4, <3>5 DEF Visited, Handles, Pending
  <2>3. CASE k = 2
    <3>1. p = On("hgv-shifts", "shifts")
      BY <2>1, <2>3, EarlyPasses
    <3>2. p.does = "hgv-shifts" /\ p.over = "shifts"
      BY <3>1 DEF On
    <3>3. id \in LegacyShifts /\ Item(ls, p, db, id).id = id
      BY <3>2 DEF EarlyReady, Targets, Item
    <3>4. WritesOf(p.does, Item(ls, p, db, id)) = LegacyShift(id)
      BY <3>2, <3>3 DEF WritesOf
    <3> DEFINE row == [assignmentId |-> "a-demo", date |-> 1, rateCardId |-> "rc-demo"]
               w == Insert("shifts", id, row)
    <3>5. LegacyShift(id) = <<w>>
      BY DEF LegacyShift
    <3> HIDE DEF row
    <3>6. w.in = "shifts" /\ w.id = id /\ w.op = "insert" /\ w = Insert(w.in, w.id, w.row)
      BY DEF Insert
    <3> HIDE DEF w
    <3>7. EarlyWrite(v, ls, w)
      BY <1>2, <3>3, <3>5, <3>6 DEF EarlyWrite, Collections, FreshRow
    <3>8. \A s2 : Settled(p, s2, id)
      BY <3>2 DEF Settled, Columns
    <3> QED BY <3>4, <3>5, <3>7, <3>8, WriteHandled
  <2> QED BY <2>1, <2>2, <2>3
<1>3. CASE v = 2
  <2>1. p.does = "copy" /\ p.over \in Collections
    <3>1. v + 1 = 3
      BY <1>3
    <3>2. k \in 1..Len(PassesOf[3]) /\ p = PassesOf[3][k]
      BY <3>1 DEF EarlyReady
    <3> QED BY <3>2, EarlyPasses
  <2> DEFINE c == p.over
             row == ls[c][id]
  <2>2. PICK i : i = Item(ls, p, db, id)
    OBVIOUS
  <2>3. i.in = c /\ i.id = id /\ i.row = row /\ id \in DOMAIN ls[c]
    BY <2>1, <2>2 DEF Item, EarlyReady, Targets
  <2>4. WritesOf(p.does, i) = CopyRow(i)
    BY <2>1 DEF WritesOf
  <2>5. PICK w : WritesOf(p.does, i) = <<w>> /\ (w = Update(c, id, row) \/ w = Insert(c, id, row))
    BY <2>3, <2>4 DEF CopyRow
  <2>6. w.in = c /\ w.id = id /\ w.row = row /\ w.op \in {"insert", "update"}
    BY <2>5 DEF Insert, Update
  <2>7. EarlyWrite(v, ls, w)
    BY <1>3, <2>1, <2>3, <2>6 DEF EarlyWrite
  <2>8. \A s2 : id \in DOMAIN s2[c] => Settled(p, s2, id)
    BY <2>1 DEF Settled, Columns
  <2> QED BY <2>2, <2>5, <2>6, <2>7, <2>8, WriteHandled
<1> QED BY <1>0, <1>1, <1>2, <1>3 DEF EarlyReady

\* Whatever a pass visits, its writes are all that it takes.
LEMMA AllVisited ==
  ASSUME NamesAreNotNull, NEW v \in 0..13, NEW k \in 1..Len(PassesOf[v + 1]), NEW p, p = PassesOf[v + 1][k],
         IsStore(ls), RowTypes(db), Good(v, ls, db), NEW id \in Targets(ls, p, db),
         \A j \in 1..(k - 1) : Done(ls, PassesOf[v + 1][j], db)
  PROVE  Visited(v, k, p, id)
<1>1. CASE v \in 0..2
  <2>1. EarlyReady(v, k, p, id)
    BY <1>1 DEF EarlyReady
  <2> QED BY <2>1, EarlyVisited
<1>2. CASE v \in 3..13
  <2>1. Ready(v, k, p, id)
    BY <1>2 DEF Ready
  <2>2. LateKind(v, k, p)
    BY <1>2, LateKinds
  <2>3. CASE p = On("version", "rateCards")
    BY <2>1, <2>3, VersionVisited
  <2>4. CASE p = On("line", "assignments")
    BY <2>1, <2>4, LineVisited
  <2>5. CASE p = On("pin", "shifts")
    BY <2>1, <2>5, PinVisited
  <2>6. CASE p = On("type", "organisations")
    BY <2>1, <2>6, TypeVisited
  <2>7. CASE p = On("insert", "rateCardLineages")
    BY <2>1, <2>7, LineageVisited
  <2>8. CASE p = On("employer", "engagements")
    BY <2>1, <2>8, EmployerVisited
  <2>9. CASE p = On("client", "sites")
    BY <2>1, <2>9, ClientVisited
  <2>10. CASE p = On("workspace", "driverProfiles")
    BY <2>1, <2>10, WorkspaceVisited
  <2>11. CASE p = On("provider", "engagements")
    BY <2>1, <2>11, ProviderVisited
  <2>12. CASE p = On("placement", "assignments")
    BY <2>1, <2>12, PlacementVisited
  <2>13. CASE p = On("template", "workspaces")
    BY <2>1, <2>13, TemplateVisited
  <2>14. CASE p = On("payType", "rateCardLineages")
    BY <2>1, <2>14, PayTypeVisited
  <2>15. CASE \/ p \in {On("archivedAt", "sites"), On("archivedAt", "memberships"), On("archivedAt", "people")}
              \/ p \in {On("lastUsedAssignmentId", "driverProfiles"), On("preferredAssignmentId", "driverProfiles")}
              \/ p \in {On("motExpiryDate", "vehicles")}
    BY <2>1, <2>15, FieldVisited
  <2> QED BY <2>2, <2>3, <2>4, <2>5, <2>6, <2>7, <2>8, <2>9, <2>10, <2>11, <2>12, <2>13, <2>14, <2>15
          DEF LateKind
<1> QED BY <1>1, <1>2

\* Id x is settled, or will still be visited.
Rest(local, p, s, todo, x) == Settled(p, s, x) \/ Item(local, p, s, x) \in todo

\* Every id of pass p is settled, still to be visited, or the one whose writes q are left.
InPass(v, local, k, p, s, todo, q) ==
  /\ \A i \in todo : i.id \in Targets(local, p, s) /\ i = Item(local, p, s, i.id)
  /\ \/ q = <<>> /\ \A x \in Targets(local, p, s) : Rest(local, p, s, todo, x)
     \/ /\ q # <<>>
        /\ \E id \in Targets(local, p, s) :
             /\ Pending(v, local, k, s, q, id) /\ Item(local, p, s, id) \notin todo
             /\ \A x \in Targets(local, p, s) \ {id} : Rest(local, p, s, todo, x)

LEMMA ItemsAre ==
  ASSUME NEW p
  PROVE  Items(p) = {Item(ls, p, db, id) : id \in Targets(ls, p, db)}
<1>1. CASE p.does \in {"init", "demo"}
  BY <1>1 DEF Items, Item, Targets
<1>2. CASE p.does = "hgv-shifts"
  BY <1>2 DEF Items, Item, Targets
<1>3. CASE p.does = "copy"
  BY <1>3 DEF Items, Item, Targets
<1>4. CASE p.does = "insert"
  BY <1>4 DEF Items, Item, Targets
<1>5. CASE p.does \notin {"init", "demo", "hgv-shifts", "copy", "insert"}
  BY <1>5 DEF Items, Item, Targets, RowsOf
<1> QED BY <1>1, <1>2, <1>3, <1>4, <1>5

LEMMA ItemId ==
  ASSUME NEW local, NEW p, NEW s, NEW id
  PROVE  Item(local, p, s, id).id = id
  BY DEF Item

LEMMA PassBegins ==
  ASSUME NEW v, NEW k, NEW p
  PROVE  InPass(v, ls, k, p, db, Items(p), <<>>)
<1>1. \A i \in Items(p) : i.id \in Targets(ls, p, db) /\ i = Item(ls, p, db, i.id)
  BY ItemsAre, ItemId
<1>2. \A x \in Targets(ls, p, db) : Rest(ls, p, db, Items(p), x)
  BY ItemsAre DEF Rest
<1> QED BY <1>1, <1>2 DEF InPass

LEMMA PassEnds ==
  ASSUME NEW v, NEW local, NEW k, NEW p, NEW s, InPass(v, local, k, p, s, {}, <<>>)
  PROVE  Done(local, p, s)
  BY DEF InPass, Rest, Done

LEMMA VisitKeeps ==
  ASSUME NEW v, NEW k, NEW p, p = PassesOf[v + 1][k], NEW todo, InPass(v, ls, k, p, db, todo, <<>>),
         NEW i \in todo, Visited(v, k, p, i.id)
  PROVE  InPass(v, ls, k, p, db, todo \ {i}, WritesOf(p.does, i))
<1>1. /\ \A j \in todo : j.id \in Targets(ls, p, db) /\ j = Item(ls, p, db, j.id)
      /\ \A x \in Targets(ls, p, db) : Rest(ls, p, db, todo, x)
  BY DEF InPass
<1>2. PICK q : q = WritesOf(p.does, i)
  OBVIOUS
<1>3. (q = <<>> => Settled(p, db, i.id)) /\ (q # <<>> => Pending(v, ls, k, db, q, i.id))
  BY <1>1, <1>2 DEF Visited, Handles
<1>4. \A x \in Targets(ls, p, db) \ {i.id} : Rest(ls, p, db, todo \ {i}, x)
  BY <1>1, ItemId DEF Rest
<1>5. Item(ls, p, db, i.id) \notin todo \ {i}
  BY <1>1
<1>6. CASE q = <<>>
  <2>1. \A x \in Targets(ls, p, db) : Rest(ls, p, db, todo \ {i}, x)
    BY <1>3, <1>4, <1>6 DEF Rest
  <2> QED BY <1>1, <1>2, <1>6, <2>1 DEF InPass
<1>7. CASE q # <<>>
  BY <1>1, <1>2, <1>3, <1>4, <1>5, <1>7 DEF InPass
<1> QED BY <1>6, <1>7

LEMMA WriteKeeps ==
  ASSUME NEW v, NEW local, IsStore(local), NEW k, NEW p, p = PassesOf[v + 1][k], k \in Nat \ {0},
         NEW s, NEW s2, Good(v, local, s), RowTypes(s2),
         NEW todo, NEW q, IsSeq(q), q # <<>>, InPass(v, local, k, p, s, todo, q), Written(s, Head(q), s2)
  PROVE  /\ Good(v, local, s2) /\ InPass(v, local, k, p, s2, todo, Tail(q))
         /\ \A j \in 1..(k - 1) : Done(local, PassesOf[v + 1][j], s) => Done(local, PassesOf[v + 1][j], s2)
<1>1. \A i \in todo : i.id \in Targets(local, p, s) /\ i = Item(local, p, s, i.id)
  BY DEF InPass
<1>2. PICK id \in Targets(local, p, s) :
        /\ Pending(v, local, k, s, q, id) /\ Item(local, p, s, id) \notin todo
        /\ \A x \in Targets(local, p, s) \ {id} : Rest(local, p, s, todo, x)
  BY DEF InPass
<1>3. PICK r : r = Tail(q)
  OBVIOUS
<1>4. /\ Advances(v, local, k, s, s2, id)
      /\ r = <<>> => Settled(p, s2, id)
      /\ r # <<>> => Pending(v, local, k, s2, r, id)
  BY <1>2, <1>3, WriteLeads
<1>5. Good(v, local, s2) /\ \A j \in 1..k : KeepsSettled(local, PassesOf[v + 1][j], s, s2)
  BY <1>4 DEF Advances
<1>6. \A x \in Targets(local, p, s) \ {id} : Item(local, p, s2, x) = Item(local, p, s, x)
  BY <1>4 DEF Advances
<1>7. k \in 1..k /\ \A j \in 1..(k - 1) : j \in 1..k
  OBVIOUS
<1>8. /\ Targets(local, p, s2) = Targets(local, p, s)
      /\ \A x \in Targets(local, p, s) : Settled(p, s, x) => Settled(p, s2, x)
  BY <1>5, <1>7 DEF KeepsSettled
<1>9. \A i \in todo : i.id \in Targets(local, p, s2) /\ i = Item(local, p, s2, i.id)
  <2> SUFFICES ASSUME NEW i \in todo PROVE i.id \in Targets(local, p, s) /\ i = Item(local, p, s2, i.id)
    BY <1>8
  <2>1. i.id \in Targets(local, p, s) /\ i = Item(local, p, s, i.id)
    BY <1>1
  <2>2. i.id # id
    BY <1>2, <2>1
  <2> QED BY <1>6, <2>1, <2>2
<1>10. \A x \in Targets(local, p, s2) \ {id} : Rest(local, p, s2, todo, x)
  BY <1>2, <1>6, <1>8 DEF Rest
<1>11. Item(local, p, s2, id) \notin todo
  <2>1. \A i \in todo : i.id # id
    BY <1>1, <1>2
  <2> QED BY <2>1, ItemId
<1>12. InPass(v, local, k, p, s2, todo, r)
  <2>1. CASE r = <<>>
    <3>1. \A x \in Targets(local, p, s2) : Rest(local, p, s2, todo, x)
      BY <1>4, <1>10, <2>1 DEF Rest
    <3> QED BY <1>9, <2>1, <3>1 DEF InPass
  <2>2. CASE r # <<>>
    <3>1. id \in Targets(local, p, s2)
      BY <1>8
    <3> QED BY <1>4, <1>9, <1>10, <1>11, <2>2, <3>1 DEF InPass
  <2> QED BY <2>1, <2>2
<1>13. ASSUME NEW j \in 1..(k - 1), Done(local, PassesOf[v + 1][j], s)
       PROVE  Done(local, PassesOf[v + 1][j], s2)
  <2>1. KeepsSettled(local, PassesOf[v + 1][j], s, s2)
    BY <1>5, <1>7
  <2> QED BY <1>13, <2>1 DEF Done, KeepsSettled
<1> QED BY <1>3, <1>5, <1>12, <1>13

-------------------------------------------------------------------------------
(***************************************************************************)
(* The invariant of one tab                                                *)
(***************************************************************************)

\* Tab x runs the migration after version v: earlier passes are done.
TabInv(x, v, local, s) ==
  /\ x.pc \in {"next", "run"} => x.current = v
  /\ x.pc = "run" =>
       /\ \A j \in 1..(x.pass - 1) : Done(local, PassesOf[v + 1][j], s)
       /\ x.pass # 0 => InPass(v, local, x.pass, PassesOf[v + 1][x.pass], s, x.todo, x.writes)

Inv ==
  /\ TypeInv /\ Good(version, ls, db)
  /\ \A t \in Tabs : TabInv(tab[t], version, ls, db)

LEMMA InvInitially ==
  ASSUME Init
  PROVE  Inv
<1>1. PICK i \in Installs : version = i.version /\ ls = i.ls /\ db = i.db
  BY DEF Init
<1>2. /\ version \in 0..LastVersion /\ IsStore(ls) /\ IsStore(db) /\ ShapeOf(version, ls, db)
      /\ version < 2 => \A c \in Collections \ {"complianceProfiles"} : ls[c] = NoFields
      /\ version < 3 => db = Empty
      /\ version = 2 => /\ \A c \in Collections \ Copied : ls[c] = NoFields
                        /\ Related(2, ls) /\ Undoubled(ls)
      /\ version > 2 => Related(version, db) /\ Undoubled(db)
  BY <1>1, InstallsAreSound
<1>3. Good(version, ls, db)
  <2>1. CASE version > 2
    <3>1. Named(db)
      BY <1>2 DEF Named, IsStore, Collections
    <3> QED BY <1>2, <2>1, <3>1 DEF Good, LastVersion
  <2>2. CASE version < 3
    <3>1. \A c \in Collections : DOMAIN db[c] = {}
      BY <1>2, <2>2 DEF Empty, NoFields
    <3>2. DOMAIN db.complianceProfiles = {}
      BY <3>1 DEF Collections
    <3>3. version >= 1 => Initialised(ls, db)
      BY <1>2 DEF ShapeOf
    <3>4. CASE version < 2
      <4>0. version # 2 /\ \A c \in Collections \ {"complianceProfiles"} : ls[c] = NoFields
        BY <1>2, <3>4
      <4>1. \A c \in Collections : \A id \in DOMAIN db[c] : FreshRow(c, id, db[c][id])
        BY <3>1
      <4>2. version >= 1 =>
              "compliance-default" \in DOMAIN db.complianceProfiles \cup DOMAIN ls.complianceProfiles
        BY <3>3 DEF Initialised
      <4>3. OnlyDemo(version, ls, db)
        BY <4>0, <4>1, <4>2 DEF OnlyDemo
      <4>4. version < 3 /\ ~(version >= 3)
        BY <1>2, <3>4 DEF LastVersion
      <4> QED BY <4>3, <4>4, EarlyIs DEF Good
    <3>5. CASE version = 2
      <4>1. OnlyCopies(version, ls, db)
        BY <1>2, <3>1, <3>2, <3>3, <3>5 DEF OnlyCopies, Initialised
      <4> QED BY <3>5, <4>1, EarlyIs DEF Good
    <3> QED BY <1>2, <2>2, <3>4, <3>5
  <2> QED BY <1>2, <2>1, <2>2 DEF LastVersion
<1>4. \A t \in Tabs : TabInv(tab[t], version, ls, db)
  BY DEF Init, Closed, TabInv
<1> QED BY <1>3, <1>4, TypesInitially DEF Inv

\* Only tab t takes steps, so its own invariant is all there is to keep.
LEMMA InvOfTab ==
  ASSUME OneTab, NEW t \in Tabs, TypeInv', Good(version', ls', db'), NEW x, x = tab'[t],
         TabInv(x, version', ls', db')
  PROVE  Inv'
<1>1. \A u \in Tabs : u = t
  BY DEF OneTab
<1> QED BY <1>1 DEF Inv

LEMMA InvStep ==
  ASSUME OneTab, NamesAreNotNull, Inv, [Next]_vars
  PROVE  Inv'
<1>0. /\ TypeInv /\ TypeInv' /\ IsStore(ls) /\ RowTypes(db) /\ Good(version, ls, db)
      /\ \A t \in Tabs : IsTab(tab[t]) /\ TabType(ls, tab[t]) /\ TabInv(tab[t], version, ls, db)
  BY TypeStep DEF Inv, TypeInv, TabType
<1>1. CASE UNCHANGED vars
  <2>1. version' = version /\ ls' = ls /\ db' = db /\ tab' = tab
    BY <1>1 DEF vars
  <2> QED BY <1>0, <2>1 DEF Inv
<1>2. ASSUME NEW t \in Tabs, Boot(t) PROVE Inv'
  <2>1. version' = version /\ ls' = ls /\ db' = db
    BY <1>2 DEF Boot
  <2>2. PICK y : y = tab'[t]
    OBVIOUS
  <2>3. y.pc = "next" /\ y.current = version
    BY <1>0, <1>2, <2>2 DEF Boot, Closed, TypeInv
  <2>4. TabInv(y, version, ls, db)
    BY <2>3 DEF TabInv
  <2> QED BY <1>0, <2>1, <2>2, <2>4, InvOfTab
<1>3. ASSUME NEW t \in Tabs, NextMigration(t) PROVE Inv'
  <2>1. version' = version /\ ls' = ls /\ db' = db /\ tab[t].pc = "next"
    BY <1>3 DEF NextMigration
  <2>2. PICK x, y : x = tab[t] /\ y = tab'[t]
    OBVIOUS
  <2>3. y = [x EXCEPT !.pc = "run", !.pass = 0]
    BY <1>0, <1>3, <2>2 DEF NextMigration, TypeInv
  <2>4. IsTab(x) /\ TabInv(x, version, ls, db) /\ x.pc = "next"
    BY <1>0, <2>1, <2>2
  <2>5. y.pc = "run" /\ y.pass = 0 /\ y.current = version
    BY <2>3, <2>4 DEF IsTab, TabInv
  <2>6. TabInv(y, version, ls, db)
    BY <2>5 DEF TabInv
  <2> QED BY <1>0, <2>1, <2>2, <2>6, InvOfTab
<1>4. ASSUME NEW t \in Tabs, NextPass(t) PROVE Inv'
  <2>1. version' = version /\ ls' = ls /\ db' = db /\ tab[t].pc = "run" /\ tab[t].todo = {} /\ tab[t].writes = <<>>
    BY <1>4 DEF NextPass, Between
  <2>2. PICK x, y : x = tab[t] /\ y = tab'[t]
    OBVIOUS
  <2>3. /\ IsTab(x) /\ x.pc = "run" /\ x.todo = {} /\ x.writes = <<>> /\ x.current = version
        /\ x.pass \in 0..Len(PassesOf[version + 1]) /\ version + 1 \in 1..LastVersion
        /\ TabInv(x, version, ls, db)
    <3>1. /\ TabType(ls, x) /\ TabInv(x, version, ls, db) /\ x.pc = "run" /\ x.todo = {} /\ x.writes = <<>>
      BY <1>0, <2>1, <2>2
    <3>2. TabType(ls, x) /\ x.current = version
      BY <3>1 DEF TabInv
    <3> QED BY <3>1, <3>2 DEF TabType, LastVersion
  <2>4. Len(PassesOf[version + 1]) \in Nat
    BY <2>3, PassesAre
  <2> DEFINE k == x.pass + 1
             p == PassesOf[version + 1][k]
  <2>5. y = [x EXCEPT !.pass = k, !.todo = Items(p)]
    <3> HIDE DEF k
    <3>1. tab' = [tab EXCEPT ![t] = [@ EXCEPT !.pass = k, !.todo = Items(PassesOf[version + 1][k])]]
      BY <1>4, <2>2, <2>3 DEF NextPass, Passes, k
    <3> QED BY <1>0, <2>2, <3>1 DEF TypeInv
  <2> HIDE DEF p
  <2>6. /\ y.pc = "run" /\ y.current = version /\ y.pass = k /\ y.todo = Items(p) /\ y.writes = <<>>
    BY <2>3, <2>5 DEF IsTab
  <2>7. ASSUME NEW j \in 1..(k - 1) PROVE Done(ls, PassesOf[version + 1][j], db)
    <3>0. x.pass \in Nat
      BY <2>3, <2>4
    <3>1. CASE j = x.pass
      <4>1. InPass(version, ls, x.pass, PassesOf[version + 1][x.pass], db, {}, <<>>)
        BY <2>3, <3>0, <3>1 DEF TabInv
      <4> QED BY <3>1, <4>1, PassEnds
    <3>2. CASE j # x.pass
      <4>1. j \in 1..(x.pass - 1)
        BY <3>0, <3>2
      <4> QED BY <2>3, <4>1 DEF TabInv
    <3> QED BY <3>1, <3>2
  <2>8. InPass(version, ls, k, p, db, Items(p), <<>>)
    BY PassBegins
  <2>9. TabInv(y, version, ls, db)
    <3> HIDE DEF k
    <3> QED BY <2>6, <2>7, <2>8 DEF TabInv, p
  <2> QED BY <1>0, <2>1, <2>2, <2>9, InvOfTab
<1>5. ASSUME NEW t \in Tabs, Visit(t) PROVE Inv'
  <2>1. version' = version /\ ls' = ls /\ db' = db /\ tab[t].pc = "run" /\ tab[t].writes = <<>>
    BY <1>5 DEF Visit
  <2>2. PICK x, y : x = tab[t] /\ y = tab'[t]
    OBVIOUS
  <2>3. /\ IsTab(x) /\ x.pc = "run" /\ x.writes = <<>> /\ x.current = version
        /\ x.pass \in 0..Len(PassesOf[version + 1]) /\ version \in 0..13 /\ version + 1 \in 1..LastVersion
        /\ x.todo # {} => x.pass # 0
        /\ TabInv(x, version, ls, db)
    <3>1. TabType(ls, x) /\ TabInv(x, version, ls, db) /\ x.pc = "run" /\ x.writes = <<>>
      BY <1>0, <2>1, <2>2
    <3>2. TabType(ls, x) /\ x.current = version /\ x.pc = "run"
      BY <3>1 DEF TabInv, TabType
    <3> QED BY <3>1, <3>2 DEF TabType, LastVersion
  <2> DEFINE k == x.pass
             p == PassesOf[version + 1][k]
  <2>4. PICK i \in x.todo :
          tab' = [tab EXCEPT ![t] = [@ EXCEPT !.todo = x.todo \ {i}, !.writes = WritesOf(p.does, i)]]
    BY <1>5, <2>2, <2>3 DEF Visit, Passes
  <2> HIDE DEF p
  <2>5. PICK q : q = WritesOf(p.does, i)
    OBVIOUS
  <2>6. y = [x EXCEPT !.todo = x.todo \ {i}, !.writes = q]
    BY <1>0, <2>2, <2>4, <2>5 DEF TypeInv
  <2>7. y.pc = "run" /\ y.current = version /\ y.pass = k /\ y.todo = x.todo \ {i} /\ y.writes = q
    BY <2>3, <2>6 DEF IsTab
  <2>8. k \in 1..Len(PassesOf[version + 1]) /\ k # 0
    <3>1. Len(PassesOf[version + 1]) \in Nat
      BY <2>3, PassesAre
    <3> QED BY <2>3, <2>4, <3>1
  <2>9. /\ InPass(version, ls, k, p, db, x.todo, <<>>)
        /\ \A j \in 1..(k - 1) : Done(ls, PassesOf[version + 1][j], db)
    BY <2>3, <2>8 DEF TabInv, p
  <2>10. i.id \in Targets(ls, p, db)
    BY <2>4, <2>9 DEF InPass
  <2>11. Visited(version, k, p, i.id)
    BY <1>0, <2>3, <2>8, <2>9, <2>10, AllVisited DEF p
  <2>12. InPass(version, ls, k, p, db, x.todo \ {i}, q)
    BY <2>4, <2>5, <2>9, <2>11, VisitKeeps DEF p
  <2>13. TabInv(y, version, ls, db)
    <3> HIDE DEF k
    <3> QED BY <2>7, <2>9, <2>12 DEF TabInv, p
  <2> QED BY <1>0, <2>1, <2>2, <2>13, InvOfTab
<1>6. ASSUME NEW t \in Tabs, Write(t) PROVE Inv'
  <2>1. version' = version /\ ls' = ls /\ tab[t].writes # <<>>
    BY <1>6 DEF Write
  <2>2. PICK x, y : x = tab[t] /\ y = tab'[t]
    OBVIOUS
  <2>3. /\ IsTab(x) /\ x.pc = "run" /\ x.writes # <<>> /\ x.current = version /\ x.pass # 0
        /\ x.pass \in 0..Len(PassesOf[version + 1]) /\ version + 1 \in 1..LastVersion
        /\ TabInv(x, version, ls, db) /\ Typed(x.writes)
    <3>1. TabType(ls, x) /\ TabInv(x, version, ls, db) /\ x.writes # <<>>
      BY <1>0, <2>1, <2>2
    <3>2. TabType(ls, x) /\ x.current = version /\ x.pc = "run"
      BY <3>1 DEF TabInv, TabType
    <3> QED BY <3>1, <3>2 DEF TabType, LastVersion
  <2> DEFINE k == x.pass
             p == PassesOf[version + 1][k]
             q == x.writes
             w == Head(q)
  <2>4. WriteType(w)
    BY <2>3, SequenceIs DEF Typed
  <2>5. CASE (w.op = "insert") = (w.id \in DOMAIN db[w.in])
    <3>1. y.pc = "failed" /\ UNCHANGED db
      BY <1>0, <1>6, <2>2, <2>5 DEF Write, Closed, TypeInv
    <3>2. TabInv(y, version, ls, db)
      BY <3>1 DEF TabInv
    <3> QED BY <1>0, <2>1, <2>2, <3>1, <3>2, InvOfTab
  <2>6. CASE (w.op = "insert") # (w.id \in DOMAIN db[w.in])
    <3>1. RowTypes(db') /\ Written(db, w, db')
      BY <1>0, <1>6, <2>2, <2>4, <2>6, WrittenRows DEF Write
    <3>2. y = [x EXCEPT !.writes = Tail(q)]
      BY <1>0, <1>6, <2>2, <2>6 DEF Write, TypeInv
    <3>3. PICK r : r = Tail(q)
      OBVIOUS
    <3>4. y.pc = "run" /\ y.current = version /\ y.pass = k /\ y.todo = x.todo /\ y.writes = r
      BY <2>3, <3>2, <3>3 DEF IsTab
    <3>5. /\ InPass(version, ls, k, p, db, x.todo, q)
          /\ \A j \in 1..(k - 1) : Done(ls, PassesOf[version + 1][j], db)
      BY <2>3 DEF TabInv
    <3>6. k \in Nat \ {0} /\ IsSeq(q)
      <4>1. Len(PassesOf[version + 1]) \in Nat
        BY <2>3, PassesAre
      <4> QED BY <2>3, <4>1 DEF Typed
    <3> HIDE DEF p, q, k
    <3>7. PICK s2 : s2 = db'
      OBVIOUS
    <3>8. p = PassesOf[version + 1][k] /\ q # <<>>
      BY <2>3 DEF p, q
    <3>9. /\ Good(version, ls, s2) /\ InPass(version, ls, k, p, s2, x.todo, r)
          /\ \A j \in 1..(k - 1) : Done(ls, PassesOf[version + 1][j], db) => Done(ls, PassesOf[version + 1][j], s2)
      BY <1>0, <3>1, <3>3, <3>5, <3>6, <3>7, <3>8, WriteKeeps
    <3>10. TabInv(y, version, ls, s2)
      BY <3>4, <3>5, <3>8, <3>9 DEF TabInv
    <3> QED BY <1>0, <2>1, <2>2, <3>7, <3>9, <3>10, InvOfTab
  <2> QED BY <2>5, <2>6
<1>7. ASSUME NEW t \in Tabs, FinishMigration(t) PROVE Inv'
  <2>1. /\ ls' = ls /\ db' = db /\ tab[t].pc = "run" /\ tab[t].todo = {} /\ tab[t].writes = <<>>
        /\ tab[t].pass = Len(PassesOf[tab[t].current + 1]) /\ version' = tab[t].current + 1
    BY <1>7 DEF FinishMigration, Between, Passes
  <2>2. PICK x, y : x = tab[t] /\ y = tab'[t]
    OBVIOUS
  <2>3. /\ IsTab(x) /\ x.pc = "run" /\ x.todo = {} /\ x.writes = <<>> /\ x.current = version
        /\ x.pass = Len(PassesOf[version + 1]) /\ version \in 0..13 /\ version + 1 \in 1..LastVersion
        /\ TabInv(x, version, ls, db) /\ version' = version + 1
    <3>1. /\ TabType(ls, x) /\ TabInv(x, version, ls, db) /\ x.pc = "run" /\ x.todo = {} /\ x.writes = <<>>
          /\ x.pass = Len(PassesOf[x.current + 1]) /\ version' = x.current + 1
      BY <1>0, <2>1, <2>2
    <3>2. TabType(ls, x) /\ x.current = version
      BY <3>1 DEF TabInv
    <3> QED BY <3>1, <3>2 DEF TabType, LastVersion
  <2>4. Len(PassesOf[version + 1]) \in Nat
    BY <2>3, PassesAre
  <2>5. y = [x EXCEPT !.pc = "next", !.current = version + 1]
    BY <1>0, <1>7, <2>2, <2>3 DEF FinishMigration, TypeInv
  <2>6. y.pc = "next" /\ y.current = version + 1
    BY <2>3, <2>5 DEF IsTab
  <2>7. ASSUME NEW j \in 1..Len(PassesOf[version + 1]) PROVE Done(ls, PassesOf[version + 1][j], db)
    <3>1. CASE j = x.pass
      <4>1. InPass(version, ls, x.pass, PassesOf[version + 1][x.pass], db, {}, <<>>)
        BY <2>3, <2>4, <3>1 DEF TabInv
      <4> QED BY <3>1, <4>1, PassEnds
    <3>2. CASE j # x.pass
      <4>1. j \in 1..(x.pass - 1)
        BY <2>3, <2>4, <3>2
      <4> QED BY <2>3, <4>1 DEF TabInv
    <3> QED BY <3>1, <3>2
  <2>8. Good(version + 1, ls, db)
    <3>1. CASE version \in 0..2
      BY <1>0, <2>7, <3>1, EarlyFinish
    <3>2. CASE version \in 3..13
      BY <1>0, <2>7, <3>2, LateFinish
    <3> QED BY <2>3, <3>1, <3>2
  <2>9. TabInv(y, version + 1, ls, db)
    BY <2>6 DEF TabInv
  <2> QED BY <1>0, <2>1, <2>2, <2>3, <2>8, <2>9, InvOfTab
<1>8. ASSUME NEW t \in Tabs, BootDone(t) PROVE Inv'
  <2>1. version' = version /\ ls' = ls /\ db' = db
    BY <1>8 DEF BootDone
  <2>2. PICK x, y : x = tab[t] /\ y = tab'[t]
    OBVIOUS
  <2>3. y = [x EXCEPT !.pc = "up"] /\ IsTab(x)
    BY <1>0, <1>8, <2>2 DEF BootDone, TypeInv
  <2>4. y.pc = "up"
    BY <2>3 DEF IsTab
  <2>5. TabInv(y, version, ls, db)
    BY <2>4 DEF TabInv
  <2> QED BY <1>0, <2>1, <2>2, <2>5, InvOfTab
<1>9. ASSUME NEW t \in Tabs, Close(t) PROVE Inv'
  <2>1. version' = version /\ ls' = ls /\ db' = db
    BY <1>9 DEF Close
  <2>2. PICK y : y = tab'[t]
    OBVIOUS
  <2>3. y.pc = "closed"
    BY <1>0, <1>9, <2>2 DEF Close, Closed, TypeInv
  <2>4. TabInv(y, version, ls, db)
    BY <2>3 DEF TabInv
  <2> QED BY <1>0, <2>1, <2>2, <2>4, InvOfTab
<1> QED BY <1>1, <1>2, <1>3, <1>4, <1>5, <1>6, <1>7, <1>8, <1>9 DEF Next, Step

LEMMA InvTells ==
  ASSUME Inv
  PROVE  VersionTellsShape /\ NothingDoubled
<1>1. version \in 0..LastVersion /\ Good(version, ls, db)
  BY DEF Inv, TypeInv
<1>2. CASE version \in 0..2
  BY <1>1, <1>2, EarlyShape DEF Good, VersionTellsShape, NothingDoubled
<1>3. CASE version \in 3..14
  BY <1>1, <1>3 DEF Good, VersionTellsShape, NothingDoubled
<1> QED BY <1>1, <1>2, <1>3 DEF LastVersion

\* The version never promises a shape that some row does not have, wherever the boots of
\* the one tab were cut short.
THEOREM ShapeTold ==
  ASSUME OneTab, NamesAreNotNull
  PROVE  Spec => []VersionTellsShape
<1>1. Init => Inv
  BY InvInitially
<1>2. Inv /\ [Next]_vars => Inv'
  BY InvStep
<1>3. Inv => VersionTellsShape
  BY InvTells
<1> QED BY <1>1, <1>2, <1>3, PTL DEF Spec

\* However often a migration is started again, it creates no client organisation, default
\* template or placement twice.
THEOREM NeverDoubled ==
  ASSUME OneTab, NamesAreNotNull
  PROVE  Spec => []NothingDoubled
<1>1. Init => Inv
  BY InvInitially
<1>2. Inv /\ [Next]_vars => Inv'
  BY InvStep
<1>3. Inv => NothingDoubled
  BY InvTells
<1> QED BY <1>1, <1>2, <1>3, PTL DEF Spec

-------------------------------------------------------------------------------
(***************************************************************************)
(* The chains from a shift to its card                                     *)
(***************************************************************************)

\* The ids of organisations, sites and rate cards that the rows of some release name
CONSTANT Ids

\* Two placements of different configurations never get one derived id.
IdsApart ==
  \A p, x, l, q, y, m \in Ids :
    derivePlacementId(p, x, l) = derivePlacementId(q, y, m) => p = q /\ x = y /\ l = m

\* All that a placement may be made of is among them.
Known(s) ==
  /\ \A r \in DOMAIN s.rateCards : r \in Ids /\ Get(s.rateCards[r], "lineageId") \in Ids \cup {Null}
  /\ \A e \in DOMAIN s.engagements :
       \A f \in {"organisationId", "employerOrganisationId", "providerOrganisationId"} :
         Get(s.engagements[e], f) \in Ids \cup {Null}
  /\ \A a \in DOMAIN s.assignments : \A f \in {"siteId", "rateCardLineageId"} :
       Get(s.assignments[a], f) \in Ids \cup {Null}
  /\ \A p \in DOMAIN s.placements :
       /\ s.placements[p].providerOrganisationId \in Ids /\ s.placements[p].siteId \in Ids
       /\ s.placements[p].rateCardLineageId \in Ids

IdsKnown ==
  /\ {"o-demo", "s-demo", "rc-demo"} \subseteq Ids
  /\ \A i \in Installs : Known(IF i.version < 3 THEN i.ls ELSE i.db)

\* A demo row is there only with those before it, and a legacy shift with all of them.
InOrder(s) ==
  /\ \A n \in 1..12 : DemoRows[n].id \in DOMAIN s[DemoRows[n].in] => DemoIn(s, n)
  /\ DOMAIN s.shifts # {} => DemoIn(s, 12)

\* No release has left rows in localStorage.
NothingToCopy(local) == \A c \in Collections \ {"complianceProfiles"} : local[c] = NoFields

\* Until 003 is done the chains are those of the rows to be copied, or of the demo rows.
Linked(v, local, s) ==
  /\ v < 3 => /\ Chained(2, local) /\ Known(local)
              /\ NothingToCopy(local) => InOrder(s)
  /\ v >= 3 => Chained(v, s) /\ Known(s)

ChainCols == {"rateCards", "assignments", "shifts", "engagements", "placements"}

LEMMA SameChains ==
  ASSUME NEW v, NEW s, NEW s2, \A c \in ChainCols : s2[c] = s[c]
  PROVE  (Chained(v, s) => Chained(v, s2)) /\ (Known(s) => Known(s2))
<1>1. /\ s2.rateCards = s.rateCards /\ s2.assignments = s.assignments /\ s2.shifts = s.shifts
      /\ s2.engagements = s.engagements /\ s2.placements = s.placements
  BY DEF ChainCols
<1>2. Known(s) => Known(s2)
  BY <1>1 DEF Known
<1>3. /\ \A h, line : Pins(s2, h, line) = Pins(s, h, line)
      /\ \A a : LineReached(s2, a) = LineReached(s, a)
      /\ Pinned(s2) = Pinned(s)
  BY <1>1 DEF Pins, VersionsBy, EffectiveCards, LineReached, Pinned
<1>4. PinsResolve(s) => PinsResolve(s2)
  BY <1>1, <1>3 DEF PinsResolve
<1>5. AssignmentsPlaced(v, s) => AssignmentsPlaced(v, s2)
  BY <1>1 DEF AssignmentsPlaced
<1>6. CardsVersioned(s) => CardsVersioned(s2)
  BY <1>1 DEF CardsVersioned
<1> QED BY <1>2, <1>3, <1>4, <1>5, <1>6 DEF Chained

\* Only 004 asks for more than the later migrations do.
LEMMA ChainedLater ==
  ASSUME NEW v \in 0..13, NEW s, Chained(v, s)
  PROVE  Chained(v + 1, s)
<1>1. v + 1 < 4 => v < 4
  OBVIOUS
<1> QED BY <1>1 DEF Chained, AssignmentsPlaced

\* A write outside those collections
LEMMA WrittenElsewhere ==
  ASSUME NEW v \in 3..13, NEW local, NEW s, NEW s2, Linked(v, local, s), NEW w, Written(s, w, s2),
         w.in \notin ChainCols
  PROVE  Linked(v, local, s2)
<1>1. \A c \in ChainCols : s2[c] = s[c]
  BY DEF Written, ChainCols, Collections
<1> QED BY <1>1, SameChains DEF Linked

\* What is written into s is the last of it, or keeps what the next write needs.
Safe(v, local, s, w) ==
  \A s2 : RowTypes(s2) /\ Written(s, w, s2) => Linked(v, local, s2)

SafeThen(v, local, s, w, x) ==
  \A s2 : RowTypes(s2) /\ Written(s, w, s2) => Linked(v, local, s2) /\ Safe(v, local, s2, x)

Linking(v, local, k, s, q) ==
  \/ q = <<>>
  \/ Len(q) = 1 /\ Safe(v, local, s, q[1])
  \/ Len(q) = 2 /\ SafeThen(v, local, s, q[1], q[2])
  \/ v = 1 /\ k = 1 /\ DemoLeft(s, q)

LEMMA Linkings ==
  ASSUME NEW v, NEW local, NEW k, NEW s
  PROVE  /\ Linking(v, local, k, s, Skip)
         /\ \A w : Safe(v, local, s, w) => Linking(v, local, k, s, <<w>>)
         /\ \A w, x : SafeThen(v, local, s, w, x) => Linking(v, local, k, s, <<w, x>>)
<1>1. \A w, x : Len(<<w>>) = 1 /\ <<w>>[1] = w /\ Len(<<w, x>>) = 2 /\ <<w, x>>[1] = w /\ <<w, x>>[2] = x
  OBVIOUS
<1>2. Linking(v, local, k, s, Skip)
  BY DEF Linking, Skip
<1>3. ASSUME NEW w, Safe(v, local, s, w) PROVE Linking(v, local, k, s, <<w>>)
  BY <1>1, <1>3 DEF Linking
<1>4. ASSUME NEW w, NEW x, SafeThen(v, local, s, w, x) PROVE Linking(v, local, k, s, <<w, x>>)
  BY <1>1, <1>4 DEF Linking
<1> QED BY <1>2, <1>3, <1>4

LEMMA DemoRowsDiffer ==
  /\ \A n \in 1..12 : /\ DemoRows[n].in \in Collections \ {"shifts", "complianceProfiles"}
                      /\ DemoRows[n].op = "insert"
  /\ \A n, m \in 1..12 : DemoRows[n].in = DemoRows[m].in /\ DemoRows[n].id = DemoRows[m].id => n = m
<1>1. /\ DemoRows[1].in = "people" /\ DemoRows[2].in = "workspaces" /\ DemoRows[3].in = "memberships"
      /\ DemoRows[4].in = "driverProfiles" /\ DemoRows[5].in = "workspaces"
      /\ DemoRows[6].in = "organisations" /\ DemoRows[7].in = "memberships"
      /\ DemoRows[8].in = "sites" /\ DemoRows[9].in = "rateCards" /\ DemoRows[10].in = "engagements"
      /\ DemoRows[11].in = "placements" /\ DemoRows[12].in = "assignments"
  BY DEF DemoRows, Insert
<1>2. /\ DemoRows[2].id = "ws-demo" /\ DemoRows[5].id = "ws-agency"
      /\ DemoRows[3].id = "m-demo" /\ DemoRows[7].id = "m-agency"
  BY DEF DemoRows, Insert
<1>3. \A n \in 1..12 : DemoRows[n].op = "insert"
  BY DEF DemoRows, Insert
<1>4. \A n \in 1..12 : n = 1 \/ n = 2 \/ n = 3 \/ n = 4 \/ n = 5 \/ n = 6 \/ n = 7 \/ n = 8 \/ n = 9
                       \/ n = 10 \/ n = 11 \/ n = 12
  OBVIOUS
<1>5. \A n \in 1..12 : DemoRows[n].in \in Collections \ {"shifts", "complianceProfiles"}
  BY <1>1, <1>4 DEF Collections
<1>6. \A n, m \in 1..12 : DemoRows[n].in = DemoRows[m].in /\ DemoRows[n].id = DemoRows[m].id => n = m
  BY <1>1, <1>2, <1>4
<1> QED BY <1>3, <1>5, <1>6

LEMMA DemoStays ==
  ASSUME NEW s, NEW s2, NEW w, Written(s, w, s2), NEW n \in 0..12, DemoIn(s, n)
  PROVE  DemoIn(s2, n)
<1> SUFFICES ASSUME NEW k \in 1..n PROVE DemoRows[k].id \in DOMAIN s2[DemoRows[k].in]
  BY DEF DemoIn
<1>1. DemoRows[k].id \in DOMAIN s[DemoRows[k].in] /\ DemoRows[k].in \in Collections
  BY DemoRowsDiffer DEF DemoIn
<1>2. \A c \in Collections : DOMAIN s[c] \subseteq DOMAIN s2[c]
  BY DEF Written
<1> QED BY <1>1, <1>2

\* What 001, 002 and the copy of nothing write keeps the order.
LEMMA OrderStays ==
  ASSUME NEW s, NEW s2, NEW w, Written(s, w, s2), InOrder(s),
         \/ w.in = "complianceProfiles"
         \/ w.in = "shifts" /\ DemoIn(s, 12)
         \/ \E n \in 0..11 : w = DemoRows[n + 1] /\ DemoIn(s, n)
  PROVE  InOrder(s2)
<1>1. /\ \A c \in Collections \ {w.in} : s2[c] = s[c]
      /\ DOMAIN s2[w.in] = DOMAIN s[w.in] \cup {w.id}
  BY DEF Written
<1>2. \A n \in 0..12 : DemoIn(s, n) => DemoIn(s2, n)
  BY DemoStays
<1>3. ASSUME NEW n \in 1..12, DemoRows[n].id \in DOMAIN s2[DemoRows[n].in] PROVE DemoIn(s2, n)
  <2>1. CASE DemoRows[n].id \in DOMAIN s[DemoRows[n].in]
    BY <1>2, <2>1 DEF InOrder
  <2>2. CASE DemoRows[n].id \notin DOMAIN s[DemoRows[n].in]
    <3>1. w.in = DemoRows[n].in /\ w.id = DemoRows[n].id
      BY <1>1, <1>3, <2>2, DemoRowsDiffer
    <3>2. PICK m \in 0..11 : w = DemoRows[m + 1] /\ DemoIn(s, m)
      BY <3>1, DemoRowsDiffer
    <3>3. m + 1 \in 1..12
      OBVIOUS
    <3>4. n = m + 1
      BY <3>1, <3>2, <3>3, DemoRowsDiffer
    <3>5. \A k \in 1..n : k \in 1..m \/ k = n
      BY <3>4
    <3>6. DemoIn(s2, m)
      BY <1>2, <3>2
    <3> QED BY <1>3, <3>5, <3>6 DEF DemoIn
  <2> QED BY <2>1, <2>2
<1>4. DOMAIN s2.shifts # {} => DemoIn(s2, 12)
  <2>1. CASE w.in = "shifts"
    <3>1. DemoIn(s, 12)
      <4>1. \A n \in 0..11 : n + 1 \in 1..12
        OBVIOUS
      <4> QED BY <2>1, <4>1, DemoRowsDiffer
    <3> QED BY <1>2, <3>1
  <2>2. CASE w.in # "shifts"
    <3>1. s2.shifts = s.shifts
      BY <1>1, <2>2 DEF Collections
    <3> QED BY <1>2, <3>1 DEF InOrder
  <2> QED BY <2>1, <2>2
<1> QED BY <1>3, <1>4 DEF InOrder

LEMMA LinkingWritten ==
  ASSUME NEW v \in 0..13, NEW local, NEW k, NEW s, NEW s2, Linked(v, local, s), RowTypes(s2),
         NEW q, IsSeq(q), q # <<>>, Linking(v, local, k, s, q), Written(s, Head(q), s2)
  PROVE  Linked(v, local, s2) /\ Linking(v, local, k, s2, Tail(q))
<1>1. /\ Len(q) \in Nat \ {0} /\ Head(q) = q[1] /\ IsSeq(Tail(q)) /\ Len(Tail(q)) = Len(q) - 1
      /\ \A j \in 1..(Len(q) - 1) : Tail(q)[j] = q[j + 1]
  BY SequenceIs
<1>2. PICK r : r = Tail(q)
  OBVIOUS
<1>3. Len(r) = 0 => r = <<>>
  BY <1>1, <1>2, SequenceIs
<1>4. CASE Len(q) = 1 /\ Safe(v, local, s, q[1])
  BY <1>1, <1>2, <1>3, <1>4 DEF Safe, Linking
<1>5. CASE Len(q) = 2 /\ SafeThen(v, local, s, q[1], q[2])
  <2>1. Len(r) = 1 /\ r[1] = q[2]
    <3>1. 1 \in 1..(Len(q) - 1) /\ Len(q) - 1 = 1 /\ 1 + 1 = 2
      BY <1>5
    <3>2. Tail(q)[1] = q[1 + 1]
      BY <1>1, <3>1
    <3> QED BY <1>1, <1>2, <3>1, <3>2
  <2>2. Linked(v, local, s2) /\ Safe(v, local, s2, r[1])
    BY <1>1, <1>5, <2>1 DEF SafeThen
  <2> QED BY <1>2, <2>1, <2>2 DEF Linking
<1>6. CASE v = 1 /\ k = 1 /\ DemoLeft(s, q)
  <2>1. PICK n \in 0..11 : /\ Len(q) = 12 - n /\ DemoIn(s, n)
                           /\ \A j \in 1..(12 - n) : q[j] = DemoRows[n + j]
    BY <1>6 DEF DemoLeft
  <2>2. Head(q) = DemoRows[n + 1]
    BY <1>1, <2>1
  <2>3. NothingToCopy(local) => InOrder(s2)
    BY <1>6, <2>1, <2>2, OrderStays DEF Linked
  <2>4. Linked(v, local, s2)
    BY <1>6, <2>3 DEF Linked
  <2>5. CASE n = 11
    BY <1>1, <1>2, <1>3, <2>1, <2>4, <2>5 DEF Linking
  <2>6. CASE n # 11
    <3>1. n + 1 \in 0..11 /\ Len(r) = 12 - (n + 1)
      BY <1>1, <1>2, <2>1, <2>6
    <3>2. ASSUME NEW j \in 1..(12 - (n + 1)) PROVE r[j] = DemoRows[(n + 1) + j]
      <4>1. j \in 1..(Len(q) - 1) /\ j + 1 \in 1..(12 - n) /\ n + (j + 1) = (n + 1) + j
        BY <1>1, <2>1
      <4>2. r[j] = q[j + 1] /\ q[j + 1] = DemoRows[n + (j + 1)]
        BY <1>1, <1>2, <2>1, <4>1
      <4> QED BY <4>1, <4>2
    <3>3. DemoIn(s2, n + 1)
      <4>1. DemoIn(s2, n)
        BY <2>1, DemoStays
      <4>2. n + 1 \in 1..12 /\ \A j \in 1..(n + 1) : j \in 1..n \/ j = n + 1
        OBVIOUS
      <4>3. DemoRows[n + 1].id \in DOMAIN s2[DemoRows[n + 1].in]
        <5>1. DemoRows[n + 1].in \in Collections
          BY <4>2, DemoRowsDiffer
        <5> QED BY <2>2, <5>1 DEF Written
      <4> QED BY <4>1, <4>2, <4>3 DEF DemoIn
    <3>4. DemoLeft(s2, r)
      BY <3>1, <3>2, <3>3 DEF DemoLeft
    <3> QED BY <1>2, <1>6, <2>4, <3>4 DEF Linking
  <2> QED BY <2>5, <2>6
<1> QED BY <1>4, <1>5, <1>6 DEF Linking

\* What a pass other than these six writes is in none of those collections.
LEMMA LinkedElsewhere ==
  ASSUME NEW v \in 3..13, NEW k, NEW p, LateKind(v, k, p), Linked(v, ls, db), NEW i, i.in = p.over,
         p.does \notin {"version", "line", "pin", "employer", "provider", "placement"}
  PROVE  Linking(v, ls, k, db, WritesOf(p.does, i))
<1>1. ASSUME NEW w, w.in \notin ChainCols PROVE Safe(v, ls, db, w)
  BY <1>1, WrittenElsewhere DEF Safe
<1>2. ASSUME NEW w, NEW x, w.in \notin ChainCols, x.in \notin ChainCols PROVE SafeThen(v, ls, db, w, x)
  BY <1>2, WrittenElsewhere DEF Safe, SafeThen
<1>3. ASSUME NEW c, c \notin ChainCols, NEW id, NEW row
      PROVE  /\ Linking(v, ls, k, db, <<Update(c, id, row)>>)
             /\ Linking(v, ls, k, db, <<Insert(c, id, row)>>)
  <2>1. PICK w, x : w = Update(c, id, row) /\ x = Insert(c, id, row)
    OBVIOUS
  <2>2. w.in = c /\ x.in = c
    BY <2>1 DEF Insert, Update
  <2>3. Safe(v, ls, db, w) /\ Safe(v, ls, db, x)
    BY <1>1, <1>3, <2>2
  <2> QED BY <2>1, <2>3, Linkings
<1>11. \A c \in {"organisations", "sites", "memberships", "people", "driverProfiles", "rateCardLineages",
                  "checklistTemplates", "vehicles"} : c \notin ChainCols
  BY DEF ChainCols
<1>4. CASE p.does = "type"
  <2>1. \A row : Linking(v, ls, k, db, <<Update("organisations", i.id, row)>>)
    BY <1>3, <1>11
  <2> QED BY <1>4, <2>1, Linkings DEF WritesOf, TypeOfOrganisation
<1>5. CASE p.does = "insert"
  <2>1. \A row : Linking(v, ls, k, db, <<Insert("rateCardLineages", i.id, row)>>)
    BY <1>3, <1>11
  <2> QED BY <1>5, <2>1, Linkings DEF WritesOf, LineageRow
<1>6. CASE p.does = "client"
  <2>1. \A o : Linking(v, ls, k, db, <<Update("sites", i.id, o)>>)
    BY <1>3, <1>11
  <2>2. \A n, row, o : Linking(v, ls, k, db, <<Insert("organisations", n, row), Update("sites", i.id, o)>>)
    <3> SUFFICES ASSUME NEW n, NEW row, NEW o
                 PROVE  Linking(v, ls, k, db, <<Insert("organisations", n, row), Update("sites", i.id, o)>>)
      OBVIOUS
    <3>1. PICK w, x : w = Insert("organisations", n, row) /\ x = Update("sites", i.id, o)
      OBVIOUS
    <3>2. w.in = "organisations" /\ x.in = "sites"
      BY <3>1 DEF Insert, Update
    <3>3. SafeThen(v, ls, db, w, x)
      BY <1>2, <1>11, <3>2
    <3> QED BY <3>1, <3>3, Linkings
  <2> QED BY <1>6, <2>1, <2>2, Linkings DEF WritesOf, ClientOfSite
<1>7. CASE p.does = "workspace"
  <2>1. \A row : Linking(v, ls, k, db, <<Update("driverProfiles", i.id, row)>>)
    BY <1>3, <1>11
  <2> QED BY <1>7, <2>1, Linkings DEF WritesOf, ProfileWorkspace
<1>8. CASE p.does = "template"
  <2>1. \A n, row : Linking(v, ls, k, db, <<Insert("checklistTemplates", n, row)>>)
    BY <1>3, <1>11
  <2> QED BY <1>8, <2>1, Linkings DEF WritesOf, DefaultTemplate
<1>9. CASE p.does = "payType"
  <2>1. \A row : Linking(v, ls, k, db, <<Update("rateCardLineages", i.id, row)>>)
    BY <1>3, <1>11
  <2> QED BY <1>9, <2>1, Linkings DEF WritesOf, PayType
<1>10. CASE p.does \in Columns
  <2>1. i.in \notin ChainCols
    BY <1>10, <1>11 DEF LateKind, On, Columns
  <2>2. \A row : Linking(v, ls, k, db, <<Update(i.in, i.id, row)>>)
    BY <1>3, <2>1
  <2>3. Linking(v, ls, k, db, AddField(i, p.does))
    BY <2>2, Linkings DEF AddField
  <2> QED BY <1>10, <2>3 DEF WritesOf, Columns
<1> QED BY <1>4, <1>5, <1>6, <1>7, <1>8, <1>9, <1>10 DEF LateKind, On, Columns

\* Once the first pass of 004 is done every card is a version.
LEMMA VersionedByThen ==
  ASSUME NEW k, NEW p, NEW id, Ready(3, k, p, id), p.does \in {"line", "pin"}
  PROVE  CardsVersioned(db)
<1>1. 3 + 1 = 4
  OBVIOUS
<1>2. k \in 1..3 /\ p = PassesOf[4][k]
  <2>1. k \in 1..Len(PassesOf[4]) /\ p = PassesOf[4][k]
    BY <1>1 DEF Ready
  <2> QED BY <2>1, LatePasses
<1>3. k # 1
  BY <1>2, LatePasses DEF On
<1>4. 1 \in 1..(k - 1)
  BY <1>2, <1>3
<1>5. Done(ls, PassesOf[4][1], db)
  BY <1>1, <1>4 DEF Ready
<1>6. Done(ls, On("version", "rateCards"), db)
  BY <1>5, LatePasses
<1> QED BY <1>6, TargetsAre, SettledIs DEF Done, CardsVersioned, Filled

LEMMA VersionLinks ==
  ASSUME NEW v, NEW k, NEW p, NEW id, Ready(v, k, p, id), Linked(v, ls, db), p = On("version", "rateCards")
  PROVE  Linking(v, ls, k, db, WritesOf(p.does, Item(ls, p, db, id)))
<1>1. PICK i : Visiting(v, k, p, "rateCards", id, i)
  BY VisitingIs
<1>0. p.does = "version" /\ p.over = "rateCards" /\ i = Item(ls, p, db, id) /\ v \in 3..13
  <2>1. v \in 3..13
    BY DEF Ready
  <2>2. p.does = "version" /\ p.over = "rateCards"
    BY DEF On
  <2> QED BY <1>1, <2>1, <2>2 DEF Visiting
<1> DEFINE patch == [lineageId |-> id]
           w == Update("rateCards", id, patch)
<1>2. WritesOf(p.does, i) = VersionCard(i)
  BY <1>0 DEF WritesOf
<1>3. CASE Get(i.row, "lineageId") # Null
  BY <1>0, <1>2, <1>3, Linkings DEF VersionCard
<1>4. CASE Get(i.row, "lineageId") = Null
  <2>1. VersionCard(i) = <<w>>
    BY <1>1, <1>4 DEF VersionCard, Visiting
  <2>2. id \in DOMAIN db.rateCards /\ Get(db.rateCards[id], "lineageId") = Null
    BY <1>1, <1>4 DEF Visiting
  <2>3. Chained(v, db) /\ Known(db)
    BY <1>0 DEF Linked
  <2>4. Pinned(db) = {}
    BY <2>2, <2>3 DEF Chained, CardsVersioned, Filled
  <2>5. DOMAIN patch = {"lineageId"} /\ patch["lineageId"] = id
    OBVIOUS
  <2> HIDE DEF patch
  <2>6. ASSUME NEW s2, Written(db, w, s2) PROVE Linked(v, ls, s2)
    <3>1. Patches(db, s2, "rateCards", id, patch)
      BY <2>2, <2>5, <2>6 DEF Patches, Fillable
    <3>2. /\ s2.assignments = db.assignments /\ s2.shifts = db.shifts /\ s2.engagements = db.engagements
          /\ s2.placements = db.placements
      BY <3>1, PatchFills DEF Collections
    <3>3. /\ DOMAIN s2.rateCards = DOMAIN db.rateCards /\ Get(s2.rateCards[id], "lineageId") = id
          /\ \A r \in DOMAIN db.rateCards \ {id} : s2.rateCards[r] = db.rateCards[r]
      <4>1. Fills(db, s2)
        BY <3>1, PatchFills
      <4>2. DOMAIN s2.rateCards = DOMAIN db.rateCards
        BY <4>1 DEF Fills, Collections
      <4> QED BY <2>5, <3>1, <4>2, PatchFills
    <3>4. Known(s2)
      BY <2>2, <2>3, <3>2, <3>3 DEF Known
    <3>5. Chained(v, s2)
      <4>1. Pinned(s2) = {}
        BY <2>4, <3>2 DEF Pinned
      <4>2. AssignmentsPlaced(v, s2)
        BY <2>3, <3>2 DEF Chained, AssignmentsPlaced
      <4> QED BY <4>1, <4>2 DEF Chained, PinsResolve
    <3> QED BY <1>0, <3>4, <3>5 DEF Linked
  <2>7. Safe(v, ls, db, w)
    BY <2>6 DEF Safe
  <2> HIDE DEF w
  <2> QED BY <1>0, <1>2, <2>1, <2>7, Linkings
<1> QED BY <1>3, <1>4

\* The rows of a collection after an update of row id
LEMMA PatchedRows ==
  ASSUME NEW s, NEW s2, RowTypes(s), NEW c, NEW id, NEW patch, Patches(s, s2, c, id, patch)
  PROVE  /\ c \in Collections /\ id \in DOMAIN s[c] /\ DOMAIN s2[c] = DOMAIN s[c]
         /\ \A d \in Collections \ {c} : s2[d] = s[d]
         /\ \A x \in DOMAIN s[c] \ {id} : s2[c][x] = s[c][x]
         /\ \A f \in DOMAIN patch : Get(s2[c][id], f) = patch[f]
         /\ \A f : f \notin DOMAIN patch => Get(s2[c][id], f) = Get(s[c][id], f)
<1>1. Fills(s, s2) /\ c \in Collections
  BY PatchFills DEF Patches, Fillable, Collections
<1>2. DOMAIN s2[c] = DOMAIN s[c]
  BY <1>1 DEF Fills
<1> QED BY <1>1, <1>2, PatchFills

LEMMA LineLinks ==
  ASSUME NEW v, NEW k, NEW p, NEW id, Ready(v, k, p, id), Linked(v, ls, db), p = On("line", "assignments")
  PROVE  Linking(v, ls, k, db, WritesOf(p.does, Item(ls, p, db, id)))
<1>1. PICK i : Visiting(v, k, p, "assignments", id, i)
  BY VisitingIs
<1>0. p.does = "line" /\ p.over = "assignments" /\ i = Item(ls, p, db, id) /\ v = 3 /\ RowTypes(db)
  <2>1. LateKind(v, k, p) /\ RowTypes(db)
    BY LateKinds DEF Ready
  <2> QED BY <1>1, <2>1 DEF Visiting, LateKind, On
<1> DEFINE card == Get(i.row, "rateCardId")
           line == IF card \in DOMAIN db.rateCards THEN db.rateCards[card].lineageId ELSE Null
           patch == [rateCardLineageId |-> line]
           w == Update("assignments", id, patch)
<1>2. WritesOf(p.does, i) = LineOfAssignment(i)
  BY <1>0 DEF WritesOf
<1>3. CASE Get(i.row, "rateCardLineageId") # Null \/ card = Null
  BY <1>0, <1>2, <1>3, Linkings DEF LineOfAssignment
<1>4. CASE ~ (Get(i.row, "rateCardLineageId") # Null \/ card = Null)
  <2>1. LineOfAssignment(i) = <<w>>
    BY <1>1, <1>4 DEF LineOfAssignment, Visiting
  <2>2. /\ id \in DOMAIN db.assignments /\ Get(db.assignments[id], "rateCardLineageId") = Null
        /\ Get(db.assignments[id], "rateCardId") # Null
    BY <1>1, <1>4 DEF Visiting
  <2>3. AssignmentsPlaced(3, db) /\ PinsResolve(db) /\ (Pinned(db) # {} => CardsVersioned(db)) /\ Known(db)
    BY <1>0 DEF Linked, Chained
  <2>4. CardsVersioned(db)
    BY <1>0, VersionedByThen
  <2>5. line \in Ids \cup {Null}
    BY <2>3, <2>4 DEF Known, CardsVersioned, Filled, Get
  <2>6. Get(db.assignments[id], "placementId") = Null
    BY <2>2, <2>3 DEF AssignmentsPlaced
  <2>7. DOMAIN patch = {"rateCardLineageId"} /\ patch["rateCardLineageId"] = line
    OBVIOUS
  <2> HIDE DEF patch, line, card
  <2>8. ASSUME NEW s2, Written(db, w, s2) PROVE Linked(v, ls, s2)
    <3>1. Patches(db, s2, "assignments", id, patch)
      BY <2>2, <2>7, <2>8 DEF Patches, Fillable
    <3>2. /\ s2.rateCards = db.rateCards /\ s2.shifts = db.shifts /\ s2.engagements = db.engagements
          /\ s2.placements = db.placements
      BY <1>0, <3>1, PatchedRows DEF Collections
    <3>3. /\ DOMAIN s2.assignments = DOMAIN db.assignments
          /\ \A a \in DOMAIN db.assignments \ {id} : s2.assignments[a] = db.assignments[a]
          /\ Get(s2.assignments[id], "placementId") = Null
          /\ Get(s2.assignments[id], "siteId") = Get(db.assignments[id], "siteId")
          /\ Get(s2.assignments[id], "rateCardLineageId") = line
      <4>1. /\ DOMAIN s2.assignments = DOMAIN db.assignments
            /\ \A a \in DOMAIN db.assignments \ {id} : s2.assignments[a] = db.assignments[a]
            /\ \A f \in DOMAIN patch : Get(s2.assignments[id], f) = patch[f]
            /\ \A f : f \notin DOMAIN patch => Get(s2.assignments[id], f) = Get(db.assignments[id], f)
        BY <1>0, <3>1, PatchedRows
      <4>2. Get(s2.assignments[id], "placementId") = Get(db.assignments[id], "placementId")
        BY <2>7, <4>1
      <4> QED BY <2>6, <2>7, <4>1, <4>2
    <3>4. Known(s2)
      BY <2>3, <2>5, <3>2, <3>3 DEF Known
    <3>5. AssignmentsPlaced(3, s2)
      BY <2>3, <3>2, <3>3 DEF AssignmentsPlaced
    <3>6. PinsResolve(s2)
      <4> SUFFICES ASSUME NEW h \in Pinned(s2)
                   PROVE  LET a == s2.shifts[h].assignmentId
                          IN /\ a \in DOMAIN s2.assignments /\ LineReached(s2, a) # Null
                             /\ s2.shifts[h].rateCardId \in Pins(s2, h, LineReached(s2, a))
        BY DEF PinsResolve
      <4> DEFINE a == db.shifts[h].assignmentId
      <4>1. /\ a \in DOMAIN db.assignments /\ LineReached(db, a) # Null
            /\ db.shifts[h].rateCardId \in Pins(db, h, LineReached(db, a))
        BY <2>3, <3>2 DEF PinsResolve, Pinned
      <4>2. a # id
        BY <2>2, <2>6, <4>1 DEF LineReached
      <4>3. LineReached(s2, a) = LineReached(db, a)
        BY <3>2, <3>3, <4>1, <4>2 DEF LineReached
      <4>4. \A l : Pins(s2, h, l) = Pins(db, h, l)
        BY <3>2 DEF Pins, EffectiveCards, VersionsBy
      <4> QED BY <3>2, <3>3, <4>1, <4>3, <4>4
    <3>7. Chained(3, s2)
      BY <2>4, <3>2, <3>5, <3>6 DEF Chained, CardsVersioned
    <3> QED BY <1>0, <3>4, <3>7 DEF Linked
  <2>9. Safe(v, ls, db, w)
    BY <2>8 DEF Safe
  <2> HIDE DEF w
  <2> QED BY <1>0, <1>2, <2>1, <2>9, Linkings
<1> QED BY <1>3, <1>4

LEMMA PinLinks ==
  ASSUME NEW v, NEW k, NEW p, NEW id, Ready(v, k, p, id), Linked(v, ls, db), p = On("pin", "shifts")
  PROVE  Linking(v, ls, k, db, WritesOf(p.does, Item(ls, p, db, id)))
<1>1. PICK i : Visiting(v, k, p, "shifts", id, i)
  BY VisitingIs
<1>0. p.does = "pin" /\ p.over = "shifts" /\ i = Item(ls, p, db, id) /\ v = 3 /\ RowTypes(db)
  <2>1. LateKind(v, k, p) /\ RowTypes(db)
    BY LateKinds DEF Ready
  <2> QED BY <1>1, <2>1 DEF Visiting, LateKind, On
<1> DEFINE lineage == LineageOf(db, i.row.assignmentId)
           cards == EffectiveCards(db, lineage, i.row.date)
           card == CHOOSE r \in cards : TRUE
           patch == [rateCardId |-> card]
           w == Update("shifts", id, patch)
           skip == \/ Get(i.row, "rateCardId") # Null \/ i.row.assignmentId = Null
                   \/ lineage = Null \/ cards = {}
<1>2. WritesOf(p.does, i) = PinShift(i)
  BY <1>0 DEF WritesOf
<1>3. CASE skip
  <2>1. PinShift(i) = Skip
    BY <1>3 DEF PinShift
  <2> QED BY <1>0, <1>2, <2>1, Linkings
<1>4. CASE ~skip
  <2>1. PinShift(i) = <<w>>
    BY <1>1, <1>4 DEF PinShift, Visiting
  <2>2. AssignmentsPlaced(3, db) /\ PinsResolve(db) /\ Known(db)
    BY <1>0 DEF Linked, Chained
  <2>3. CardsVersioned(db)
    BY <1>0, VersionedByThen
  <2>4. /\ id \in DOMAIN db.shifts /\ Get(db.shifts[id], "rateCardId") = Null /\ i.row = db.shifts[id]
        /\ lineage # Null
    BY <1>1, <1>4 DEF Visiting
  <2>5. card \in cards
    BY <1>4
  <2> DEFINE b == db.shifts[id].assignmentId
  <2>6. b \in DOMAIN db.assignments /\ LineReached(db, b) = lineage
    <3>1. b \in DOMAIN db.assignments /\ Get(db.assignments[b], "rateCardLineageId") = lineage
      BY <2>4 DEF LineageOf
    <3> QED BY <2>2, <2>4, <3>1 DEF LineReached, AssignmentsPlaced
  <2>7. card \in EffectiveCards(db, LineReached(db, b), db.shifts[id].date)
    BY <2>4, <2>5, <2>6
  <2>8. DOMAIN patch = {"rateCardId"} /\ patch["rateCardId"] = card /\ LineReached(db, b) # Null
    BY <2>4, <2>6
  <2> HIDE DEF patch, card, cards, lineage
  <2>9. ASSUME NEW s2, Written(db, w, s2) PROVE Linked(v, ls, s2)
    <3>1. Patches(db, s2, "shifts", id, patch)
      BY <2>4, <2>8, <2>9 DEF Patches, Fillable
    <3>2. /\ s2.rateCards = db.rateCards /\ s2.assignments = db.assignments /\ s2.engagements = db.engagements
          /\ s2.placements = db.placements
      BY <1>0, <3>1, PatchedRows DEF Collections
    <3>3. /\ DOMAIN s2.shifts = DOMAIN db.shifts
          /\ \A h \in DOMAIN db.shifts \ {id} : s2.shifts[h] = db.shifts[h]
          /\ Get(s2.shifts[id], "rateCardId") = card
      BY <1>0, <2>8, <3>1, PatchedRows
    <3>4. \A h \in DOMAIN db.shifts : /\ s2.shifts[h].assignmentId = db.shifts[h].assignmentId
                                     /\ s2.shifts[h].date = db.shifts[h].date
      <4>1. Fills(db, s2)
        BY <3>1, PatchFills
      <4> QED BY <1>0, <4>1, FillFacts
    <3>5. Known(s2) /\ AssignmentsPlaced(3, s2) /\ CardsVersioned(s2)
      BY <2>2, <2>3, <3>2 DEF Known, AssignmentsPlaced, CardsVersioned
    <3>6. PinsResolve(s2)
      <4> SUFFICES ASSUME NEW h \in Pinned(s2)
                   PROVE  LET a == s2.shifts[h].assignmentId
                          IN /\ a \in DOMAIN s2.assignments /\ LineReached(s2, a) # Null
                             /\ s2.shifts[h].rateCardId \in Pins(s2, h, LineReached(s2, a))
        BY DEF PinsResolve
      <4> DEFINE a == db.shifts[h].assignmentId
      <4>1. h \in DOMAIN db.shifts /\ s2.shifts[h].assignmentId = a /\ s2.shifts[h].date = db.shifts[h].date
        BY <3>3, <3>4 DEF Pinned
      <4>2. \A l : Pins(s2, h, l) = Pins(db, h, l)
        BY <3>2, <4>1 DEF Pins, EffectiveCards, VersionsBy
      <4>3. LineReached(s2, a) = LineReached(db, a)
        BY <3>2 DEF LineReached
      <4>4. CASE h # id
        <5>1. h \in Pinned(db) /\ s2.shifts[h].rateCardId = db.shifts[h].rateCardId
          BY <3>3, <4>1, <4>4 DEF Pinned
        <5> QED BY <2>2, <3>2, <4>1, <4>2, <4>3, <5>1 DEF PinsResolve
      <4>5. CASE h = id
        <5>1. s2.shifts[h].rateCardId = card
          BY <3>3, <4>5 DEF Pinned, Get
        <5>2. card \in Pins(db, h, LineReached(db, a))
          BY <2>7, <4>5 DEF Pins, EffectiveCards
        <5> QED BY <2>6, <2>8, <3>2, <4>1, <4>2, <4>3, <4>5, <5>1, <5>2
      <4> QED BY <4>4, <4>5
    <3>7. Chained(3, s2)
      BY <3>5, <3>6 DEF Chained
    <3> QED BY <1>0, <3>5, <3>7 DEF Linked
  <2>10. Safe(v, ls, db, w)
    BY <2>9 DEF Safe
  <2> HIDE DEF w
  <2> QED BY <1>0, <1>2, <2>1, <2>10, Linkings
<1> QED BY <1>3, <1>4

\* Engagements may be given a provider or an employer that is known.
LEMMA EngagementSafe ==
  ASSUME NEW v \in 3..13, NEW local, NEW s, RowTypes(s), Linked(v, local, s), NEW id \in DOMAIN s.engagements, NEW patch,
         DOMAIN patch \subseteq {"employerOrganisationId", "providerOrganisationId", "relationshipType"},
         \A f \in DOMAIN patch : /\ Get(s.engagements[id], f) = Null
                                 /\ f # "relationshipType" => patch[f] \in Ids \cup {Null}
  PROVE  Safe(v, local, s, Update("engagements", id, patch))
<1> SUFFICES ASSUME NEW s2, Written(s, Update("engagements", id, patch), s2) PROVE Linked(v, local, s2)
  BY DEF Safe
<1>1. Patches(s, s2, "engagements", id, patch)
  BY DEF Patches, Fillable
<1>2. /\ s2.rateCards = s.rateCards /\ s2.assignments = s.assignments /\ s2.shifts = s.shifts
      /\ s2.placements = s.placements
  BY <1>1, PatchedRows DEF Collections
<1>3. /\ DOMAIN s2.engagements = DOMAIN s.engagements
      /\ \A e \in DOMAIN s.engagements \ {id} : s2.engagements[e] = s.engagements[e]
      /\ \A f \in DOMAIN patch : Get(s2.engagements[id], f) = patch[f]
      /\ \A f : f \notin DOMAIN patch => Get(s2.engagements[id], f) = Get(s.engagements[id], f)
  BY <1>1, PatchedRows
<1>4. AssignmentsPlaced(v, s) /\ PinsResolve(s) /\ (Pinned(s) # {} => CardsVersioned(s)) /\ Known(s)
  BY DEF Linked, Chained
<1>5. Known(s2)
  <2>1. \A f \in {"organisationId", "employerOrganisationId", "providerOrganisationId"} :
          Get(s2.engagements[id], f) \in Ids \cup {Null}
    BY <1>3, <1>4 DEF Known
  <2> QED BY <1>2, <1>3, <1>4, <2>1 DEF Known
<1>6. \A e \in DOMAIN s.engagements : Get(s.engagements[e], "providerOrganisationId") # Null =>
        Get(s2.engagements[e], "providerOrganisationId") = Get(s.engagements[e], "providerOrganisationId")
  BY <1>3
<1>7. AssignmentsPlaced(v, s2)
  BY <1>2, <1>3, <1>4, <1>6 DEF AssignmentsPlaced
<1>8. PinsResolve(s2) /\ (Pinned(s2) # {} => CardsVersioned(s2))
  <2>1. \A a : LineReached(s2, a) = LineReached(s, a)
    BY <1>2 DEF LineReached
  <2>2. \A h, l : Pins(s2, h, l) = Pins(s, h, l)
    BY <1>2 DEF Pins, EffectiveCards, VersionsBy
  <2> QED BY <1>2, <1>4, <2>1, <2>2 DEF PinsResolve, Pinned, CardsVersioned
<1> QED BY <1>5, <1>7, <1>8 DEF Linked, Chained

LEMMA EmployerLinks ==
  ASSUME NEW v, NEW k, NEW p, NEW id, Ready(v, k, p, id), Linked(v, ls, db), p = On("employer", "engagements")
  PROVE  Linking(v, ls, k, db, WritesOf(p.does, Item(ls, p, db, id)))
<1>1. PICK i : Visiting(v, k, p, "engagements", id, i)
  BY VisitingIs
<1>0. p.does = "employer" /\ i = Item(ls, p, db, id) /\ v \in 3..13 /\ RowTypes(db)
  <2>1. v \in 3..13 /\ RowTypes(db) /\ p.does = "employer"
    BY DEF Ready, On
  <2> QED BY <1>1, <2>1 DEF Visiting
<1> DEFINE patch == [employerOrganisationId |-> Get(i.row, "organisationId")]
           w == Update("engagements", id, patch)
<1>2. WritesOf(p.does, i) = Employer(i)
  BY <1>0 DEF WritesOf
<1>3. CASE Get(i.row, "employerOrganisationId") # Null
  BY <1>0, <1>2, <1>3, Linkings DEF Employer
<1>4. CASE Get(i.row, "employerOrganisationId") = Null
  <2>1. Employer(i) = <<w>>
    BY <1>1, <1>4 DEF Employer, Visiting
  <2>2. id \in DOMAIN db.engagements /\ i.row = db.engagements[id]
    BY <1>1 DEF Visiting
  <2>3. DOMAIN patch = {"employerOrganisationId"} /\ patch["employerOrganisationId"] \in Ids \cup {Null}
    BY <1>0, <2>2 DEF Linked, Known
  <2> HIDE DEF patch
  <2>4. Safe(v, ls, db, w)
    BY <1>0, <1>4, <2>2, <2>3, EngagementSafe
  <2> HIDE DEF w
  <2> QED BY <1>0, <1>2, <2>1, <2>4, Linkings
<1> QED BY <1>3, <1>4

LEMMA ProviderLinks ==
  ASSUME NEW v, NEW k, NEW p, NEW id, Ready(v, k, p, id), Linked(v, ls, db), p = On("provider", "engagements")
  PROVE  Linking(v, ls, k, db, WritesOf(p.does, Item(ls, p, db, id)))
<1>1. PICK i : Visiting(v, k, p, "engagements", id, i)
  BY VisitingIs
<1>0. p.does = "provider" /\ i = Item(ls, p, db, id) /\ v \in 3..13 /\ RowTypes(db)
  <2>1. v \in 3..13 /\ RowTypes(db) /\ p.does = "provider"
    BY DEF Ready, On
  <2> QED BY <1>1, <2>1 DEF Visiting
<1> DEFINE whole == [providerOrganisationId |-> Get(i.row, "employerOrganisationId"),
                     relationshipType |-> Get(i.row, "role")]
           missing == {f \in DOMAIN whole : Get(i.row, f) = Null}
           patch == [f \in missing |-> whole[f]]
           w == Update("engagements", id, patch)
<1>2. WritesOf(p.does, i) = Provider(i)
  BY <1>0 DEF WritesOf
<1>3. CASE missing = {}
  BY <1>0, <1>2, <1>3, Linkings DEF Provider
<1>4. CASE missing # {}
  <2>1. Provider(i) = <<w>>
    BY <1>1, <1>4 DEF Provider, Visiting
  <2>2. id \in DOMAIN db.engagements /\ i.row = db.engagements[id]
    BY <1>1 DEF Visiting
  <2>3. whole["providerOrganisationId"] \in Ids \cup {Null}
    BY <1>0, <2>2 DEF Linked, Known
  <2>4. /\ DOMAIN patch = missing /\ missing \subseteq {"providerOrganisationId", "relationshipType"}
        /\ \A f \in DOMAIN patch : Get(db.engagements[id], f) = Null /\ patch[f] = whole[f]
    BY <2>2
  <2> HIDE DEF patch, missing, whole
  <2>5. Safe(v, ls, db, w)
    BY <1>0, <2>2, <2>3, <2>4, EngagementSafe
  <2> HIDE DEF w
  <2> QED BY <1>0, <1>2, <2>1, <2>5, Linkings
<1> QED BY <1>3, <1>4

\* An assignment may be placed where its line, its site and its engagement's provider meet.
LEMMA PlacingSafe ==
  ASSUME NEW local, NEW s, RowTypes(s), Linked(7, local, s), NEW a \in DOMAIN s.assignments,
         Get(s.assignments[a], "placementId") = Null, NEW n \in DOMAIN s.placements, n # Null,
         s.assignments[a].engagementId \in DOMAIN s.engagements,
         s.placements[n].providerOrganisationId # Null,
         Get(s.engagements[s.assignments[a].engagementId], "providerOrganisationId") =
           s.placements[n].providerOrganisationId,
         Get(s.assignments[a], "rateCardLineageId") = s.placements[n].rateCardLineageId
  PROVE  Safe(7, local, s, Update("assignments", a, [placementId |-> n]))
<1> DEFINE patch == [placementId |-> n]
<1>0. DOMAIN patch = {"placementId"} /\ patch["placementId"] = n
  OBVIOUS
<1> HIDE DEF patch
<1> SUFFICES ASSUME NEW s2, Written(s, Update("assignments", a, patch), s2) PROVE Linked(7, local, s2)
  BY DEF Safe, patch
<1>1. Patches(s, s2, "assignments", a, patch)
  BY <1>0 DEF Patches, Fillable
<1>2. /\ s2.rateCards = s.rateCards /\ s2.engagements = s.engagements /\ s2.shifts = s.shifts
      /\ s2.placements = s.placements
  BY <1>1, PatchedRows DEF Collections
<1>3. /\ DOMAIN s2.assignments = DOMAIN s.assignments
      /\ \A b \in DOMAIN s.assignments \ {a} : s2.assignments[b] = s.assignments[b]
      /\ \A f \in DOMAIN patch : Get(s2.assignments[a], f) = patch[f]
      /\ \A f : f \notin DOMAIN patch => Get(s2.assignments[a], f) = Get(s.assignments[a], f)
  BY <1>1, PatchedRows
<1>4. /\ Get(s2.assignments[a], "placementId") = n /\ s2.assignments[a].placementId = n
      /\ Get(s2.assignments[a], "siteId") = Get(s.assignments[a], "siteId")
      /\ Get(s2.assignments[a], "rateCardLineageId") = Get(s.assignments[a], "rateCardLineageId")
      /\ s2.assignments[a].engagementId = s.assignments[a].engagementId
  <2>1. Get(s2.assignments[a], "placementId") = n
    BY <1>0, <1>3
  <2>2. /\ Get(s2.assignments[a], "siteId") = Get(s.assignments[a], "siteId")
        /\ Get(s2.assignments[a], "rateCardLineageId") = Get(s.assignments[a], "rateCardLineageId")
    BY <1>0, <1>3
  <2>3. s2.assignments[a].engagementId = s.assignments[a].engagementId
    <3>1. Fills(s, s2)
      BY <1>1, PatchFills
    <3> QED BY <3>1, FillFacts
  <2> QED BY <2>1, <2>2, <2>3 DEF Get
<1>5. AssignmentsPlaced(7, s) /\ PinsResolve(s) /\ (Pinned(s) # {} => CardsVersioned(s)) /\ Known(s)
  BY DEF Linked, Chained
<1>6. Known(s2)
  BY <1>2, <1>3, <1>4, <1>5 DEF Known
<1>7. AssignmentsPlaced(7, s2)
  <2>1. ASSUME NEW b \in DOMAIN s.assignments \ {a} PROVE s2.assignments[b] = s.assignments[b]
    BY <1>3
  <2> QED BY <1>2, <1>3, <1>4, <1>5, <2>1 DEF AssignmentsPlaced
<1>8. ASSUME NEW b \in DOMAIN s.assignments PROVE LineReached(s2, b) = LineReached(s, b)
  <2>1. CASE b = a
    BY <1>2, <1>4, <2>1 DEF LineReached
  <2>2. CASE b # a
    BY <1>2, <1>3, <2>2 DEF LineReached
  <2> QED BY <2>1, <2>2
<1>9. PinsResolve(s2) /\ (Pinned(s2) # {} => CardsVersioned(s2))
  <2>1. \A h, l : Pins(s2, h, l) = Pins(s, h, l)
    BY <1>2 DEF Pins, EffectiveCards, VersionsBy
  <2> QED BY <1>2, <1>3, <1>5, <1>8, <2>1 DEF PinsResolve, Pinned, CardsVersioned
<1> QED BY <1>6, <1>7, <1>9 DEF Linked, Chained

LEMMA PlacementInserted ==
  ASSUME NEW s, NEW s2, NEW n, NEW row, Written(s, Insert("placements", n, row), s2)
  PROVE  /\ \A d \in Collections \ {"placements"} : s2[d] = s[d]
         /\ DOMAIN s2.placements = DOMAIN s.placements \cup {n} /\ s2.placements[n] = row
         /\ \A q \in DOMAIN s.placements : s2.placements[q] = s.placements[q]
<1>1. "placements" \in Growing
  BY DEF Growing
<1> QED BY <1>1, Inserted

\* A placement may be added, whatever its assignment.
LEMMA PlacementStays ==
  ASSUME NEW local, NEW s, NEW s2, Linked(7, local, s), NEW n, NEW row,
         row.providerOrganisationId \in Ids, row.siteId \in Ids, row.rateCardLineageId \in Ids,
         Written(s, Insert("placements", n, row), s2)
  PROVE  Linked(7, local, s2)
<1>1. /\ \A d \in Collections \ {"placements"} : s2[d] = s[d]
      /\ DOMAIN s2.placements = DOMAIN s.placements \cup {n} /\ s2.placements[n] = row
      /\ \A q \in DOMAIN s.placements : s2.placements[q] = s.placements[q]
  BY PlacementInserted
<1>2. /\ s2.rateCards = s.rateCards /\ s2.engagements = s.engagements /\ s2.shifts = s.shifts
      /\ s2.assignments = s.assignments
  BY <1>1 DEF Collections
<1>3. AssignmentsPlaced(7, s) /\ PinsResolve(s) /\ (Pinned(s) # {} => CardsVersioned(s)) /\ Known(s)
  BY DEF Linked, Chained
<1>4. Known(s2) /\ AssignmentsPlaced(7, s2)
  BY <1>1, <1>2, <1>3 DEF Known, AssignmentsPlaced
<1>5. \A b \in DOMAIN s.assignments : LineReached(s2, b) = LineReached(s, b)
  BY <1>1, <1>2, <1>3 DEF LineReached, AssignmentsPlaced
<1>6. \A h, l : Pins(s2, h, l) = Pins(s, h, l)
  BY <1>2 DEF Pins, EffectiveCards, VersionsBy
<1>7. PinsResolve(s2) /\ (Pinned(s2) # {} => CardsVersioned(s2))
  BY <1>2, <1>3, <1>5, <1>6 DEF PinsResolve, Pinned, CardsVersioned
<1> QED BY <1>4, <1>7 DEF Linked, Chained

LEMMA PlacementLinks ==
  ASSUME NamesAreNotNull, IdsApart,
         NEW v, NEW k, NEW p, NEW id, Ready(v, k, p, id), Linked(v, ls, db), p = On("placement", "assignments")
  PROVE  Linking(v, ls, k, db, WritesOf(p.does, Item(ls, p, db, id)))
<1>1. PICK i : Visiting(v, k, p, "assignments", id, i)
  BY VisitingIs
<1>0. p.does = "placement" /\ i = Item(ls, p, db, id) /\ v = 7 /\ RowTypes(db)
  <2>1. LateKind(v, k, p) /\ RowTypes(db)
    BY LateKinds DEF Ready
  <2> QED BY <1>1, <2>1 DEF Visiting, LateKind, On
<1>2. WritesOf(p.does, i) = PlacementOf(i)
  BY <1>0 DEF WritesOf
<1>5. i.row = db.assignments[id] /\ i.id = id /\ id \in DOMAIN db.assignments
  BY <1>1 DEF Visiting
<1> DEFINE site == Get(db.assignments[id], "siteId")
           line == Get(db.assignments[id], "rateCardLineageId")
           eng == db.assignments[id].engagementId
           provider == Get(db.engagements[eng], "providerOrganisationId")
           n == derivePlacementId(provider, site, line)
           w == Update("assignments", id, [placementId |-> n])
<1>6. CASE Get(db.assignments[id], "placementId") # Null
  <2>1. PlacementOf(i) = Skip
    BY <1>5, <1>6 DEF PlacementOf
  <2> QED BY <1>0, <1>2, <2>1, Linkings
<1>7. CASE Get(db.assignments[id], "placementId") = Null
  <2>1. site # Null /\ line # Null /\ eng \in DOMAIN db.engagements
    BY <1>0, <1>1, <1>5, <1>7 DEF Visiting, Related, AssignmentsRelated
  <2>2. n # Null
    BY DEF NamesAreNotNull
  <2>3. provider # Null
    <3>1. 7 + 1 = 8
      OBVIOUS
    <3>2. k \in 1..2 /\ p = PassesOf[8][k]
      <4>1. k \in 1..Len(PassesOf[8]) /\ p = PassesOf[8][k]
        BY <1>0, <3>1 DEF Ready
      <4> QED BY <4>1, LatePasses
    <3>3. k # 1
      BY <1>0, <3>2, LatePasses DEF On
    <3>4. 1 \in 1..(k - 1)
      BY <3>2, <3>3
    <3>5. Done(ls, PassesOf[8][1], db)
      BY <1>0, <3>1, <3>4 DEF Ready
    <3>6. Done(ls, On("provider", "engagements"), db)
      BY <3>5, LatePasses
    <3> QED BY <2>1, <3>6, TargetsAre, SettledIs DEF Done
  <2>4. Known(db)
    BY <1>0 DEF Linked
  <2>5. provider \in Ids /\ site \in Ids /\ line \in Ids
    BY <1>5, <2>1, <2>3, <2>4 DEF Known
  <2>6. CASE n \in DOMAIN db.placements
    <3> DEFINE row == db.placements[n]
    <3>1. PlacementOf(i) = <<w>>
      BY <1>5, <1>7, <2>1, <2>6 DEF PlacementOf
    <3>2. n = derivePlacementId(row.providerOrganisationId, row.siteId, row.rateCardLineageId)
      BY <1>1, <1>5, <1>7, <2>6 DEF Visiting, Related, PlacementsDerived
    <3>3. row.providerOrganisationId \in Ids /\ row.siteId \in Ids /\ row.rateCardLineageId \in Ids
      BY <2>4, <2>6 DEF Known
    <3>4. row.providerOrganisationId = provider /\ row.rateCardLineageId = line
      <4> HIDE DEF row, provider, site, line
      <4> QED BY <2>5, <3>2, <3>3 DEF IdsApart
    <3>5. Safe(7, ls, db, w)
      <4> HIDE DEF n
      <4> QED BY <1>0, <1>5, <1>7, <2>1, <2>2, <2>3, <2>6, <3>4, PlacingSafe
    <3> HIDE DEF w
    <3> QED BY <1>0, <1>2, <3>1, <3>5, Linkings
  <2>7. CASE n \notin DOMAIN db.placements
    <3> DEFINE row == PlacementRow(provider, site, line)
               x == Insert("placements", n, row)
    <3>1. PlacementOf(i) = <<x, w>>
      BY <1>5, <1>7, <2>1, <2>7 DEF PlacementOf, PlacementRow
    <3>2. row.providerOrganisationId = provider /\ row.siteId = site /\ row.rateCardLineageId = line
      BY DEF PlacementRow
    <3>3. SafeThen(7, ls, db, x, w)
      <4> SUFFICES ASSUME NEW s2, RowTypes(s2), Written(db, x, s2)
                   PROVE  Linked(7, ls, s2) /\ Safe(7, ls, s2, w)
        BY DEF SafeThen
      <4> HIDE DEF n, row
      <4>1. Linked(7, ls, s2)
        BY <1>0, <2>5, <3>2, PlacementStays
      <4>2. n \in DOMAIN s2.placements /\ s2.placements[n] = row
        BY PlacementInserted
      <4>3. s2.assignments = db.assignments /\ s2.engagements = db.engagements
        <5>1. \A d \in Collections \ {"placements"} : s2[d] = db[d]
          BY PlacementInserted
        <5> QED BY <5>1 DEF Collections
      <4>4. Safe(7, ls, s2, w)
        BY <1>5, <1>7, <2>1, <2>2, <2>3, <3>2, <4>1, <4>2, <4>3, PlacingSafe
      <4> QED BY <4>1, <4>4
    <3> HIDE DEF x, w
    <3> QED BY <1>0, <1>2, <3>1, <3>3, Linkings
  <2> QED BY <2>6, <2>7
<1> QED BY <1>6, <1>7

\* What 001, 002 and 003 write keeps the order.
LEMMA EarlyLinks ==
  ASSUME NEW v, NEW k, NEW p, NEW id, EarlyReady(v, k, p, id), Linked(v, ls, db),
         \A j \in 1..(k - 1) : Done(ls, PassesOf[v + 1][j], db)
  PROVE  Linking(v, ls, k, db, WritesOf(p.does, Item(ls, p, db, id)))
<1>0. EarlyReady(v, k, p, id) /\ v \in 0..2
  BY DEF EarlyReady
<1>1. ASSUME NEW w, NothingToCopy(ls) => \/ w.in = "complianceProfiles"
                                         \/ w.in = "shifts" /\ DemoIn(db, 12)
      PROVE  Linking(v, ls, k, db, <<w>>)
  <2>1. ASSUME NEW s2, Written(db, w, s2) PROVE Linked(v, ls, s2)
    <3>1. NothingToCopy(ls) => InOrder(s2)
      BY <1>0, <1>1, <2>1, OrderStays DEF Linked
    <3> QED BY <1>0, <3>1 DEF Linked
  <2>2. Safe(v, ls, db, w)
    BY <2>1 DEF Safe
  <2> QED BY <2>2, Linkings
<1>2. CASE v = 0
  <2>1. p = On("init", "complianceProfiles")
    <3>1. v + 1 = 1
      BY <1>2
    <3>2. k \in 1..Len(PassesOf[1]) /\ p = PassesOf[1][k]
      BY <3>1 DEF EarlyReady
    <3> QED BY <3>2, EarlyPasses
  <2>2. WritesOf(p.does, Item(ls, p, db, id)) = InitSchema
    BY <2>1 DEF WritesOf, On
  <2>3. PICK w : w = Insert("complianceProfiles", "compliance-default", NoFields)
    OBVIOUS
  <2>4. w.in = "complianceProfiles"
    BY <2>3 DEF Insert
  <2>5. Linking(v, ls, k, db, <<w>>)
    BY <1>1, <2>4
  <2> QED BY <2>2, <2>3, <2>5, Linkings DEF InitSchema
<1>3. CASE v = 1
  <2>1. v + 1 = 2 /\ (k = 1 \/ k = 2) /\ p = PassesOf[2][k]
    <3>1. v + 1 = 2
      BY <1>3
    <3>2. k \in 1..Len(PassesOf[2]) /\ p = PassesOf[2][k]
      BY <3>1 DEF EarlyReady
    <3> QED BY <3>1, <3>2, EarlyPasses
  <2>2. CASE k = 1
    <3>1. p.does = "demo"
      BY <2>1, <2>2, EarlyPasses DEF On
    <3>2. WritesOf(p.does, Item(ls, p, db, id)) = DemoRows
      BY <3>1 DEF WritesOf
    <3>3. Len(DemoRows) = 12 /\ DemoIn(db, 0) /\ \A j \in 1..(12 - 0) : DemoRows[j] = DemoRows[0 + j]
      BY DEF DemoRows, DemoIn
    <3>4. DemoLeft(db, DemoRows)
      BY <3>3 DEF DemoLeft
    <3> QED BY <1>3, <2>2, <3>2, <3>4 DEF Linking
  <2>3. CASE k = 2
    <3>1. p.does = "hgv-shifts"
      BY <2>1, <2>3, EarlyPasses DEF On
    <3>2. PICK h : WritesOf(p.does, Item(ls, p, db, id)) = LegacyShift(h)
      BY <3>1 DEF WritesOf
    <3>3. PICK w : LegacyShift(h) = <<w>> /\ w.in = "shifts"
      <4>1. PICK row : LegacyShift(h) = <<Insert("shifts", h, row)>>
        BY DEF LegacyShift
      <4> QED BY <4>1 DEF Insert
    <3>4. Done(ls, On("demo", "none"), db)
      <4>1. 1 \in 1..(k - 1)
        BY <2>3
      <4> QED BY <2>1, <4>1, EarlyPasses
    <3>5. DemoIn(db, 12)
      BY <3>4 DEF Done, Targets, Settled, On
    <3>6. Linking(v, ls, k, db, <<w>>)
      BY <1>1, <3>3, <3>5
    <3> QED BY <3>2, <3>3, <3>6
  <2> QED BY <2>1, <2>2, <2>3
<1>4. CASE v = 2
  <2>1. p.does = "copy" /\ p.over \in Collections
    <3>1. v + 1 = 3
      BY <1>4
    <3>2. k \in 1..Len(PassesOf[3]) /\ p = PassesOf[3][k]
      BY <3>1 DEF EarlyReady
    <3> QED BY <3>2, EarlyPasses
  <2>2. PICK i : i = Item(ls, p, db, id)
    OBVIOUS
  <2>3. i.in = p.over /\ id \in DOMAIN ls[p.over]
    BY <2>1, <2>2 DEF Item, EarlyReady, Targets
  <2>4. WritesOf(p.does, i) = CopyRow(i)
    BY <2>1 DEF WritesOf
  <2>5. PICK w : CopyRow(i) = <<w>> /\ w.in = p.over
    <3>1. \A c, x, row : Update(c, x, row).in = c /\ Insert(c, x, row).in = c
      BY DEF Update, Insert
    <3> QED BY <2>3, <3>1 DEF CopyRow
  <2>6. NothingToCopy(ls) => p.over = "complianceProfiles"
    <3>1. DOMAIN NoFields = {}
      BY DEF NoFields
    <3> QED BY <2>1, <2>3, <3>1 DEF NothingToCopy
  <2>7. Linking(v, ls, k, db, <<w>>)
    BY <1>1, <2>5, <2>6
  <2> QED BY <2>2, <2>4, <2>5, <2>7
<1> QED BY <1>0, <1>2, <1>3, <1>4

\* Whatever a pass visits, its writes keep the chains.
LEMMA AllLinked ==
  ASSUME NamesAreNotNull, IdsApart, NEW v \in 0..13, NEW k \in 1..Len(PassesOf[v + 1]), NEW p, p = PassesOf[v + 1][k],
         IsStore(ls), RowTypes(db), Good(v, ls, db), Linked(v, ls, db), NEW id \in Targets(ls, p, db),
         \A j \in 1..(k - 1) : Done(ls, PassesOf[v + 1][j], db)
  PROVE  Linking(v, ls, k, db, WritesOf(p.does, Item(ls, p, db, id)))
<1>1. CASE v \in 0..2
  <2>1. EarlyReady(v, k, p, id)
    BY <1>1 DEF EarlyReady
  <2> QED BY <2>1, EarlyLinks
<1>2. CASE v \in 3..13
  <2>1. Ready(v, k, p, id) /\ LateKind(v, k, p)
    BY <1>2, LateKinds DEF Ready
  <2>2. Item(ls, p, db, id).in = p.over
    BY DEF Item
  <2>3. CASE p.does \notin {"version", "line", "pin", "employer", "provider", "placement"}
    BY <1>2, <2>1, <2>2, <2>3, LinkedElsewhere
  <2>4. CASE p.does = "version"
    <3>1. p = On("version", "rateCards")
      BY <2>1, <2>4 DEF LateKind, On
    <3> QED BY <2>1, <3>1, VersionLinks
  <2>5. CASE p.does = "line"
    <3>1. p = On("line", "assignments")
      BY <2>1, <2>5 DEF LateKind, On
    <3> QED BY <2>1, <3>1, LineLinks
  <2>6. CASE p.does = "pin"
    <3>1. p = On("pin", "shifts")
      BY <2>1, <2>6 DEF LateKind, On
    <3> QED BY <2>1, <3>1, PinLinks
  <2>7. CASE p.does = "employer"
    <3>1. p = On("employer", "engagements")
      BY <2>1, <2>7 DEF LateKind, On
    <3> QED BY <2>1, <3>1, EmployerLinks
  <2>8. CASE p.does = "provider"
    <3>1. p = On("provider", "engagements")
      BY <2>1, <2>8 DEF LateKind, On
    <3> QED BY <2>1, <3>1, ProviderLinks
  <2>9. CASE p.does = "placement"
    <3>1. p = On("placement", "assignments")
      BY <2>1, <2>9 DEF LateKind, On
    <3> QED BY <2>1, <3>1, PlacementLinks
  <2> QED BY <2>3, <2>4, <2>5, <2>6, <2>7, <2>8, <2>9
<1> QED BY <1>1, <1>2

\* The rows of the demo agency that a chain is made of
LEMMA DemoChainRows ==
  ASSUME NEW id, NEW row
  PROVE  /\ FreshRow("placements", id, row) =>
              id = "pl-demo" /\ row = [providerOrganisationId |-> "o-demo", siteId |-> "s-demo",
                                       rateCardLineageId |-> "rc-demo"]
         /\ FreshRow("rateCards", id, row) =>
              id = "rc-demo" /\ row = [workspaceId |-> "ws-agency", lineageId |-> "rc-demo", effectiveFrom |-> 1]
         /\ FreshRow("engagements", id, row) => id = "e-demo"
         /\ FreshRow("shifts", id, row) =>
              row = [assignmentId |-> "a-demo", date |-> 1, rateCardId |-> "rc-demo"]
<1>1. \A n \in 1..12 :
        /\ DemoRows[n].in = "placements" => n = 11
        /\ DemoRows[n].in = "rateCards" => n = 9
        /\ DemoRows[n].in = "engagements" => n = 10
        /\ DemoRows[n].in # "shifts"
  BY DEF DemoRows, Insert
<1>2. /\ DemoRows[11].id = "pl-demo" /\ DemoRows[9].id = "rc-demo" /\ DemoRows[10].id = "e-demo"
      /\ DemoRows[11].row = [providerOrganisationId |-> "o-demo", siteId |-> "s-demo", rateCardLineageId |-> "rc-demo"]
      /\ DemoRows[9].row = [workspaceId |-> "ws-agency", lineageId |-> "rc-demo", effectiveFrom |-> 1]
  BY DEF DemoRows, Insert
<1>3. ASSUME NEW c, c # "complianceProfiles", FreshRow(c, id, row)
      PROVE  \/ \E n \in 1..12 : DemoRows[n].in = c /\ DemoRows[n].id = id /\ DemoRows[n].row = row
             \/ c = "shifts" /\ LegacyShift(id) = <<Insert(c, id, row)>>
  BY <1>3 DEF FreshRow, Insert
<1>4. ASSUME FreshRow("shifts", id, row)
      PROVE  row = [assignmentId |-> "a-demo", date |-> 1, rateCardId |-> "rc-demo"]
  <2>1. LegacyShift(id) = <<Insert("shifts", id, row)>>
    BY <1>1, <1>3, <1>4
  <2>2. LegacyShift(id)[1].row = [assignmentId |-> "a-demo", date |-> 1, rateCardId |-> "rc-demo"]
    BY DEF LegacyShift, Insert
  <2>3. <<Insert("shifts", id, row)>>[1].row = row
    BY DEF Insert
  <2> QED BY <2>1, <2>2, <2>3
<1>5. FreshRow("placements", id, row) =>
        id = "pl-demo" /\ row = [providerOrganisationId |-> "o-demo", siteId |-> "s-demo", rateCardLineageId |-> "rc-demo"]
  BY <1>1, <1>2, <1>3
<1>6. FreshRow("rateCards", id, row) =>
        id = "rc-demo" /\ row = [workspaceId |-> "ws-agency", lineageId |-> "rc-demo", effectiveFrom |-> 1]
  BY <1>1, <1>2, <1>3
<1>7. FreshRow("engagements", id, row) => id = "e-demo"
  BY <1>1, <1>2, <1>3
<1> QED BY <1>4, <1>5, <1>6, <1>7

\* Once they are all there the demo rows are chained.
LEMMA DemoChained ==
  ASSUME NEW v, NEW local, NEW s, OnlyDemo(v, local, s), DemoIn(s, 12), IdsKnown
  PROVE  Chained(3, s) /\ Known(s)
<1>1. \A c \in Collections : \A id \in DOMAIN s[c] : FreshRow(c, id, s[c][id])
  BY DEF OnlyDemo
<1>2. /\ \A id \in DOMAIN s.shifts : FreshRow("shifts", id, s.shifts[id])
      /\ \A id \in DOMAIN s.rateCards : FreshRow("rateCards", id, s.rateCards[id])
      /\ \A id \in DOMAIN s.engagements : FreshRow("engagements", id, s.engagements[id])
      /\ \A id \in DOMAIN s.assignments : FreshRow("assignments", id, s.assignments[id])
      /\ \A id \in DOMAIN s.placements : FreshRow("placements", id, s.placements[id])
  BY <1>1 DEF Collections
<1>3. /\ "a-demo" \in DOMAIN s.assignments /\ "pl-demo" \in DOMAIN s.placements
      /\ "e-demo" \in DOMAIN s.engagements /\ "rc-demo" \in DOMAIN s.rateCards
  <2>1. /\ DemoRows[12].id \in DOMAIN s[DemoRows[12].in] /\ DemoRows[11].id \in DOMAIN s[DemoRows[11].in]
        /\ DemoRows[10].id \in DOMAIN s[DemoRows[10].in] /\ DemoRows[9].id \in DOMAIN s[DemoRows[9].in]
    BY DEF DemoIn
  <2> QED BY <2>1 DEF DemoRows, Insert
<1>4. \A a \in DOMAIN s.assignments :
        /\ a = "a-demo" /\ s.assignments[a].engagementId = "e-demo" /\ s.assignments[a].placementId = "pl-demo"
        /\ Get(s.assignments[a], "placementId") = "pl-demo" /\ Get(s.assignments[a], "rateCardLineageId") = Null
        /\ Get(s.assignments[a], "rateCardId") = Null /\ Get(s.assignments[a], "siteId") = Null
  BY <1>2, DemoRowsAre DEF Get
<1>5. \A e \in DOMAIN s.engagements :
        /\ Get(s.engagements[e], "providerOrganisationId") = "o-demo"
        /\ Get(s.engagements[e], "employerOrganisationId") = Null
        /\ Get(s.engagements[e], "organisationId") = Null
  BY <1>2, DemoRowsAre DEF Get
<1>6. \A p \in DOMAIN s.placements :
        /\ s.placements[p].providerOrganisationId = "o-demo" /\ s.placements[p].siteId = "s-demo"
        /\ s.placements[p].rateCardLineageId = "rc-demo"
  BY <1>2, DemoChainRows
<1>7. \A r \in DOMAIN s.rateCards :
        r = "rc-demo" /\ Get(s.rateCards[r], "lineageId") = "rc-demo" /\ s.rateCards[r].effectiveFrom = 1
  BY <1>2, DemoChainRows DEF Get
<1>8. \A h \in DOMAIN s.shifts :
        s.shifts[h].assignmentId = "a-demo" /\ s.shifts[h].date = 1 /\ s.shifts[h].rateCardId = "rc-demo"
  BY <1>2, DemoChainRows
<1>9. Null = "null"
  BY DEF Null
<1>10. AssignmentsPlaced(3, s)
  BY <1>3, <1>4, <1>5, <1>6, <1>9 DEF AssignmentsPlaced
<1>11. LineReached(s, "a-demo") = "rc-demo"
  BY <1>3, <1>4, <1>6, <1>9 DEF LineReached
<1>12. \A h \in DOMAIN s.shifts : "rc-demo" \in Pins(s, h, "rc-demo")
  BY <1>3, <1>7, <1>8 DEF Pins, EffectiveCards, VersionsBy
<1>13. PinsResolve(s)
  BY <1>3, <1>8, <1>9, <1>11, <1>12 DEF PinsResolve, Pinned
<1>14. CardsVersioned(s)
  BY <1>7, <1>9 DEF CardsVersioned, Filled
<1>15. Known(s)
  BY <1>4, <1>5, <1>6, <1>7 DEF Known, IdsKnown
<1> QED BY <1>10, <1>13, <1>14, <1>15 DEF Chained

LEMMA LinkedFinish ==
  ASSUME NEW local, NEW s, RowTypes(s), IsStore(local), IdsKnown, NEW v \in 0..13, Good(v, local, s),
         Linked(v, local, s), \A k \in 1..Len(PassesOf[v + 1]) : Done(local, PassesOf[v + 1][k], s)
  PROVE  Linked(v + 1, local, s)
<1>1. CASE v \in 0..1
  BY <1>1 DEF Linked
<1>2. CASE v = 2
  <2>1. Chained(2, local) /\ Known(local) /\ 2 + 1 = 3
    BY <1>2 DEF Linked
  <2>2. Early(2, local, s)
    BY <1>2 DEF Good
  <2>3. CASE OnlyDemo(2, local, s)
    <3>1. Chained(3, s) /\ Known(s)
      BY <2>3, DemoChained DEF OnlyDemo
    <3> QED BY <1>2, <3>1 DEF Linked
  <2>4. CASE OnlyCopies(2, local, s)
    <3>1. Moved(local, s)
      <4>1. Good(2 + 1, local, s)
        BY <1>2, EarlyFinish
      <4> QED BY <4>1 DEF Good, ShapeOf
    <3>2. ASSUME NEW c \in Collections PROVE s[c] = local[c]
      <4>1. DOMAIN s[c] = DOMAIN local[c] /\ \A id \in DOMAIN s[c] : s[c][id] = local[c][id]
        BY <2>4, <3>1 DEF OnlyCopies, Moved
      <4>2. IsFunction(s[c]) /\ IsFunction(local[c])
        BY DEF RowTypes, IsStore
      <4> QED BY <4>1, <4>2 DEF IsFunction
    <3>3. \A c \in ChainCols : s[c] = local[c]
      BY <3>2 DEF ChainCols, Collections
    <3>4. Chained(2, s) /\ Known(s)
      BY <2>1, <3>3, SameChains
    <3>5. Chained(2 + 1, s)
      BY <3>4, ChainedLater
    <3> QED BY <1>2, <2>1, <3>4, <3>5 DEF Linked
  <2> QED BY <2>2, <2>3, <2>4, EarlyIs
<1>3. CASE v \in 3..13
  BY <1>3, ChainedLater DEF Linked
<1> QED BY <1>1, <1>2, <1>3

-------------------------------------------------------------------------------
(***************************************************************************)
(* The invariant that keeps the chains                                     *)
(***************************************************************************)

LinkTab(x, v, local, s) == x.pc = "run" => Linking(v, local, x.pass, s, x.writes)

LinkInv ==
  /\ Inv /\ Linked(version, ls, db)
  /\ \A t \in Tabs : LinkTab(tab[t], version, ls, db)

LEMMA LinkedInitially ==
  ASSUME Init, IdsKnown
  PROVE  LinkInv
<1>1. PICK i \in Installs : version = i.version /\ ls = i.ls /\ db = i.db
  BY DEF Init
<1>2. /\ version \in 0..LastVersion /\ (version < 3 => db = Empty)
      /\ Chained(version, IF version < 3 THEN ls ELSE db)
      /\ Known(IF version < 3 THEN ls ELSE db)
  BY <1>1, InstallsAreSound, InstallsAreChained DEF IdsKnown
<1>3. ASSUME version >= 3 PROVE Linked(version, ls, db)
  BY <1>2, <1>3 DEF Linked, LastVersion
<1>4. ASSUME version \in 0..2 PROVE Linked(version, ls, db)
  <2>1. Chained(2, ls) /\ Known(ls)
    <3>1. version < 4
      BY <1>4
    <3> QED BY <1>2, <1>4, <3>1 DEF Chained, AssignmentsPlaced
  <2>2. \A c \in Collections : DOMAIN db[c] = {}
    BY <1>2, <1>4 DEF Empty, NoFields
  <2>3. InOrder(db)
    <3>1. \A n \in 1..12 : DemoRows[n].id \notin DOMAIN db[DemoRows[n].in]
      BY <2>2, DemoRowsDiffer
    <3>2. DOMAIN db.shifts = {}
      BY <2>2 DEF Collections
    <3> QED BY <3>1, <3>2 DEF InOrder
  <2> QED BY <1>4, <2>1, <2>3 DEF Linked
<1>5. \A t \in Tabs : LinkTab(tab[t], version, ls, db)
  BY DEF Init, Closed, LinkTab
<1>6. Linked(version, ls, db)
  BY <1>2, <1>3, <1>4 DEF LastVersion
<1> QED BY <1>5, <1>6, InvInitially DEF LinkInv

\* As for Inv: the links of the one tab that takes steps
LEMMA LinkOfTab ==
  ASSUME OneTab, NEW t \in Tabs, Inv', Linked(version', ls', db'), NEW x, x = tab'[t],
         LinkTab(x, version', ls', db')
  PROVE  LinkInv'
<1>1. \A u \in Tabs : u = t
  BY DEF OneTab
<1> QED BY <1>1 DEF LinkInv

\* A tab that has nothing to write, or does not run, keeps its links.
LEMMA NothingLinked ==
  ASSUME NEW x, NEW v, NEW local, NEW s, x.pc # "run" \/ x.writes = <<>>
  PROVE  LinkTab(x, v, local, s)
  BY DEF LinkTab, Linking

LEMMA LinkStep ==
  ASSUME OneTab, NamesAreNotNull, IdsApart, IdsKnown, LinkInv, [Next]_vars
  PROVE  LinkInv'
<1>0. /\ Inv /\ Inv' /\ TypeInv /\ TypeInv' /\ IsStore(ls) /\ RowTypes(db) /\ Good(version, ls, db)
      /\ Linked(version, ls, db)
      /\ \A t \in Tabs : /\ IsTab(tab[t]) /\ TabType(ls, tab[t]) /\ TabInv(tab[t], version, ls, db)
                         /\ LinkTab(tab[t], version, ls, db)
  BY InvStep, TypeStep DEF LinkInv, Inv, TypeInv, TabType
<1>1. CASE UNCHANGED vars
  <2>1. version' = version /\ ls' = ls /\ db' = db /\ tab' = tab
    BY <1>1 DEF vars
  <2> QED BY <1>0, <2>1 DEF LinkInv
<1>2. ASSUME NEW t \in Tabs, Boot(t) \/ BootDone(t) \/ Close(t) PROVE LinkInv'
  <2>1. version' = version /\ ls' = ls /\ db' = db
    BY <1>2 DEF Boot, BootDone, Close
  <2>2. PICK x, y : x = tab[t] /\ y = tab'[t]
    OBVIOUS
  <2>3. CASE BootDone(t)
    <3>1. y = [x EXCEPT !.pc = "up"] /\ IsTab(x)
      BY <1>0, <2>2, <2>3 DEF BootDone, TypeInv
    <3>2. y.pc # "run"
      BY <3>1 DEF IsTab
    <3>3. LinkTab(y, version, ls, db)
      BY <3>2, NothingLinked
    <3> QED BY <1>0, <2>1, <2>2, <3>3, LinkOfTab
  <2>4. CASE Boot(t) \/ Close(t)
    <3>1. y.pc # "run"
      <4>1. CASE Boot(t)
        BY <1>0, <2>2, <4>1 DEF Boot, Closed, TypeInv
      <4>2. CASE Close(t)
        BY <1>0, <2>2, <4>2 DEF Close, Closed, TypeInv
      <4> QED BY <2>4, <4>1, <4>2
    <3>2. LinkTab(y, version, ls, db)
      BY <3>1, NothingLinked
    <3> QED BY <1>0, <2>1, <2>2, <3>2, LinkOfTab
  <2> QED BY <1>2, <2>3, <2>4
<1>3. ASSUME NEW t \in Tabs, NextMigration(t) \/ NextPass(t) PROVE LinkInv'
  <2>1. version' = version /\ ls' = ls /\ db' = db
    BY <1>3 DEF NextMigration, NextPass
  <2>2. PICK x, y : x = tab[t] /\ y = tab'[t]
    OBVIOUS
  <2>3. IsTab(x) /\ x.writes = <<>>
    <3>1. tab[t].writes = <<>>
      <4>1. CASE NextMigration(t)
        <5>1. x.pc = "next" /\ TabType(ls, x)
          BY <1>0, <2>2, <4>1 DEF NextMigration
        <5> QED BY <2>2, <5>1 DEF TabType
      <4>2. CASE NextPass(t)
        BY <4>2 DEF NextPass, Between
      <4> QED BY <1>3, <4>1, <4>2
    <3> QED BY <1>0, <2>2, <3>1
  <2>4. y.writes = x.writes
    <3>1. CASE NextMigration(t)
      <4>1. y = [x EXCEPT !.pc = "run", !.pass = 0]
        BY <1>0, <2>2, <3>1 DEF NextMigration, TypeInv
      <4> QED BY <2>3, <4>1 DEF IsTab
    <3>2. CASE NextPass(t)
      <4>1. PICK k, todo : tab' = [tab EXCEPT ![t] = [@ EXCEPT !.pass = k, !.todo = todo]]
        BY <3>2 DEF NextPass
      <4>2. y = [x EXCEPT !.pass = k, !.todo = todo]
        BY <1>0, <2>2, <4>1 DEF TypeInv
      <4> QED BY <2>3, <4>2 DEF IsTab
    <3> QED BY <1>3, <3>1, <3>2
  <2>5. LinkTab(y, version, ls, db)
    BY <2>3, <2>4, NothingLinked
  <2> QED BY <1>0, <2>1, <2>2, <2>5, LinkOfTab
<1>4. ASSUME NEW t \in Tabs, Visit(t) PROVE LinkInv'
  <2>1. version' = version /\ ls' = ls /\ db' = db /\ tab[t].pc = "run" /\ tab[t].writes = <<>>
    BY <1>4 DEF Visit
  <2>2. PICK x, y : x = tab[t] /\ y = tab'[t]
    OBVIOUS
  <2>3. /\ IsTab(x) /\ x.pc = "run" /\ x.writes = <<>> /\ x.current = version
        /\ x.pass \in 0..Len(PassesOf[version + 1]) /\ version \in 0..13 /\ version + 1 \in 1..LastVersion
        /\ x.todo # {} => x.pass # 0
        /\ TabInv(x, version, ls, db)
    <3>1. TabType(ls, x) /\ TabInv(x, version, ls, db) /\ x.pc = "run" /\ x.writes = <<>>
      BY <1>0, <2>1, <2>2
    <3>2. TabType(ls, x) /\ x.current = version /\ x.pc = "run"
      BY <3>1 DEF TabInv, TabType
    <3> QED BY <3>1, <3>2 DEF TabType, LastVersion
  <2> DEFINE k == x.pass
             p == PassesOf[version + 1][k]
  <2>4. PICK i \in x.todo :
          tab' = [tab EXCEPT ![t] = [@ EXCEPT !.todo = x.todo \ {i}, !.writes = WritesOf(p.does, i)]]
    BY <1>4, <2>2, <2>3 DEF Visit, Passes
  <2> HIDE DEF p
  <2>5. PICK q : q = WritesOf(p.does, i)
    OBVIOUS
  <2>6. y = [x EXCEPT !.todo = x.todo \ {i}, !.writes = q]
    BY <1>0, <2>2, <2>4, <2>5 DEF TypeInv
  <2>7. y.pc = "run" /\ y.pass = k /\ y.writes = q
    BY <2>3, <2>6 DEF IsTab
  <2>8. k \in 1..Len(PassesOf[version + 1]) /\ k # 0
    <3>1. Len(PassesOf[version + 1]) \in Nat
      BY <2>3, PassesAre
    <3> QED BY <2>3, <2>4, <3>1
  <2>9. /\ InPass(version, ls, k, p, db, x.todo, <<>>)
        /\ \A j \in 1..(k - 1) : Done(ls, PassesOf[version + 1][j], db)
    BY <2>3, <2>8 DEF TabInv, p
  <2>10. i.id \in Targets(ls, p, db) /\ i = Item(ls, p, db, i.id)
    BY <2>4, <2>9 DEF InPass
  <2>11. Linking(version, ls, k, db, WritesOf(p.does, Item(ls, p, db, i.id)))
    BY <1>0, <2>3, <2>8, <2>9, <2>10, AllLinked DEF p
  <2>12. Linking(version, ls, k, db, q)
    BY <2>5, <2>10, <2>11
  <2>13. LinkTab(y, version, ls, db)
    <3> HIDE DEF k
    <3> QED BY <2>7, <2>12 DEF LinkTab
  <2> QED BY <1>0, <2>1, <2>2, <2>13, LinkOfTab
<1>5. ASSUME NEW t \in Tabs, Write(t) PROVE LinkInv'
  <2>1. version' = version /\ ls' = ls /\ tab[t].writes # <<>>
    BY <1>5 DEF Write
  <2>2. PICK x, y : x = tab[t] /\ y = tab'[t]
    OBVIOUS
  <2>3. /\ IsTab(x) /\ x.pc = "run" /\ x.writes # <<>> /\ version \in 0..13
        /\ Linking(version, ls, x.pass, db, x.writes) /\ Typed(x.writes)
    <3>1. TabType(ls, x) /\ TabInv(x, version, ls, db) /\ x.writes # <<>> /\ LinkTab(x, version, ls, db)
      BY <1>0, <2>1, <2>2
    <3>2. TabType(ls, x) /\ x.current = version /\ x.pc = "run"
      BY <3>1 DEF TabInv, TabType
    <3> QED BY <3>1, <3>2 DEF TabType, LastVersion, LinkTab
  <2> DEFINE k == x.pass
             q == x.writes
             w == Head(q)
  <2>4. WriteType(w)
    BY <2>3, SequenceIs DEF Typed
  <2>5. CASE (w.op = "insert") = (w.id \in DOMAIN db[w.in])
    <3>1. y.pc = "failed" /\ UNCHANGED db
      BY <1>0, <1>5, <2>2, <2>5 DEF Write, Closed, TypeInv
    <3>2. LinkTab(y, version, ls, db)
      BY <3>1, NothingLinked
    <3> QED BY <1>0, <2>1, <2>2, <3>1, <3>2, LinkOfTab
  <2>6. CASE (w.op = "insert") # (w.id \in DOMAIN db[w.in])
    <3>1. RowTypes(db') /\ Written(db, w, db')
      BY <1>0, <1>5, <2>2, <2>4, <2>6, WrittenRows DEF Write
    <3>2. y = [x EXCEPT !.writes = Tail(q)]
      BY <1>0, <1>5, <2>2, <2>6 DEF Write, TypeInv
    <3>3. PICK r : r = Tail(q)
      OBVIOUS
    <3>4. y.pass = k /\ y.writes = r
      BY <2>3, <3>2, <3>3 DEF IsTab
    <3>5. IsSeq(q)
      BY <2>3 DEF Typed
    <3> HIDE DEF q, k
    <3>6. PICK s2 : s2 = db'
      OBVIOUS
    <3>7. Linking(version, ls, k, db, q) /\ q # <<>>
      BY <2>3 DEF q, k
    <3>8. Linked(version, ls, s2) /\ Linking(version, ls, k, s2, r)
      BY <1>0, <2>3, <3>1, <3>3, <3>5, <3>6, <3>7, LinkingWritten
    <3>9. LinkTab(y, version, ls, s2)
      BY <3>4, <3>8 DEF LinkTab
    <3> QED BY <1>0, <2>1, <2>2, <3>6, <3>8, <3>9, LinkOfTab
  <2> QED BY <2>5, <2>6
<1>6. ASSUME NEW t \in Tabs, FinishMigration(t) PROVE LinkInv'
  <2>1. /\ ls' = ls /\ db' = db /\ tab[t].pc = "run" /\ tab[t].todo = {} /\ tab[t].writes = <<>>
        /\ tab[t].pass = Len(PassesOf[tab[t].current + 1]) /\ version' = tab[t].current + 1
    BY <1>6 DEF FinishMigration, Between, Passes
  <2>2. PICK x, y : x = tab[t] /\ y = tab'[t]
    OBVIOUS
  <2>3. /\ IsTab(x) /\ x.pc = "run" /\ x.todo = {} /\ x.writes = <<>> /\ x.current = version
        /\ x.pass = Len(PassesOf[version + 1]) /\ version \in 0..13 /\ version + 1 \in 1..LastVersion
        /\ TabInv(x, version, ls, db) /\ version' = version + 1
    <3>1. /\ TabType(ls, x) /\ TabInv(x, version, ls, db) /\ x.pc = "run" /\ x.todo = {} /\ x.writes = <<>>
          /\ x.pass = Len(PassesOf[x.current + 1]) /\ version' = x.current + 1
      BY <1>0, <2>1, <2>2
    <3>2. TabType(ls, x) /\ x.current = version
      BY <3>1 DEF TabInv
    <3> QED BY <3>1, <3>2 DEF TabType, LastVersion
  <2>4. Len(PassesOf[version + 1]) \in Nat
    BY <2>3, PassesAre
  <2>5. y = [x EXCEPT !.pc = "next", !.current = version + 1]
    BY <1>0, <1>6, <2>2, <2>3 DEF FinishMigration, TypeInv
  <2>6. y.pc = "next"
    BY <2>3, <2>5 DEF IsTab
  <2>7. ASSUME NEW j \in 1..Len(PassesOf[version + 1]) PROVE Done(ls, PassesOf[version + 1][j], db)
    <3>1. CASE j = x.pass
      <4>1. InPass(version, ls, x.pass, PassesOf[version + 1][x.pass], db, {}, <<>>)
        BY <2>3, <2>4, <3>1 DEF TabInv
      <4> QED BY <3>1, <4>1, PassEnds
    <3>2. CASE j # x.pass
      <4>1. j \in 1..(x.pass - 1)
        BY <2>3, <2>4, <3>2
      <4> QED BY <2>3, <4>1 DEF TabInv
    <3> QED BY <3>1, <3>2
  <2>8. Linked(version + 1, ls, db)
    BY <1>0, <2>3, <2>7, LinkedFinish
  <2>9. LinkTab(y, version + 1, ls, db)
    BY <2>6, NothingLinked
  <2> QED BY <1>0, <2>1, <2>2, <2>3, <2>8, <2>9, LinkOfTab
<1> QED BY <1>1, <1>2, <1>3, <1>4, <1>5, <1>6 DEF Next, Step

\* Before 003 is done too, an assignment that has a placement agrees with it.
LEMMA PlacedEarly ==
  ASSUME NEW v \in 0..2, NEW local, NEW s, Good(v, local, s), Linked(v, local, s), IdsKnown
  PROVE  AssignmentsPlaced(3, s)
<1>1. OnlyDemo(v, local, s) \/ OnlyCopies(v, local, s)
  BY EarlyIs DEF Good
<1>2. ASSUME NEW a \in DOMAIN s.assignments, Get(s.assignments[a], "placementId") # Null, OnlyDemo(v, local, s)
      PROVE  AssignmentsPlaced(3, s)
  <2>1. a = "a-demo"
    <3>1. FreshRow("assignments", a, s.assignments[a])
      BY <1>2 DEF OnlyDemo, Collections
    <3> QED BY <3>1, DemoRowsAre
  <2>2. DemoRows[12].id \in DOMAIN s[DemoRows[12].in]
    BY <2>1 DEF DemoRows, Insert
  <2>3. InOrder(s)
    BY <1>2 DEF Linked, OnlyDemo, NothingToCopy
  <2>4. DemoIn(s, 12)
    BY <2>2, <2>3 DEF InOrder
  <2> QED BY <1>2, <2>4, DemoChained DEF Chained
<1>3. ASSUME NEW a \in DOMAIN s.assignments, Get(s.assignments[a], "placementId") # Null, OnlyCopies(v, local, s)
      PROVE  FALSE
  <2>1. a \in DOMAIN local.assignments /\ s.assignments[a] = local.assignments[a]
    BY <1>3 DEF OnlyCopies, Collections
  <2>2. AssignmentsPlaced(2, local)
    BY DEF Linked, Chained
  <2>3. local.assignments[a].placementId \in DOMAIN local.placements
    BY <1>3, <2>1, <2>2 DEF AssignmentsPlaced
  <2>4. local.placements = NoFields
    BY <1>3 DEF OnlyCopies, Collections, Copied
  <2> QED BY <2>3, <2>4 DEF NoFields
<1>4. (\A a \in DOMAIN s.assignments : Get(s.assignments[a], "placementId") = Null) => AssignmentsPlaced(3, s)
  BY DEF AssignmentsPlaced
<1> QED BY <1>1, <1>2, <1>3, <1>4

LEMMA LinksTell ==
  ASSUME LinkInv, IdsKnown
  PROVE  ChainsResolve
<1>1. /\ version \in 0..LastVersion /\ Good(version, ls, db) /\ Linked(version, ls, db)
  BY DEF LinkInv, Inv, TypeInv
<1>2. PICK v : AssignmentsPlaced(v, db)
  <2>1. CASE version \in 0..2
    BY <1>1, <2>1, PlacedEarly
  <2>2. CASE version \in 3..14
    BY <1>1, <2>2 DEF Linked, Chained
  <2> QED BY <1>1, <2>1, <2>2 DEF LastVersion
<1>3. ASSUME NEW a \in DOMAIN db.assignments, Get(db.assignments[a], "placementId") # Null
      PROVE  LET row == db.assignments[a]
                 placement == db.placements[row.placementId]
             IN /\ row.placementId \in DOMAIN db.placements
                /\ placement.providerOrganisationId =
                     db.engagements[row.engagementId].providerOrganisationId
                /\ Get(row, "rateCardLineageId") \in {Null, placement.rateCardLineageId}
  BY <1>2, <1>3 DEF AssignmentsPlaced, Get
<1>4. ASSUME version >= 8, NEW h \in Pinned(db)
      PROVE  LET row == db.shifts[h]
                 placement == db.placements[db.assignments[row.assignmentId].placementId]
             IN row.rateCardId \in Pins(db, h, placement.rateCardLineageId)
  <2>1. PlacementsAdded(db) /\ PinsResolve(db)
    BY <1>1, <1>4 DEF Good, ShapeOf, Linked, Chained, LastVersion
  <2>2. PICK a : a = db.shifts[h].assignmentId
    OBVIOUS
  <2>3. a \in DOMAIN db.assignments /\ db.shifts[h].rateCardId \in Pins(db, h, LineReached(db, a))
    BY <1>4, <2>1, <2>2 DEF PinsResolve
  <2>4. LineReached(db, a) = db.placements[db.assignments[a].placementId].rateCardLineageId
    BY <2>1, <2>3 DEF PlacementsAdded, Filled, LineReached
  <2> QED BY <2>2, <2>3, <2>4
<1> QED BY <1>3, <1>4 DEF ChainsResolve

\* History survives the upgrade, whatever the one tab's boots were cut short at: an
\* assignment's placement agrees with what 008 made it of, and each pinned shift keeps a
\* version, begun by its date, of the line it reaches through that placement (004, 006,
\* 008 and every rerun of them).
THEOREM ChainsHold ==
  ASSUME OneTab, NamesAreNotNull, IdsApart, IdsKnown
  PROVE  Spec => []ChainsResolve
<1>1. Init => LinkInv
  BY LinkedInitially
<1>2. LinkInv /\ [Next]_vars => LinkInv'
  BY LinkStep
<1>3. LinkInv => ChainsResolve
  BY LinksTell
<1> QED BY <1>1, <1>2, <1>3, PTL DEF Spec

================================================================================
