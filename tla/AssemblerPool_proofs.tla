------------------------ MODULE AssemblerPool_proofs -------------------------
(***************************************************************************)
(* Proofs about the constant pool of Assembler: the types of its state,    *)
(* and what the linker expects of a pool.                                  *)
(***************************************************************************)
EXTENDS Assembler_proofs

(* An entry has a type, and keeps it whatever is written over it.          *)
EntryTypes == {"proc", "reg", "expose"}
IsPool(p) == IsList(p) /\ \A e \in DOMAIN p : "type" \in DOMAIN p[e] /\ p[e].type \in EntryTypes
Keeps(p, q) == IsPool(q) /\ DOMAIN p \subseteq DOMAIN q /\ \A e \in DOMAIN p : q[e].type = p[e].type

LEMMA KeepsAll == ASSUME NEW p, NEW q, NEW r, Keeps(p, q), Keeps(q, r) PROVE Keeps(p, r)
BY DEF Keeps

LEMMA AppendKeeps ==
  ASSUME NEW p, IsPool(p), NEW x, "type" \in DOMAIN x, x.type \in EntryTypes
  PROVE  /\ Keeps(p, Append(p, x)) /\ DOMAIN Append(p, x) = DOMAIN p \cup {Len(p) + 1} /\ Len(p) + 1 \notin DOMAIN p
         /\ \A e \in DOMAIN p : Append(p, x)[e] = p[e]
         /\ Append(p, x)[Len(p) + 1] = x
<1> DEFINE q == Append(p, x)
<1>1. /\ IsList(q) /\ DOMAIN q = 1 .. Len(p) + 1 /\ DOMAIN p = 1 .. Len(p) /\ Len(p) \in Nat
      /\ \A e \in DOMAIN p : q[e] = p[e]
      /\ q[Len(p) + 1] = x
  BY AppendList DEF IsPool
<1> HIDE DEF q
<1>2. DOMAIN q = DOMAIN p \cup {Len(p) + 1} /\ Len(p) + 1 \notin DOMAIN p
  BY <1>1
<1>3. Keeps(p, q)
  BY <1>1, <1>2 DEF Keeps, IsPool
<1>. QED
  BY <1>1, <1>2, <1>3 DEF q

LEMMA WriteKeeps ==
  ASSUME NEW p, IsPool(p), NEW e \in DOMAIN p, NEW fields,
         "type" \in DOMAIN fields => fields.type = p[e].type
  PROVE  /\ Keeps(p, Write(p, e, fields)) /\ DOMAIN Write(p, e, fields) = DOMAIN p
         /\ \A d \in DOMAIN p \ {e} : Write(p, e, fields)[d] = p[d]
         /\ Write(p, e, fields)[e] = Over(p[e], fields)
<1> DEFINE q == Write(p, e, fields)
           x == Over(p[e], fields)
<1>1. /\ IsList(q) /\ DOMAIN q = DOMAIN p /\ q[e] = x
      /\ \A d \in DOMAIN p \ {e} : q[d] = p[d]
  BY WriteList DEF IsPool
<1>2. "type" \in DOMAIN x /\ x.type = p[e].type
  BY DEF Over, IsPool
<1> HIDE DEF q, x
<1>3. Keeps(p, q)
  BY <1>1, <1>2 DEF Keeps, IsPool
<1>. QED
  BY <1>1, <1>3 DEF q, x

-----------------------------------------------------------------------------
(* The entries that procedures have                                        *)

ProcsPlaced ==
  \A name \in DOMAIN procs : procs[name].index \in DOMAIN pool /\ pool[procs[name].index].type = "proc"
PoolShape == IsPool(pool) /\ ProcsPlaced

ProcFields == {"type", "name", "locals", "start", "exposed"}

(* What is written for a procedure that was not defined.                   *)
LEMMA DefinedOnce ==
  ASSUME PoolShape, NEW name, ~ Duplicate(name), NEW n, NEW start
  PROVE  LET q == Defined(name, n, start)
             e == EntryOf(name)
         IN  /\ Keeps(pool, q) /\ DOMAIN q = DOMAIN pool \cup {e} /\ (e \in DOMAIN pool => Known(name))
             /\ \A d \in DOMAIN pool \ {e} : q[d] = pool[d]
             /\ ProcFields \subseteq DOMAIN q[e]
             /\ q[e].type = "proc" /\ q[e].name = name /\ q[e].locals = n /\ q[e].start = start /\ q[e].exposed = NONE
<1> DEFINE q == Defined(name, n, start)
           e == EntryOf(name)
           x == ProcEntry(name, n, start)
<1>1. DOMAIN x = ProcFields /\ x.type = "proc" /\ x.name = name /\ x.locals = n /\ x.start = start /\ x.exposed = NONE
  BY DEF ProcEntry, ProcFields
<1>2. CASE Known(name)
  <2>1. q = Write(pool, e, x) /\ e = procs[name].index
    BY <1>2 DEF Defined, EntryOf
  <2>2. e \in DOMAIN pool /\ pool[e].type = "proc"
    BY <1>2, <2>1 DEF PoolShape, ProcsPlaced, Known
  <2> DEFINE y == Over(pool[e], x)
  <2> HIDE DEF q, e, x
  <2>3. DOMAIN y = DOMAIN pool[e] \cup ProcFields /\ \A f \in ProcFields : y[f] = x[f]
    BY <1>1 DEF Over
  <2>4. /\ y.type = "proc" /\ y.name = name /\ y.locals = n /\ y.start = start /\ y.exposed = NONE
        /\ ProcFields \subseteq DOMAIN y
    BY <1>1, <2>3 DEF ProcFields
  <2>5. Keeps(pool, q) /\ DOMAIN q = DOMAIN pool /\ q[e] = y /\ \A d \in DOMAIN pool \ {e} : q[d] = pool[d]
    BY <1>1, <2>1, <2>2, WriteKeeps DEF PoolShape
  <2>. QED
    BY <1>2, <2>2, <2>4, <2>5 DEF q, e
<1>3. CASE ~ Known(name)
  <2>1. q = Append(pool, x) /\ e = Len(pool) + 1
    BY <1>3 DEF Defined, EntryOf, Duplicate
  <2>2. "type" \in DOMAIN x /\ x.type \in EntryTypes
    BY <1>1 DEF ProcFields, EntryTypes
  <2> HIDE DEF q, e, x
  <2>3. Keeps(pool, q) /\ DOMAIN q = DOMAIN pool \cup {e} /\ e \notin DOMAIN pool /\ q[e] = x
        /\ \A d \in DOMAIN pool \ {e} : q[d] = pool[d]
    BY <2>1, <2>2, AppendKeeps DEF PoolShape
  <2>. QED
    BY <1>1, <2>3 DEF q, e
<1>. QED
  BY <1>2, <1>3

(* A duplicate definition writes over the first entry, whatever it is.     *)
LEMMA DefinedAgainKeeps ==
  ASSUME PoolShape, NEW name, Duplicate(name), NEW n, NEW start
  PROVE  Keeps(pool, Defined(name, n, start)) /\ EntryOf(name) \in DOMAIN Defined(name, n, start)
<1>1. 1 \in DOMAIN pool
  <2>1. procs[name].index \in DOMAIN pool
    BY DEF Duplicate, Known, PoolShape, ProcsPlaced
  <2>2. DOMAIN pool = 1 .. Len(pool) /\ Len(pool) \in Nat
    BY DEF PoolShape, IsPool, IsList
  <2>. QED
    BY <2>1, <2>2
<1> DEFINE fields == [locals |-> n, start |-> start]
<1>2. Defined(name, n, start) = Write(pool, 1, fields) /\ EntryOf(name) = 1
  BY DEF Defined, EntryOf
<1>3. "type" \notin DOMAIN fields
  OBVIOUS
<1> HIDE DEF fields
<1>4. Keeps(pool, Write(pool, 1, fields)) /\ DOMAIN Write(pool, 1, fields) = DOMAIN pool
  BY <1>1, <1>3, WriteKeeps DEF PoolShape
<1>. QED
  BY <1>1, <1>2, <1>4

(* The entry of the exposed symbol is the only one that is new.            *)
AddsExposed(q, r, e, index, imported) ==
  /\ Keeps(q, r) /\ DOMAIN r = DOMAIN q \cup {Len(q) + 1} /\ Len(q) + 1 \notin DOMAIN q
  /\ \A d \in DOMAIN q \ {e} : r[d] = q[d]
  /\ \A f \in DOMAIN q[e] \ {"exposed"} : r[e][f] = q[e][f]
  /\ r[e] = q[e] \/ r[e].exposed = Len(q) + 1
  /\ r[Len(q) + 1] = [type |-> "expose", index |-> index, procedure |-> e, imported |-> imported]

LEMMA ExposedAdds ==
  ASSUME NEW q, IsPool(q), NEW e \in DOMAIN q, NEW index, NEW imported, NEW moved
  PROVE  AddsExposed(q, Exposed(q, e, index, imported, moved), e, index, imported)
<1> DEFINE x == Len(q) + 1
           new == [type |-> "expose", index |-> index, procedure |-> e, imported |-> imported]
           told == IF moved THEN q ELSE Write(q, e, [exposed |-> x])
           r == Exposed(q, e, index, imported, moved)
           fields == [exposed |-> x]
<1>1. r = Append(told, new) /\ "type" \in DOMAIN new /\ new.type \in EntryTypes
  BY DEF Exposed, EntryTypes
<1>2. /\ Keeps(q, told) /\ DOMAIN told = DOMAIN q /\ Len(told) = Len(q)
      /\ \A d \in DOMAIN q \ {e} : told[d] = q[d]
      /\ told[e] = q[e] \/ told[e] = Over(q[e], fields)
  <2>1. CASE moved
    BY <2>1 DEF Keeps
  <2>2. CASE ~ moved
    <3>1. told = Write(q, e, fields) /\ "type" \notin DOMAIN fields
      BY <2>2
    <3> HIDE DEF told, fields
    <3>2. Keeps(q, told) /\ DOMAIN told = DOMAIN q /\ told[e] = Over(q[e], fields)
          /\ \A d \in DOMAIN q \ {e} : told[d] = q[d]
      BY <3>1, WriteKeeps
    <3>3. Len(told) = Len(q)
      BY <3>1, WriteList DEF IsPool
    <3>. QED
      BY <3>2, <3>3
  <2>. QED
    BY <2>1, <2>2
<1>3. DOMAIN fields = {"exposed"} /\ fields.exposed = x
  OBVIOUS
<1> DEFINE y == Over(q[e], fields)
<1>4. y.exposed = x /\ \A f \in DOMAIN q[e] \ {"exposed"} : y[f] = q[e][f]
  BY <1>3 DEF Over
<1> HIDE DEF told, new, r, x, fields, y
<1>5. /\ Keeps(told, r) /\ DOMAIN r = DOMAIN told \cup {x} /\ x \notin DOMAIN told /\ r[x] = new
      /\ \A d \in DOMAIN told : r[d] = told[d]
  <2>1. IsPool(told) /\ x = Len(told) + 1
    BY <1>2 DEF Keeps, x
  <2>. QED
    BY <1>1, <2>1, AppendKeeps
<1>6. Keeps(q, r)
  BY <1>2, <1>5, KeepsAll
<1>7. told[e] = q[e] \/ told[e] = y
  BY <1>2 DEF y
<1>8. r[e] = told[e]
  BY <1>2, <1>5
<1>9. /\ DOMAIN r = DOMAIN q \cup {x} /\ x \notin DOMAIN q /\ r[x] = new
      /\ \A d \in DOMAIN q \ {e} : r[d] = q[d]
      /\ \A f \in DOMAIN q[e] \ {"exposed"} : r[e][f] = q[e][f]
      /\ r[e] = q[e] \/ r[e].exposed = x
  BY <1>2, <1>4, <1>5, <1>7, <1>8
<1>10. AddsExposed(q, r, e, index, imported)
  BY <1>6, <1>9 DEF AddsExposed, x, new
<1>. QED
  BY <1>10 DEF r

-----------------------------------------------------------------------------
(* What is right about the pool of a module without an error so far.       *)

(* A procedure has the entry that its tree names, and no other.            *)
OwnEntry ==
  /\ \A name \in DOMAIN procs : pool[procs[name].index].name = name
  /\ \A e \in Entries({"proc"}) : pool[e].name \in DOMAIN procs /\ procs[pool[e].name].index = e
IndicesKnown ==
  /\ \A e \in Entries({"reg", "expose"}) : pool[e].index \in externs
  /\ \A d, e \in Entries({"reg", "expose"}) : pool[d].index = pool[e].index => d = e
ImportedRight(entry, procedure) == entry.imported = (procedure.start = NONE)
SaidExposed(lines, name, index) == \E t \in lines : t.name = name /\ t.index = index
IsDefined(tree, name) == name \in DOMAIN tree /\ tree[name].defined
ExposedLines == Read({".expproc", ".declare"})
ExposedKnown ==
  \A e \in Entries({"expose"}) :
    LET d == pool[e].procedure IN
    /\ d \in Entries({"proc"}) /\ IsDefined(procs, pool[d].name)
    /\ ImportedRight(pool[e], pool[d]) /\ SaidExposed(ExposedLines, pool[d].name, pool[e].index)
ToldWhere ==
  \A e \in Entries({"proc"}) : pool[e].exposed # NONE =>
    pool[e].exposed \in Entries({"expose"}) /\ pool[pool[e].exposed].procedure = e
(* A line that exposes a procedure has its entry, and the entry of a       *)
(* register has its line.                                                  *)
ExposedFound ==
  \A t \in ExposedLines : \E e \in Entries({"expose"}) :
    pool[e].index = t.index /\ pool[pool[e].procedure].name = t.name
RegisterLines == Read({".exposereg"})
SaidRegister(lines, entry) == \E t \in lines : t.n = entry.global /\ t.index = entry.index
RegistersKnown == \A e \in Entries({"reg"}) : SaidRegister(RegisterLines, pool[e])
PoolRight == OwnEntry /\ IndicesKnown /\ ExposedKnown /\ ToldWhere /\ ExposedFound /\ RegistersKnown

(* A procedure gets its entry, or has it written again, and at most one    *)
(* entry says that it is exposed.                                          *)
NewEntries(e) == DOMAIN pool' \ (DOMAIN pool \cup {e})
Places(name, e) ==
  /\ IsPool(pool') /\ DOMAIN pool \cup {e} \subseteq DOMAIN pool'
  /\ e \in DOMAIN pool => name \in DOMAIN procs /\ procs[name].index = e
  /\ \A d \in DOMAIN pool \ {e} : pool'[d] = pool[d]
  /\ pool'[e].type = "proc" /\ pool'[e].name = name
  /\ pool'[e].exposed # NONE => pool'[e].exposed \in NewEntries(e)
  /\ \A d \in NewEntries(e) : pool'[d].type = "expose" /\ pool'[d].procedure = e
  /\ \A c, d \in NewEntries(e) : c = d
  /\ DOMAIN procs' = DOMAIN procs \cup {name} /\ procs'[name].index = e
  /\ \A x \in DOMAIN procs : procs'[x].index = procs[x].index

(* What the exposed entry of a procedure says.                             *)
Exposes(name, e) ==
  \A d \in NewEntries(e) :
    /\ pool'[d].index \in externs' \ externs /\ IsDefined(procs', name)
    /\ ImportedRight(pool'[d], pool'[e]) /\ SaidExposed(ExposedLines', name, pool'[d].index)

LEMMA PlacesShape == ASSUME PoolShape, NEW name, NEW e, Places(name, e) PROVE PoolShape'
<1>1. /\ IsPool(pool') /\ DOMAIN pool \cup {e} \subseteq DOMAIN pool'
      /\ \A d \in DOMAIN pool \ {e} : pool'[d] = pool[d]
      /\ pool'[e].type = "proc"
      /\ DOMAIN procs' = DOMAIN procs \cup {name} /\ procs'[name].index = e
      /\ \A x \in DOMAIN procs : procs'[x].index = procs[x].index
  BY DEF Places
<1>2. ASSUME NEW x \in DOMAIN procs'
      PROVE  procs'[x].index \in DOMAIN pool' /\ pool'[procs'[x].index].type = "proc"
  <2>1. CASE x = name
    BY <1>1, <2>1
  <2>2. CASE x # name
    <3>1. x \in DOMAIN procs /\ procs'[x].index = procs[x].index
      BY <1>1, <2>2
    <3>2. procs[x].index \in DOMAIN pool /\ pool[procs[x].index].type = "proc"
      BY <3>1 DEF PoolShape, ProcsPlaced
    <3>. QED
      BY <1>1, <3>1, <3>2
  <2>. QED
    BY <2>1, <2>2
<1>. QED
  BY <1>1, <1>2 DEF PoolShape, ProcsPlaced

LEMMA PlacesRight ==
  ASSUME PoolShape, PoolRight, NEW name, NEW e, Places(name, e), Exposes(name, e), ~ IsDefined(procs, name),
         \A x : IsDefined(procs, x) => IsDefined(procs', x), externs \subseteq externs',
         ExposedLines \subseteq ExposedLines', RegisterLines \subseteq RegisterLines',
         \A t \in ExposedLines' \ ExposedLines :
           t.name = name /\ \E d \in NewEntries(e) : pool'[d].index = t.index
  PROVE  /\ PoolRight'
         /\ \A x \in DOMAIN procs \ {name} : pool'[procs'[x].index] = pool[procs[x].index]
<1>1. /\ DOMAIN pool \cup {e} \subseteq DOMAIN pool'
      /\ e \in DOMAIN pool => name \in DOMAIN procs /\ procs[name].index = e
      /\ \A d \in DOMAIN pool \ {e} : pool'[d] = pool[d]
      /\ pool'[e].type = "proc" /\ pool'[e].name = name
      /\ pool'[e].exposed # NONE => pool'[e].exposed \in NewEntries(e)
      /\ \A d \in NewEntries(e) : pool'[d].type = "expose" /\ pool'[d].procedure = e
      /\ \A c, d \in NewEntries(e) : c = d
      /\ DOMAIN procs' = DOMAIN procs \cup {name} /\ procs'[name].index = e
      /\ \A x \in DOMAIN procs : procs'[x].index = procs[x].index
      /\ \A d \in DOMAIN pool' : d \in DOMAIN pool \ {e} \/ d = e \/ d \in NewEntries(e)
  BY DEF Places, NewEntries
<1>2. e \in DOMAIN pool => pool[e].type = "proc" /\ pool[e].name = name
  BY <1>1 DEF PoolRight, OwnEntry, PoolShape, ProcsPlaced
<1>3. \A x \in DOMAIN procs \ {name} : procs[x].index \in DOMAIN pool \ {e}
  BY <1>2 DEF PoolRight, OwnEntry, PoolShape, ProcsPlaced
<1>4. \A types : Entries(types)' = {d \in DOMAIN pool' : pool'[d].type \in types}
  BY DEF Entries
<1>5. OwnEntry'
  <2>1. \A x \in DOMAIN procs' : pool'[procs'[x].index].name = x
    BY <1>1, <1>3 DEF PoolRight, OwnEntry
  <2>2. ASSUME NEW d \in DOMAIN pool', pool'[d].type = "proc"
        PROVE  pool'[d].name \in DOMAIN procs' /\ procs'[pool'[d].name].index = d
    <3>1. CASE d = e
      BY <1>1, <3>1
    <3>2. CASE d # e
      <4>1. d \in DOMAIN pool /\ pool'[d] = pool[d]
        BY <1>1, <2>2, <3>2
      <4>2. pool[d].name \in DOMAIN procs /\ procs[pool[d].name].index = d
        BY <2>2, <4>1 DEF PoolRight, OwnEntry, Entries
      <4>. QED
        BY <1>1, <4>1, <4>2
    <3>. QED
      BY <3>1, <3>2
  <2>. QED
    BY <1>4, <2>1, <2>2 DEF OwnEntry
<1>6. ASSUME NEW d \in DOMAIN pool', pool'[d].type \in {"reg", "expose"}
      PROVE  \/ d \in Entries({"reg", "expose"}) /\ pool'[d] = pool[d]
             \/ d \in NewEntries(e)
  BY <1>1, <1>6 DEF Entries
<1>7. IndicesKnown'
  <2>1. \A d \in Entries({"reg", "expose"}) : pool[d].index \in externs
    BY DEF PoolRight, IndicesKnown
  <2>2. \A c, d \in Entries({"reg", "expose"}) : pool[c].index = pool[d].index => c = d
    BY DEF PoolRight, IndicesKnown
  <2>3. \A d \in NewEntries(e) : pool'[d].index \in externs' /\ pool'[d].index \notin externs
    BY DEF Exposes
  <2>4. ASSUME NEW c \in DOMAIN pool', pool'[c].type \in {"reg", "expose"},
               NEW d \in DOMAIN pool', pool'[d].type \in {"reg", "expose"}, pool'[c].index = pool'[d].index
        PROVE  c = d
    BY <1>1, <1>6, <2>1, <2>2, <2>3, <2>4
  <2>5. ASSUME NEW d \in DOMAIN pool', pool'[d].type \in {"reg", "expose"}
        PROVE  pool'[d].index \in externs'
    BY <1>6, <2>1, <2>3, <2>5
  <2>. QED
    BY <1>4, <2>4, <2>5 DEF IndicesKnown
<1>8. ExposedKnown'
  <2>1. ASSUME NEW c \in DOMAIN pool', pool'[c].type = "expose"
        PROVE  LET d == pool'[c].procedure IN
               /\ d \in DOMAIN pool' /\ pool'[d].type = "proc" /\ IsDefined(procs', pool'[d].name)
               /\ ImportedRight(pool'[c], pool'[d]) /\ SaidExposed(ExposedLines', pool'[d].name, pool'[c].index)
    <3>1. CASE c \in NewEntries(e)
      BY <1>1, <3>1 DEF Exposes
    <3>2. CASE c \notin NewEntries(e)
      <4>1. c \in DOMAIN pool /\ pool'[c] = pool[c] /\ c \in Entries({"expose"})
        BY <1>1, <2>1, <3>2 DEF Entries
      <4> DEFINE d == pool[c].procedure
      <4>2. /\ d \in DOMAIN pool /\ pool[d].type = "proc" /\ IsDefined(procs, pool[d].name)
            /\ ImportedRight(pool[c], pool[d]) /\ SaidExposed(ExposedLines, pool[d].name, pool[c].index)
        BY <4>1 DEF PoolRight, ExposedKnown, Entries
      <4>3. d # e
        BY <1>2, <4>2
      <4>4. pool'[d] = pool[d] /\ d \in DOMAIN pool'
        BY <1>1, <4>2, <4>3
      <4>5. SaidExposed(ExposedLines', pool[d].name, pool[c].index)
        BY <4>2 DEF SaidExposed
      <4>. QED
        BY <4>1, <4>2, <4>4, <4>5
    <3>. QED
      BY <3>1, <3>2
  <2>. QED
    BY <1>4, <2>1 DEF ExposedKnown
<1>9. ToldWhere'
  <2>1. ASSUME NEW d \in DOMAIN pool', pool'[d].type = "proc", pool'[d].exposed # NONE
        PROVE  LET c == pool'[d].exposed IN
               c \in DOMAIN pool' /\ pool'[c].type = "expose" /\ pool'[c].procedure = d
    <3>1. CASE d = e
      BY <1>1, <2>1, <3>1 DEF NewEntries
    <3>2. CASE d # e
      <4>1. d \in Entries({"proc"}) /\ pool'[d] = pool[d]
        BY <1>1, <2>1, <3>2 DEF Entries
      <4> DEFINE c == pool[d].exposed
      <4>2. c \in DOMAIN pool /\ pool[c].type = "expose" /\ pool[c].procedure = d
        BY <2>1, <4>1 DEF PoolRight, ToldWhere, Entries
      <4>3. c # e
        BY <1>2, <4>2
      <4>. QED
        BY <1>1, <4>1, <4>2, <4>3
    <3>. QED
      BY <3>1, <3>2
  <2>. QED
    BY <1>4, <2>1 DEF ToldWhere
<1>10. ExposedFound'
  <2>1. ASSUME NEW t \in ExposedLines'
        PROVE  \E c \in DOMAIN pool' : /\ pool'[c].type = "expose" /\ pool'[c].index = t.index
                                       /\ pool'[pool'[c].procedure].name = t.name
    <3>1. CASE t \in ExposedLines
      <4>1. PICK c \in Entries({"expose"}) : pool[c].index = t.index /\ pool[pool[c].procedure].name = t.name
        BY <3>1 DEF PoolRight, ExposedFound
      <4>2. pool[c].procedure \in DOMAIN pool
        BY DEF PoolRight, ExposedKnown, Entries
      <4>3. c \in DOMAIN pool /\ pool[c].type = "expose" /\ c # e
        BY <1>2 DEF Entries
      <4>4. pool'[c] = pool[c] /\ pool'[pool[c].procedure].name = pool[pool[c].procedure].name
        BY <1>1, <1>2, <4>2, <4>3
      <4>. QED
        BY <1>1, <4>1, <4>3, <4>4
    <3>2. CASE t \notin ExposedLines
      BY <1>1, <3>2 DEF NewEntries
    <3>. QED
      BY <3>1, <3>2
  <2>. QED
    BY <1>4, <2>1 DEF ExposedFound
<1>11. RegistersKnown'
  <2>1. ASSUME NEW c \in DOMAIN pool', pool'[c].type = "reg"
        PROVE  SaidRegister(RegisterLines', pool'[c])
    <3>1. c \in Entries({"reg"}) /\ pool'[c] = pool[c]
      BY <1>1, <2>1 DEF Entries
    <3>2. SaidRegister(RegisterLines, pool[c])
      BY <3>1 DEF PoolRight, RegistersKnown
    <3>. QED
      BY <3>1, <3>2 DEF SaidRegister
  <2>. QED
    BY <1>4, <2>1 DEF RegistersKnown
<1>. QED
  BY <1>1, <1>3, <1>5, <1>7, <1>8, <1>9, <1>10, <1>11 DEF PoolRight
(* A definition that was not made before is in its entry, and a call names *)
(* the entry of its procedure.                                             *)
DefinedPlaced ==
  \A k \in Lines({".proc", ".expproc"}) :
    LET e == procs[Text(k).name].index IN pool[e].start = source[k].at /\ pool[e].locals = Text(k).n
CallsPlaced ==
  \A k \in Lines({"call"}) : Cell(source[k].at + 2).value = procs[Text(k).to[1]].index
Linked == PoolShape /\ CallsPlaced /\ (errors = {} => PoolRight /\ DefinedPlaced)

LEMMA CallAt ==
  ASSUME Base, Tracked, NEW k \in Lines({"call"})
  PROVE  /\ k \in Instructions /\ 2 \in DOMAIN Operands(Text(k)) /\ ~ (2 \in DOMAIN LabelsOf(Text(k)))
         /\ source[k].at \in Nat /\ source[k].at + 2 \in 0 .. Cells - 1 /\ Text(k).to[1] \in DOMAIN procs
<1>1. Text(k).op = "call" /\ k \in Instructions /\ Text(k) \in Read({"call"})
  BY DEF Lines, Instructions, Text, Read, Directives
<1>2. /\ 2 \in DOMAIN Operands(Text(k)) /\ source[k].at \in Nat
      /\ DOMAIN Operands(Text(k)) = 1 .. Len(Operands(Text(k))) /\ Len(Operands(Text(k))) \in Nat
  BY <1>1, Instruction, CodeLine DEF Base
<1>3. 2 \in 0 .. Len(Operands(Text(k)))
  BY <1>2
<1>4. source[k].at + 2 \in 0 .. Cells - 1
  BY <1>1, <1>3, Apart DEF Base
<1>5. DOMAIN LabelsOf(Text(k)) = {}
  BY <1>1 DEF LabelsOf
<1>. QED
  BY <1>1, <1>2, <1>4, <1>5 DEF Tracked, ProcsTracked

LEMMA ReadCalls ==
  ASSUME Base, Tracked, Linked, NEW line, ReadsLine(line),
         \A i \in 0 .. Cells - 1 : Cell(i)' = Cell(i),
         \A x \in DOMAIN procs : procs'[x].index = procs[x].index,
         line.op = "call" => binary'[Cells + 2 + 1].value = procs'[line.to[1]].index
  PROVE  CallsPlaced'
<1> DEFINE new == Len(source) + 1
<1>1. /\ \A k \in DOMAIN source : source'[k] = source[k]
      /\ source'[new].at = Cells /\ source'[new].line = line
      /\ Lines({"call"})' = Lines({"call"}) \cup IF line.op \in {"call"} THEN {new} ELSE {}
  BY Grown DEF Base
<1> HIDE DEF new
<1>2. ASSUME NEW k \in Lines({"call"})'
      PROVE  binary'[source'[k].at + 2 + 1].value = procs'[source'[k].line.to[1]].index
  <2>1. CASE k \in Lines({"call"})
    <3>1. source'[k] = source[k] /\ source'[k].line = Text(k)
      BY <1>1, <2>1 DEF Lines, Text
    <3>2. source[k].at + 2 \in 0 .. Cells - 1 /\ Text(k).to[1] \in DOMAIN procs
      BY <2>1, CallAt
    <3>3. binary'[source[k].at + 2 + 1] = Cell(source[k].at + 2)
      BY <3>2 DEF Cell
    <3>. QED
      BY <2>1, <3>1, <3>2, <3>3 DEF Linked, CallsPlaced
  <2>2. CASE k = new /\ line.op = "call"
    BY <1>1, <2>2
  <2>. QED
    BY <1>1, <2>1, <2>2
<1>. QED
  BY <1>2 DEF CallsPlaced, Cell, Text

LEMMA ReadDefined ==
  ASSUME Base, Tracked, DefinedPlaced, NEW line, ReadsLine(line),
         \A x \in DOMAIN procs : IsDefined(procs, x) => pool'[procs'[x].index] = pool[procs[x].index],
         line.op \in {".proc", ".expproc"} =>
           LET e == procs'[line.name].index IN pool'[e].start = Cells /\ pool'[e].locals = line.n
  PROVE  DefinedPlaced'
<1> DEFINE new == Len(source) + 1
           ops == {".proc", ".expproc"}
<1>1. /\ \A k \in DOMAIN source : source'[k] = source[k]
      /\ source'[new].at = Cells /\ source'[new].line = line
      /\ Lines(ops)' = Lines(ops) \cup IF line.op \in ops THEN {new} ELSE {}
  BY Grown DEF Base
<1> HIDE DEF new
<1>2. ASSUME NEW k \in Lines(ops)'
      PROVE  LET e == procs'[source'[k].line.name].index IN
             pool'[e].start = source'[k].at /\ pool'[e].locals = source'[k].line.n
  <2>1. CASE k \in Lines(ops)
    <3>1. source'[k] = source[k] /\ source'[k].line = Text(k)
      BY <1>1, <2>1 DEF Lines, Text
    <3>2. Text(k) \in Read(Procedures)
      BY <2>1 DEF Read, Lines, Text, Procedures
    <3>3. Text(k).name \in DOMAIN procs /\ IsDefined(procs, Text(k).name)
      BY <3>2 DEF Tracked, ProcsTracked, Duplicate, Known, IsDefined
    <3>. QED
      BY <2>1, <3>1, <3>3 DEF DefinedPlaced
  <2>2. CASE k = new /\ line.op \in ops
    BY <1>1, <2>2
  <2>. QED
    BY <1>1, <2>1, <2>2
<1>. QED
  BY <1>2 DEF DefinedPlaced, Text

(* Nothing happens to the entries.                                         *)
LEMMA SamePool ==
  ASSUME PoolShape, UNCHANGED pool, DOMAIN procs' = DOMAIN procs,
         \A x \in DOMAIN procs : procs'[x].index = procs[x].index,
         \A x : IsDefined(procs, x) => IsDefined(procs', x), externs \subseteq externs',
         ExposedLines' = ExposedLines, RegisterLines \subseteq RegisterLines'
  PROVE  PoolShape' /\ (PoolRight => PoolRight')
<1>1. PoolShape'
  BY DEF PoolShape, ProcsPlaced
<1>2. \A types : Entries(types)' = Entries(types)
  BY DEF Entries
<1> SUFFICES ASSUME PoolRight PROVE PoolRight'
  BY <1>1
<1>3. OwnEntry'
  BY <1>2 DEF PoolRight, OwnEntry
<1>4. IndicesKnown'
  BY <1>2 DEF PoolRight, IndicesKnown
<1>5. ExposedKnown'
  <2>1. \A x, index : SaidExposed(ExposedLines, x, index) => SaidExposed(ExposedLines', x, index)
    BY DEF SaidExposed
  <2>. QED
    BY <1>2, <2>1 DEF PoolRight, ExposedKnown
<1>6. ToldWhere' /\ ExposedFound'
  BY <1>2 DEF PoolRight, ToldWhere, ExposedFound
<1>7. RegistersKnown'
  <2>1. \A entry : SaidRegister(RegisterLines, entry) => SaidRegister(RegisterLines', entry)
    BY DEF SaidRegister
  <2>. QED
    BY <1>2, <2>1 DEF PoolRight, RegistersKnown
<1>. QED
  BY <1>3, <1>4, <1>5, <1>6, <1>7 DEF PoolRight

-----------------------------------------------------------------------------
(* Lines about procedures                                                  *)

WrittenExposed(name, n, start, index, imported) ==
  \E moved : pool' = Exposed(Defined(name, n, start), EntryOf(name), index, imported, moved)
Written(name, n, start, index, imported) ==
  pool' = Defined(name, n, start) \/ WrittenExposed(name, n, start, index, imported)

LEMMA NotedProcs ==
  ASSUME NEW name, NoteDefinition(name)
  PROVE  /\ DOMAIN procs' = DOMAIN procs \cup {name} /\ IsDefined(procs', name)
         /\ Duplicate(name) => procs' = procs
         /\ ~ Duplicate(name) => procs'[name].index = EntryOf(name)
         /\ \A x \in DOMAIN procs : procs'[x].index = procs[x].index
         /\ \A x : IsDefined(procs, x) => IsDefined(procs', x)
<1>1. CASE Duplicate(name)
  BY <1>1 DEF NoteDefinition, Duplicate, Known, IsDefined
<1>2. CASE ~ Duplicate(name)
  <2> DEFINE new == [defined |-> TRUE, index |-> EntryOf(name), refs |-> RefsOf(name)]
  <2>1. procs' = Extend(procs, name, new) /\ new.defined /\ new.index = EntryOf(name)
    BY <1>2 DEF NoteDefinition
  <2> HIDE DEF new
  <2>2. name \in DOMAIN procs => EntryOf(name) = procs[name].index
    BY <1>2 DEF EntryOf, Known
  <2>. QED
    BY <1>2, <2>1, <2>2 DEF Extend, IsDefined
<1>. QED
  BY <1>1, <1>2

LEMMA WrittenOnce ==
  ASSUME PoolShape, NEW name, ~ Duplicate(name), NoteDefinition(name),
         NEW n, NEW start, NEW index, NEW imported, Written(name, n, start, index, imported)
  PROVE  \E e : /\ Places(name, e) /\ pool'[e].start = start /\ pool'[e].locals = n
                /\ \A d \in NewEntries(e) : pool'[d].index = index /\ pool'[d].imported = imported
                /\ pool' = Defined(name, n, start) => NewEntries(e) = {}
                /\ WrittenExposed(name, n, start, index, imported) => NewEntries(e) # {}
<1> DEFINE e == EntryOf(name)
           q == Defined(name, n, start)
<1>1. /\ Keeps(pool, q) /\ DOMAIN q = DOMAIN pool \cup {e} /\ (e \in DOMAIN pool => Known(name))
      /\ \A d \in DOMAIN pool \ {e} : q[d] = pool[d]
      /\ ProcFields \subseteq DOMAIN q[e]
      /\ q[e].type = "proc" /\ q[e].name = name /\ q[e].locals = n /\ q[e].start = start /\ q[e].exposed = NONE
  BY DefinedOnce
<1>2. /\ DOMAIN procs' = DOMAIN procs \cup {name} /\ procs'[name].index = e
      /\ \A x \in DOMAIN procs : procs'[x].index = procs[x].index
  BY NotedProcs
<1>3. e \in DOMAIN pool => name \in DOMAIN procs /\ procs[name].index = e
  BY <1>1 DEF Known, EntryOf
<1> DEFINE exposed == \E moved : pool' = Exposed(q, e, index, imported, moved)
<1>4. (pool' = q \/ exposed) /\ (exposed <=> WrittenExposed(name, n, start, index, imported))
  BY DEF Written, WrittenExposed
<1> HIDE DEF e, q
<1> DEFINE new == DOMAIN pool' \ (DOMAIN pool \cup {e})
<1>5. /\ IsPool(pool') /\ DOMAIN q \subseteq DOMAIN pool' /\ \A d \in DOMAIN q \ {e} : pool'[d] = q[d]
      /\ pool'[e].type = "proc" /\ pool'[e].name = name /\ pool'[e].locals = n /\ pool'[e].start = start
      /\ pool'[e].exposed # NONE => pool'[e].exposed \in new
      /\ \A d \in new : /\ pool'[d].type = "expose" /\ pool'[d].procedure = e
                        /\ pool'[d].index = index /\ pool'[d].imported = imported
      /\ \A c, d \in new : c = d
      /\ pool' = q => new = {}
      /\ exposed => new # {}
  <2>1. CASE ~ exposed
    <3>1. pool' = q
      BY <1>4, <2>1
    <3> HIDE DEF exposed
    <3>. QED
      BY <1>1, <2>1, <3>1 DEF Keeps
  <2>2. CASE exposed
    <3>1. PICK moved : pool' = Exposed(q, e, index, imported, moved)
      BY <2>2
    <3> DEFINE x == Len(q) + 1
    <3>2. IsPool(q) /\ e \in DOMAIN q
      BY <1>1 DEF Keeps
    <3>3. /\ Keeps(q, pool') /\ DOMAIN pool' = DOMAIN q \cup {x} /\ x \notin DOMAIN q
          /\ \A d \in DOMAIN q \ {e} : pool'[d] = q[d]
          /\ \A g \in DOMAIN q[e] \ {"exposed"} : pool'[e][g] = q[e][g]
          /\ pool'[e] = q[e] \/ pool'[e].exposed = x
          /\ pool'[x] = [type |-> "expose", index |-> index, procedure |-> e, imported |-> imported]
      <4>1. AddsExposed(q, pool', e, index, imported)
        BY <3>1, <3>2, ExposedAdds
      <4>. QED
        BY <4>1 DEF AddsExposed
    <3> HIDE DEF x
    <3>4. new = {x} /\ IsPool(pool')
      BY <1>1, <3>3 DEF Keeps
    <3>5. pool'[x].type = "expose" /\ pool'[x].procedure = e /\ pool'[x].index = index
          /\ pool'[x].imported = imported
      BY <3>3
    <3>6. pool'[e].type = "proc" /\ pool'[e].name = name /\ pool'[e].locals = n /\ pool'[e].start = start
      BY <1>1, <3>3 DEF ProcFields
    <3>7. pool'[e].exposed # NONE => pool'[e].exposed = x
      BY <1>1, <3>3
    <3>8. pool' # q
      BY <3>3
    <3>9. \A d \in new : d = x
      BY <3>4
    <3>10. /\ pool'[e].exposed # NONE => pool'[e].exposed \in new
           /\ \A d \in new : /\ pool'[d].type = "expose" /\ pool'[d].procedure = e
                             /\ pool'[d].index = index /\ pool'[d].imported = imported
           /\ \A c, d \in new : c = d
      <4> HIDE DEF new
      <4>. QED
        BY <3>4, <3>5, <3>7, <3>9
    <3>11. DOMAIN q \subseteq DOMAIN pool' /\ \A d \in DOMAIN q \ {e} : pool'[d] = q[d]
      BY <3>3
    <3> HIDE DEF new
    <3>. QED
      BY <3>4, <3>6, <3>8, <3>10, <3>11
  <2>. QED
    BY <2>1, <2>2
<1>6. Places(name, e)
  <2>1. DOMAIN pool \cup {e} \subseteq DOMAIN pool'
    BY <1>1, <1>5
  <2>2. \A d \in DOMAIN pool \ {e} : pool'[d] = pool[d]
    BY <1>1, <1>5
  <2>. QED
    BY <1>2, <1>3, <1>5, <2>1, <2>2 DEF Places, NewEntries
<1>7. \A d \in NewEntries(e) : pool'[d].index = index /\ pool'[d].imported = imported
  BY <1>5 DEF NewEntries
<1>8. (pool' = q => NewEntries(e) = {}) /\ (WrittenExposed(name, n, start, index, imported) => NewEntries(e) # {})
  BY <1>4, <1>5 DEF NewEntries
<1>. QED
  BY <1>5, <1>6, <1>7, <1>8 DEF q

(* A second definition leaves the types as they are.                       *)
LEMMA WrittenAgain ==
  ASSUME PoolShape, NEW name, Duplicate(name), NoteDefinition(name),
         NEW n, NEW start, NEW index, NEW imported, Written(name, n, start, index, imported)
  PROVE  PoolShape'
<1> DEFINE q == Defined(name, n, start)
           e == EntryOf(name)
<1>1. procs' = procs
  BY NotedProcs
<1>2. Keeps(pool, q) /\ e \in DOMAIN q /\ IsPool(q)
  BY DefinedAgainKeeps DEF Keeps
<1>3. pool' = q \/ \E moved : pool' = Exposed(q, e, index, imported, moved)
  BY DEF Written, WrittenExposed
<1> HIDE DEF q, e
<1>4. Keeps(pool, pool')
  <2>1. CASE pool' = q
    BY <1>2, <2>1
  <2>2. CASE \E moved : pool' = Exposed(q, e, index, imported, moved)
    <3>1. PICK moved : pool' = Exposed(q, e, index, imported, moved)
      BY <2>2
    <3>2. Keeps(q, pool')
      BY <1>2, <3>1, ExposedAdds DEF AddsExposed
    <3>. QED
      BY <1>2, <3>2, KeepsAll
  <2>. QED
    BY <1>3, <2>1, <2>2
<1>5. \A x \in DOMAIN procs : procs[x].index \in DOMAIN pool' /\ pool'[procs[x].index].type = "proc"
  BY <1>4 DEF PoolShape, ProcsPlaced, Keeps
<1>. QED
  BY <1>1, <1>4, <1>5 DEF PoolShape, ProcsPlaced, Keeps

LEMMA MoreLines ==
  ASSUME Base, NEW line, ReadsLine(line)
  PROVE  /\ ExposedLines' = ExposedLines \cup IF line.op \in {".expproc", ".declare"} THEN {line} ELSE {}
         /\ RegisterLines' = RegisterLines \cup IF line.op \in {".exposereg"} THEN {line} ELSE {}
BY ReadGrows DEF ExposedLines, RegisterLines

(* The first definition of a procedure, with what a line says of it.       *)
LEMMA FirstDefinition ==
  ASSUME Base, Tracked, PoolShape, PoolRight, DefinedPlaced, NEW line, line.op \in Procedures, ReadsLine(line),
         ~ Duplicate(line.name), NoteDefinition(line.name),
         NEW n, NEW start, NEW imported, imported = (start = NONE),
         line.op \in {".proc", ".expproc"} => n = line.n /\ start = Cells,
         \/ line.op = ".proc" /\ pool' = Defined(line.name, n, start) /\ UNCHANGED externs
         \/ /\ line.op \in {".expproc", ".declare"} /\ WrittenExposed(line.name, n, start, line.index, imported)
            /\ line.index \notin externs /\ externs' = externs \cup {line.index}
  PROVE  PoolRight' /\ DefinedPlaced'
<1> DEFINE name == line.name
           index == line.index
           simple == line.op = ".proc" /\ pool' = Defined(name, n, start) /\ UNCHANGED externs
<1>1. Written(name, n, start, index, imported)
  BY DEF Written
<1>2. PICK e : /\ Places(name, e) /\ pool'[e].start = start /\ pool'[e].locals = n
               /\ \A d \in NewEntries(e) : pool'[d].index = index /\ pool'[d].imported = imported
               /\ pool' = Defined(name, n, start) => NewEntries(e) = {}
               /\ WrittenExposed(name, n, start, index, imported) => NewEntries(e) # {}
  BY <1>1, WrittenOnce
<1>3. /\ IsDefined(procs', name) /\ (\A x : IsDefined(procs, x) => IsDefined(procs', x))
      /\ ~ IsDefined(procs, name)
  BY NotedProcs DEF IsDefined, Duplicate, Known
<1>4. /\ ExposedLines' = ExposedLines \cup IF line.op \in {".expproc", ".declare"} THEN {line} ELSE {}
      /\ RegisterLines \subseteq RegisterLines'
  BY MoreLines
<1>5. externs \subseteq externs'
  OBVIOUS
<1>6. Exposes(name, e)
  <2>1. CASE simple
    BY <1>2, <2>1 DEF Exposes
  <2>2. CASE ~ simple
    <3>1. line.op \in {".expproc", ".declare"} /\ index \in externs' \ externs
      BY <2>2
    <3>2. line \in ExposedLines'
      BY <1>4, <3>1
    <3>3. SaidExposed(ExposedLines', name, index)
      BY <3>2 DEF SaidExposed
    <3>4. \A d \in NewEntries(e) : ImportedRight(pool'[d], pool'[e])
      BY <1>2 DEF ImportedRight
    <3>. QED
      BY <1>2, <1>3, <3>1, <3>3, <3>4 DEF Exposes
  <2>. QED
    BY <2>1, <2>2
<1>7. PoolRight' /\ \A x \in DOMAIN procs \ {name} : pool'[procs'[x].index] = pool[procs[x].index]
  <2>1. \A t \in ExposedLines' \ ExposedLines : t.name = name /\ \E d \in NewEntries(e) : pool'[d].index = t.index
    BY <1>2, <1>4
  <2>2. ExposedLines \subseteq ExposedLines' /\ RegisterLines \subseteq RegisterLines'
    BY <1>4
  <2>. QED
    BY <1>2, <1>3, <1>5, <1>6, <2>1, <2>2, PlacesRight
<1>8. DefinedPlaced'
  <2>1. \A x \in DOMAIN procs : IsDefined(procs, x) => pool'[procs'[x].index] = pool[procs[x].index]
    BY <1>3, <1>7
  <2>2. procs'[name].index = e
    BY <1>2 DEF Places
  <2>. QED
    BY <1>2, <2>1, <2>2, ReadDefined
<1>. QED
  BY <1>7, <1>8

LEMMA ProcedureLinked ==
  ASSUME Base, Tracked, Linked, NEW line, ReadsLine(line),
         \/ line.op = ".proc" /\ Proc(line.name, line.n)
         \/ line.op = ".expproc" /\ ExposedProc(line.name, line.n, line.index)
         \/ line.op = ".declare" /\ Declare(line.name, line.index)
  PROVE  Linked'
<1> DEFINE name == line.name
           start == IF line.op = ".declare" THEN NONE ELSE Cells
           n == IF line.op = ".declare" THEN NONE ELSE line.n
           imported == line.op = ".declare"
           simple == line.op = ".proc" /\ pool' = Defined(name, n, start) /\ UNCHANGED externs
           full == /\ line.op \in {".expproc", ".declare"} /\ WrittenExposed(name, n, start, line.index, imported)
                   /\ externs' = externs \cup {line.index}
<1>1. line.op \in Procedures /\ NoteDefinition(name) /\ UNCHANGED binary
  BY DEF Procedures, Proc, ExposedProc, Declare, Directive
<1>2. simple \/ full
  <2>1. CASE line.op = ".proc"
    BY <2>1 DEF Proc
  <2>2. CASE line.op = ".expproc"
    <3>1. ExposeEntry(Defined(name, n, start), EntryOf(name), line.index, FALSE) /\ Expose(line.index)
          /\ imported = FALSE
      BY <2>2 DEF ExposedProc
    <3> HIDE DEF imported, n, start
    <3>2. WrittenExposed(name, n, start, line.index, imported)
      BY <3>1 DEF WrittenExposed, ExposeEntry
    <3>. QED
      BY <2>2, <3>1, <3>2 DEF Expose
  <2>3. CASE line.op = ".declare"
    <3>1. ExposeEntry(Defined(name, n, start), EntryOf(name), line.index, TRUE) /\ Expose(line.index)
          /\ imported = TRUE
      BY <2>3 DEF Declare
    <3> HIDE DEF imported, n, start
    <3>2. WrittenExposed(name, n, start, line.index, imported)
      BY <3>1 DEF WrittenExposed, ExposeEntry
    <3>. QED
      BY <2>3, <3>1, <3>2 DEF Expose
  <2>. QED
    BY <2>1, <2>2, <2>3
<1>3. errors' = {} => errors = {} /\ ~ Duplicate(name) /\ (full => (line.index \notin externs) \/ simple)
  BY DEF Proc, ExposedProc, Declare, Report, DuplicateProc, DuplicateIndex, If
<1>4. imported = (start = NONE)
  <2>1. Cells \in Nat
    BY DEF Base, Shape, IsList, Cells
  <2>. QED
    BY <2>1, AssemblerAssumption
<1>5. line.op \in {".proc", ".expproc"} => n = line.n /\ start = Cells
  OBVIOUS
<1>6. Written(name, n, start, line.index, imported)
  BY <1>2 DEF Written
<1> HIDE DEF n, start, imported
<1>7. PoolShape'
  <2>1. CASE Duplicate(name)
    BY <1>1, <1>6, <2>1, WrittenAgain DEF Linked
  <2>2. CASE ~ Duplicate(name)
    <3>1. PICK e : Places(name, e)
      BY <1>1, <1>6, <2>2, WrittenOnce DEF Linked
    <3>. QED
      BY <3>1, PlacesShape DEF Linked
  <2>. QED
    BY <2>1, <2>2
<1>8. ASSUME errors' = {}
      PROVE  PoolRight' /\ DefinedPlaced'
  <2>1. errors = {} /\ ~ Duplicate(name) /\ PoolRight /\ DefinedPlaced /\ PoolShape
    BY <1>3, <1>8 DEF Linked
  <2>2. simple \/ (full /\ line.index \notin externs)
    BY <1>2, <1>3, <1>8
  <2>. QED
    BY <1>1, <1>4, <1>5, <2>1, <2>2, FirstDefinition
<1>9. CallsPlaced'
  <2>1. \A i \in 0 .. Cells - 1 : Cell(i)' = Cell(i)
    BY <1>1 DEF Cell
  <2>2. \A x \in DOMAIN procs : procs'[x].index = procs[x].index
    BY <1>1, NotedProcs
  <2>3. line.op # "call"
    BY <1>1 DEF Procedures
  <2>. QED
    BY <2>1, <2>2, <2>3, ReadCalls
<1>. QED
  BY <1>7, <1>8, <1>9 DEF Linked

-----------------------------------------------------------------------------
(* The other lines                                                         *)

LEMMA ReferredEntries ==
  ASSUME Base, Tracked, PoolShape, NEW line, ReadsLine(line), IsCode(line), ReferProcs(line), UNCHANGED externs
  PROVE  /\ \A x \in DOMAIN procs : procs'[x].index = procs[x].index
         /\ PoolShape'
         /\ PoolRight => /\ PoolRight'
                         /\ \A x \in DOMAIN procs : IsDefined(procs, x) =>
                              pool'[procs'[x].index] = pool[procs[x].index]
<1>1. ExposedLines' = ExposedLines /\ RegisterLines' = RegisterLines
  <2>1. line.op \notin {".expproc", ".declare"} /\ line.op \notin {".exposereg"}
    BY DEF IsCode, Directives
  <2>. QED
    BY <2>1, MoreLines
<1>2. CASE line.op # "call"
  <2>1. UNCHANGED <<pool, procs>>
    BY <1>2 DEF ReferProcs
  <2>2. PoolShape' /\ (PoolRight => PoolRight')
    BY <1>1, <2>1, SamePool
  <2>. QED
    BY <2>1, <2>2
<1>3. CASE line.op = "call"
  <2> DEFINE name == line.to[1]
             new == ProcEntry(name, NONE, NONE)
  <2>1. Refer(name, OperandAt(line, 2) + 1)
    BY <1>3 DEF ReferProcs
  <2>2. CASE Duplicate(name)
    <3>1. UNCHANGED <<pool, procs>>
      BY <2>1, <2>2 DEF Refer, Duplicate
    <3>2. PoolShape' /\ (PoolRight => PoolRight')
      BY <1>1, <3>1, SamePool
    <3>. QED
      BY <3>1, <3>2
  <2>3. CASE ~ Duplicate(name)
    <3> DEFINE entry == [defined |-> FALSE, index |-> EntryOf(name), refs |-> RefsOf(name) \cup {OperandAt(line, 2) + 1}]
    <3>1. procs' = Extend(procs, name, entry) /\ entry.index = EntryOf(name)
          /\ pool' = IF Known(name) THEN pool ELSE Append(pool, new)
      BY <2>1, <2>3 DEF Refer
    <3> HIDE DEF entry
    <3>2. /\ DOMAIN procs' = DOMAIN procs \cup {name} /\ procs'[name].index = EntryOf(name)
          /\ \A x \in DOMAIN procs \ {name} : procs'[x] = procs[x]
      BY <3>1 DEF Extend
    <3>3. \A x : IsDefined(procs, x) => IsDefined(procs', x)
      BY <2>3, <3>2 DEF IsDefined, Duplicate, Known
    <3>4. CASE Known(name)
      <4>1. EntryOf(name) = procs[name].index /\ name \in DOMAIN procs
        BY <2>3, <3>4 DEF EntryOf, Known
      <4>2. UNCHANGED pool /\ DOMAIN procs' = DOMAIN procs /\ \A x \in DOMAIN procs : procs'[x].index = procs[x].index
        BY <3>1, <3>2, <3>4, <4>1
      <4>3. PoolShape' /\ (PoolRight => PoolRight')
        BY <1>1, <3>3, <4>2, SamePool
      <4>. QED
        BY <4>2, <4>3
    <3>5. CASE ~ Known(name)
      <4> DEFINE e == Len(pool) + 1
      <4>1. EntryOf(name) = e /\ name \notin DOMAIN procs
        BY <2>3, <3>5 DEF EntryOf, Known
      <4>2. "type" \in DOMAIN new /\ new.type = "proc" /\ new.name = name /\ new.exposed = NONE
        BY DEF ProcEntry
      <4>3. pool' = Append(pool, new)
        BY <3>1, <3>5
      <4> HIDE DEF new, e
      <4>4. /\ IsPool(pool') /\ DOMAIN pool' = DOMAIN pool \cup {e} /\ e \notin DOMAIN pool
            /\ \A d \in DOMAIN pool : pool'[d] = pool[d]
            /\ pool'[e] = new
        <5>1. Keeps(pool, pool') /\ DOMAIN pool' = DOMAIN pool \cup {e} /\ e \notin DOMAIN pool
              /\ (\A d \in DOMAIN pool : pool'[d] = pool[d]) /\ pool'[e] = new
          BY <4>2, <4>3, AppendKeeps DEF PoolShape, EntryTypes, e
        <5>. QED
          BY <5>1 DEF Keeps
      <4>5. NewEntries(e) = {}
        BY <4>4 DEF NewEntries
      <4>6. \A x \in DOMAIN procs : procs'[x].index = procs[x].index
        BY <3>2, <4>1
      <4>7. Places(name, e)
        BY <3>2, <4>1, <4>2, <4>4, <4>5, <4>6 DEF Places
      <4>8. Exposes(name, e)
        BY <4>5 DEF Exposes
      <4>9. ~ IsDefined(procs, name)
        BY <4>1 DEF IsDefined
      <4>10. PoolShape'
        BY <4>7, PlacesShape
      <4>11. ASSUME PoolRight
             PROVE  PoolRight' /\ \A x \in DOMAIN procs \ {name} : pool'[procs'[x].index] = pool[procs[x].index]
        BY <1>1, <3>3, <4>7, <4>8, <4>9, <4>11, PlacesRight
      <4>. QED
        BY <4>6, <4>9, <4>10, <4>11
    <3>. QED
      BY <3>4, <3>5
  <2>. QED
    BY <2>2, <2>3
<1>. QED
  BY <1>2, <1>3

LEMMA GenerateLinked ==
  ASSUME Base, Tracked, Linked, NEW line, IsLine(line), IsCode(line), ReadsLine(line), Generate(line)
  PROVE  Linked'
<1>1. ReferProcs(line) /\ UNCHANGED externs /\ (errors' = {} => errors = {})
  BY DEF Generate, Code, Report
<1>2. /\ \A x \in DOMAIN procs : procs'[x].index = procs[x].index
      /\ PoolShape'
      /\ PoolRight => /\ PoolRight'
                      /\ \A x \in DOMAIN procs : IsDefined(procs, x) =>
                           pool'[procs'[x].index] = pool[procs[x].index]
  BY <1>1, ReferredEntries DEF Linked
<1>3. CallsPlaced'
  <2>1. /\ \A i \in 0 .. Cells - 1 : Cell(i)' = Cell(i)
        /\ \A p \in DOMAIN Operands(line) : binary'[Cells + p + 1] = [value |-> OperandCell(line, p)]
    BY GeneratedCells DEF Base
  <2>2. ASSUME line.op = "call"
        PROVE  binary'[Cells + 2 + 1].value = procs'[line.to[1]].index
    <3>1. 2 \in DOMAIN Operands(line) /\ Operands(line)[2] = line.to[1] /\ ~ IsRegister(line, 2)
      BY <2>2, CodeLine DEF Operands, IsRegister
    <3>2. OperandCell(line, 2) = procs'[line.to[1]].index
      BY <2>2, <3>1 DEF OperandCell
    <3> DEFINE cell == OperandCell(line, 2)
    <3>3. binary'[Cells + 2 + 1] = [value |-> cell]
      BY <2>1, <3>1
    <3> HIDE DEF cell
    <3>4. binary'[Cells + 2 + 1].value = cell
      BY <3>3
    <3>. QED
      BY <3>2, <3>4 DEF cell
  <2>. QED
    BY <1>2, <2>1, <2>2, ReadCalls
<1>4. ASSUME errors' = {}
      PROVE  PoolRight' /\ DefinedPlaced'
  <2>1. PoolRight /\ DefinedPlaced
    BY <1>1, <1>4 DEF Linked
  <2>2. line.op \notin {".proc", ".expproc"}
    BY DEF IsCode, Directives
  <2>. QED
    BY <1>2, <2>1, <2>2, ReadDefined
<1>. QED
  BY <1>2, <1>3, <1>4 DEF Linked

(* A line that has nothing to do with the pool.                            *)
LEMMA OtherLinked ==
  ASSUME Base, Tracked, Linked, NEW line, ReadsLine(line), UNCHANGED <<binary, pool, procs, externs>>,
         line.op \notin Procedures \cup {"call"}, errors' = {} => errors = {}
  PROVE  Linked'
<1>1. ExposedLines' = ExposedLines /\ RegisterLines \subseteq RegisterLines'
  <2>1. line.op \notin {".expproc", ".declare"}
    BY DEF Procedures
  <2>. QED
    BY <2>1, MoreLines
<1>2. PoolShape' /\ (PoolRight => PoolRight')
  BY <1>1, SamePool DEF Linked
<1>3. CallsPlaced'
  BY ReadCalls DEF Cell
<1>4. DefinedPlaced => DefinedPlaced'
  BY ReadDefined DEF Procedures
<1>. QED
  BY <1>2, <1>3, <1>4 DEF Linked

LEMMA ExposeRegLinked ==
  ASSUME Base, Tracked, Linked, NEW line, ReadsLine(line), line.op = ".exposereg", ExposeReg(line.n, line.index)
  PROVE  Linked'
<1> DEFINE e == Len(pool) + 1
           new == [type |-> "reg", index |-> line.index, global |-> line.n]
<1>1. /\ UNCHANGED <<binary, procs>> /\ externs' = externs \cup {line.index} /\ pool' = Append(pool, new)
      /\ errors' = {} => errors = {} /\ line.index \notin externs
  BY DEF ExposeReg, Expose, Report, DuplicateIndex, If
<1>2. "type" \in DOMAIN new /\ new.type = "reg" /\ new.index = line.index
  OBVIOUS
<1> HIDE DEF new, e
<1>3. /\ Keeps(pool, pool') /\ DOMAIN pool' = DOMAIN pool \cup {e} /\ e \notin DOMAIN pool
      /\ \A d \in DOMAIN pool : pool'[d] = pool[d]
      /\ pool'[e] = new
  BY <1>1, <1>2, AppendKeeps DEF Linked, PoolShape, EntryTypes, e
<1>4. PoolShape'
  BY <1>1, <1>3 DEF Linked, PoolShape, ProcsPlaced, Keeps
<1>5. CallsPlaced'
  <2>1. line.op # "call" /\ \A i : Cell(i)' = Cell(i)
    BY <1>1 DEF Cell
  <2>. QED
    BY <1>1, <2>1, ReadCalls
<1>6. ASSUME errors' = {}
      PROVE  PoolRight' /\ DefinedPlaced'
  <2>1. PoolRight /\ DefinedPlaced /\ PoolShape
    BY <1>1, <1>6 DEF Linked
  <2>2. \A types : Entries(types)' = Entries(types) \cup IF "reg" \in types THEN {e} ELSE {}
    <3>1. \A types : Entries(types)' = {d \in DOMAIN pool' : pool'[d].type \in types}
      BY DEF Entries
    <3>. QED
      BY <1>2, <1>3, <3>1 DEF Entries
  <2>3. \A types : Entries(types) \subseteq DOMAIN pool
    BY DEF Entries
  <2>4. Entries({"proc"})' = Entries({"proc"}) /\ Entries({"expose"})' = Entries({"expose"})
    BY <2>2
  <2>5. OwnEntry'
    BY <1>1, <1>3, <2>1, <2>3, <2>4 DEF PoolRight, OwnEntry, PoolShape, ProcsPlaced
  <2>6. IndicesKnown'
    <3> DEFINE both == Entries({"reg", "expose"})
    <3>1. both' = both \cup {e} /\ both \subseteq DOMAIN pool
      BY <2>2, <2>3
    <3>2. \A d \in both : pool[d].index \in externs
      BY <2>1 DEF PoolRight, IndicesKnown
    <3>3. \A c, d \in both : pool[c].index = pool[d].index => c = d
      BY <2>1 DEF PoolRight, IndicesKnown
    <3>4. line.index \notin externs /\ pool'[e].index = line.index
      BY <1>1, <1>2, <1>3, <1>6
    <3> HIDE DEF both
    <3>5. /\ \A d \in both \cup {e} : pool'[d].index \in externs'
          /\ \A c, d \in both \cup {e} : pool'[c].index = pool'[d].index => c = d
      BY <1>1, <1>3, <3>1, <3>2, <3>3, <3>4
    <3>. QED
      BY <3>1, <3>5 DEF IndicesKnown, both
  <2>7. ExposedKnown'
    <3>1. ExposedLines' = ExposedLines
      BY MoreLines
    <3>. QED
      BY <1>1, <1>3, <2>1, <2>3, <2>4, <3>1 DEF PoolRight, ExposedKnown
  <2>8. ToldWhere' /\ ExposedFound'
    <3>1. ToldWhere'
      BY <1>3, <2>1, <2>3, <2>4 DEF PoolRight, ToldWhere
    <3>2. ExposedLines' = ExposedLines /\ \A c \in Entries({"expose"}) : pool[c].procedure \in DOMAIN pool
      BY <2>1, MoreLines DEF PoolRight, ExposedKnown, Entries
    <3>3. ExposedFound'
      BY <1>3, <2>1, <2>3, <2>4, <3>2 DEF PoolRight, ExposedFound
    <3>. QED
      BY <3>1, <3>3
  <2>9. DefinedPlaced'
    <3>1. \A x \in DOMAIN procs : pool'[procs[x].index] = pool[procs[x].index]
      BY <1>3, <2>1 DEF PoolShape, ProcsPlaced
    <3>2. line.op \notin {".proc", ".expproc"}
      OBVIOUS
    <3>. QED
      BY <1>1, <2>1, <3>1, <3>2, ReadDefined
  <2>10. RegistersKnown'
    <3>1. RegisterLines' = RegisterLines \cup {line}
      BY MoreLines
    <3>2. \A entry : SaidRegister(RegisterLines, entry) => SaidRegister(RegisterLines', entry)
      BY <3>1 DEF SaidRegister
    <3>3. SaidRegister(RegisterLines', new)
      BY <3>1 DEF SaidRegister, new
    <3>4. Entries({"reg"})' = Entries({"reg"}) \cup {e}
      BY <2>2
    <3>. QED
      BY <1>3, <2>1, <2>3, <3>2, <3>3, <3>4 DEF PoolRight, RegistersKnown
  <2>. QED
    BY <2>5, <2>6, <2>7, <2>8, <2>9, <2>10 DEF PoolRight
<1>. QED
  BY <1>4, <1>5, <1>6 DEF Linked

LEMMA LineLinked ==
  ASSUME Base, Tracked, Linked, NEW line \in Dialect[dialect], ReadLine(line), ReadsLine(line)
  PROVE  Linked'
<1>1. IsLine(line)
  BY AssemblerAssumption DEF Base, Shape
<1>2. CASE line.op = ".globals"
  <2>1. UNCHANGED <<binary, pool, procs, externs>> /\ (errors' = {} => errors = {})
    BY <1>2 DEF ReadLine, SetGlobals, Report
  <2>. QED
    BY <1>2, <2>1, OtherLinked DEF Procedures
<1>3. CASE line.op = ".exposereg"
  BY <1>3, ExposeRegLinked DEF ReadLine
<1>4. CASE line.op \in {".proc", ".expproc", ".declare"}
  <2>1. \/ line.op = ".proc" /\ Proc(line.name, line.n)
        \/ line.op = ".expproc" /\ ExposedProc(line.name, line.n, line.index)
        \/ line.op = ".declare" /\ Declare(line.name, line.index)
    BY <1>4 DEF ReadLine
  <2>. QED
    BY <2>1, ProcedureLinked
<1>5. CASE line.op = "label"
  <2>1. UNCHANGED <<binary, pool, procs, externs>> /\ (errors' = {} => errors = {})
    BY <1>5 DEF ReadLine, DefineLabel, Code, Report
  <2>. QED
    BY <1>5, <2>1, OtherLinked DEF Procedures
<1>6. CASE line.op \notin Directives \cup {"label"}
  <2>1. Generate(line) \/ Refuse(line)
    BY <1>6 DEF ReadLine, Directives
  <2>2. CASE Generate(line)
    <3>1. IsCode(line)
      BY <1>6, <2>2 DEF Generate, Valid, IsCode
    <3>. QED
      BY <1>1, <2>2, <3>1, GenerateLinked
  <2>3. CASE Refuse(line)
    <3>1. line.op = "invalid" /\ UNCHANGED <<binary, pool, procs, externs>> /\ (errors' = {} => errors = {})
      BY <2>3 DEF Refuse, Valid, Code, Report
    <3>. QED
      BY <3>1, OtherLinked DEF Procedures
  <2>. QED
    BY <2>1, <2>2, <2>3
<1>. QED
  BY <1>2, <1>3, <1>4, <1>5, <1>6 DEF Directives

(* What comes after the lines leaves the pool, and the cells of calls.     *)
LEMMA KeptLinked ==
  ASSUME Base, Tracked, Linked, UNCHANGED <<source, procs, pool, externs>>, errors \subseteq errors',
         \A k \in Lines({"call"}) : binary'[source[k].at + 2 + 1] = binary[source[k].at + 2 + 1]
  PROVE  Linked'
<1>1. (\A ops : Lines(ops)' = Lines(ops)) /\ ExposedLines' = ExposedLines /\ RegisterLines' = RegisterLines
  BY DEF Lines, ExposedLines, RegisterLines, Read, Text
<1>2. PoolShape' /\ (PoolRight => PoolRight')
  BY <1>1, SamePool DEF Linked
<1>3. CallsPlaced'
  BY <1>1 DEF Linked, CallsPlaced, Cell, Text
<1>4. DefinedPlaced => DefinedPlaced'
  BY <1>1 DEF DefinedPlaced, Text
<1>5. errors' = {} => errors = {}
  OBVIOUS
<1>. QED
  BY <1>2, <1>3, <1>4, <1>5 DEF Linked

LEMMA NextLinked == Base /\ Errors /\ Linked /\ [Next]_vars => Linked'
<1> SUFFICES ASSUME Base, Tracked, Linked, [Next]_vars PROVE Linked'
  BY DEF Errors
<1>1. CASE ReadStep
  <2>1. PICK line \in Dialect[dialect] : ReadLine(line) /\ ReadsLine(line)
    BY <1>1 DEF ReadStep, ReadsLine
  <2>. QED
    BY <2>1, LineLinked
<1>2. CASE Backpatch
  <2>1. UNCHANGED <<source, procs, pool, externs>> /\ errors \subseteq errors'
    BY <1>2 DEF Backpatch, read, symbols, Report
  <2>2. ASSUME NEW k \in Lines({"call"})
        PROVE  binary'[source[k].at + 2 + 1] = binary[source[k].at + 2 + 1]
    <3>1. k \in Instructions /\ 2 \in DOMAIN Operands(Text(k)) /\ ~ (2 \in DOMAIN LabelsOf(Text(k)))
      BY CallAt
    <3>2. Cell(source[k].at + 2)' = Cell(source[k].at + 2)
      BY <1>2, <3>1, Patched DEF Base
    <3>. QED
      BY <2>1, <3>2 DEF Cell
  <2>. QED
    BY <2>1, <2>2, KeptLinked
<1>3. CASE Crash \/ End \/ (\E l \in todo : OptimiseLabel(l)) \/ EndRound \/ UNCHANGED vars
  <2>1. UNCHANGED <<source, binary, procs, pool, externs, errors>>
    BY <1>3 DEF Crash, ExposeNoReg, End, OptimiseLabel, EndRound, vars, read, symbols
  <2>. QED
    BY <2>1, KeptLinked
<1>. QED
  BY <1>1, <1>2, <1>3 DEF Next, BackpatchStep

LEMMA InitLinked == Init => Linked
<1> SUFFICES ASSUME Init PROVE Linked
  OBVIOUS
<1>1. IsList(pool) /\ DOMAIN pool = {}
  <2>1. pool \in Seq(Nat) /\ DOMAIN pool = {}
    BY DEF Init
  <2>. QED
    BY <2>1, ListOf
<1>2. DOMAIN procs = {} /\ DOMAIN source = {}
  BY DEF Init
<1>3. (\A types : Entries(types) = {}) /\ (\A ops : Lines(ops) = {})
  BY <1>1, <1>2 DEF Entries, Lines
<1>4. PoolShape
  BY <1>1, <1>2 DEF PoolShape, IsPool, ProcsPlaced
<1>5. PoolRight
  BY <1>2, <1>3 DEF PoolRight, OwnEntry, IndicesKnown, ExposedKnown, ToldWhere, ExposedFound, RegistersKnown,
     ExposedLines, Read
<1>6. CallsPlaced /\ DefinedPlaced
  BY <1>3 DEF CallsPlaced, DefinedPlaced
<1>. QED
  BY <1>4, <1>5, <1>6 DEF Linked

LEMMA LinkedAlways == Spec => [](Base /\ Errors /\ Linked)
<1>. QED
  BY InitLinked, NextLinked, ErrorsAlways, PTL DEF Spec

-----------------------------------------------------------------------------
(* The trees point into the binary and into the pool: a label to a cell or *)
(* to the end of the code, its references to cells of operands, a          *)
(* procedure to an entry of a procedure, with or without errors.           *)
THEOREM TypeCorrect == Spec => []TypeOK
<1>1. Base /\ Linked => TypeOK
  <2> SUFFICES ASSUME Base, Linked PROVE TypeOK
    OBVIOUS
  <2>1. ASSUME NEW l \in DOMAIN labels
        PROVE  /\ labels[l].defined \in BOOLEAN /\ labels[l].index \in 0 .. Cells
               /\ labels[l].refs \subseteq {i \in 0 .. Cells - 1 : DOMAIN Cell(i) = {"value"}}
    <3>1. labels[l] \in [defined : BOOLEAN, index : 0 .. Cells, refs : SUBSET Nat]
      BY DEF Base, Shape
    <3>2. ASSUME NEW i \in labels[l].refs
          PROVE  i \in 0 .. Cells - 1 /\ DOMAIN Cell(i) = {"value"}
      <4>1. LabelCell(l, i)
        BY DEF Base, Placed, Referred
      <4>2. PICK k \in Instructions : \E p \in DOMAIN LabelsOf(Text(k)) : i = source[k].at + p
        BY <4>1 DEF LabelCell
      <4>3. PICK p \in DOMAIN LabelsOf(Text(k)) : i = source[k].at + p
        BY <4>2
      <4>4. /\ p \in DOMAIN Operands(Text(k)) /\ Len(Operands(Text(k))) \in Nat
            /\ DOMAIN Operands(Text(k)) = 1 .. Len(Operands(Text(k)))
        BY Instruction, CodeLine DEF Base
      <4>5. p \in 0 .. Len(Operands(Text(k)))
        BY <4>4
      <4>6. i \in 0 .. Cells - 1
        BY <4>3, <4>5, Apart DEF Base
      <4>7. DOMAIN Cell(i) = {"value"}
        BY <4>3, <4>4 DEF Base, Placed, Operated
      <4>. QED
        BY <4>6, <4>7
    <3>. QED
      BY <3>1, <3>2
  <2>2. \A name \in DOMAIN procs : procs[name].index \in DOMAIN pool /\ pool[procs[name].index].type = "proc"
    BY DEF Linked, PoolShape, ProcsPlaced
  <2>. QED
    BY <2>1, <2>2 DEF TypeOK, Base, Shape
<1>. QED
  BY <1>1, LinkedAlways, PTL

(* The pool of an assembled module is what the linker expects: a procedure *)
(* has one entry, where its code or its import is, an exposed index has    *)
(* one, which leads to its procedure, and a call names its procedure's.    *)
THEOREM PoolIsLinked == Spec => []PoolLinked
<1>1. Base /\ Errors /\ Linked => PoolLinked
  <2> SUFFICES ASSUME Base, Tracked, PoolShape, CallsPlaced, PoolRight, DefinedPlaced
               PROVE  PoolLinked
    BY DEF Errors, Linked, PoolLinked, Assembled
  <2>1. \A d, e \in Entries({"proc"}) : pool[d].name = pool[e].name => d = e
    BY DEF PoolRight, OwnEntry
  <2>2. \A d, e \in Entries({"reg", "expose"}) : pool[d].index = pool[e].index => d = e
    BY DEF PoolRight, IndicesKnown
  <2>3. ASSUME NEW e \in Entries({"expose"})
        PROVE  LET d == pool[e].procedure IN
               /\ pool[d].type = "proc" /\ pool[e].imported = (pool[d].start = NONE)
               /\ \E k \in Lines({".expproc", ".declare"}) :
                    Text(k).name = pool[d].name /\ Text(k).index = pool[e].index
    <3> DEFINE d == pool[e].procedure
    <3>1. /\ d \in Entries({"proc"}) /\ ImportedRight(pool[e], pool[d])
          /\ SaidExposed(ExposedLines, pool[d].name, pool[e].index)
      BY DEF PoolRight, ExposedKnown
    <3>2. \E k \in Lines({".expproc", ".declare"}) : Text(k).name = pool[d].name /\ Text(k).index = pool[e].index
      BY <3>1 DEF SaidExposed, ExposedLines, Read
    <3>. QED
      BY <3>1, <3>2 DEF Entries, ImportedRight
  <2>4. \A e \in Entries({"proc"}) : pool[e].exposed # NONE => pool[pool[e].exposed].procedure = e
    BY DEF PoolRight, ToldWhere
  <2>5. ASSUME NEW k \in Lines({".proc", ".expproc"})
        PROVE  \E e \in Entries({"proc"}) : pool[e].name = Text(k).name /\ pool[e].start = source[k].at
                                            /\ pool[e].locals = Text(k).n
    <3>1. Text(k) \in Read(Procedures)
      BY DEF Read, Lines, Text, Procedures
    <3>2. Text(k).name \in DOMAIN procs
      BY <3>1 DEF Tracked, ProcsTracked, Duplicate, Known
    <3> DEFINE e == procs[Text(k).name].index
    <3>3. e \in Entries({"proc"}) /\ pool[e].name = Text(k).name
      BY <3>2 DEF PoolShape, ProcsPlaced, PoolRight, OwnEntry, Entries
    <3>. QED
      BY <3>3 DEF DefinedPlaced
  <2>6. ASSUME NEW k \in Lines({"call"})
        PROVE  pool[Target(k, 2)].name = Text(k).to[1]
    <3>1. Text(k).to[1] \in DOMAIN procs
      BY CallAt
    <3>. QED
      BY <3>1 DEF CallsPlaced, Target, PoolRight, OwnEntry
  <2>. QED
    BY <2>1, <2>2, <2>3, <2>4, <2>5, <2>6 DEF PoolLinked
<1>. QED
  BY <1>1, LinkedAlways, PTL

-----------------------------------------------------------------------------
(* What the linker finds                                                   *)

(* The lines end after a procedure, so that the pool has an entry.         *)
Started == phase \notin {"headers", "crashed"} => Read(Procedures) # {}

LEMMA NextStarted == Base /\ Started /\ [Next]_vars => Started'
<1> SUFFICES ASSUME Base, Started, [Next]_vars PROVE Started'
  OBVIOUS
<1>1. CASE ReadStep
  <2>1. PICK line \in Dialect[dialect] : ReadLine(line) /\ ReadsLine(line)
    BY <1>1 DEF ReadStep, ReadsLine
  <2>2. Read(Procedures)' = Read(Procedures) \cup IF line.op \in Procedures THEN {line} ELSE {}
    BY <2>1, ReadGrows
  <2>3. \/ line.op \in Procedures
        \/ phase' = phase
    BY <2>1 DEF ReadLine, SetGlobals, ExposeReg, DefineLabel, Generate, Refuse, Code, Procedures
  <2>. QED
    BY <2>2, <2>3 DEF Started
<1>2. CASE ~ ReadStep
  <2>1. UNCHANGED source /\ (phase' = "crashed" \/ phase \notin {"headers", "crashed"} \/ phase' = phase)
    BY <1>2 DEF Next, BackpatchStep, Crash, ExposeNoReg, End, OptimiseLabel, EndRound, Backpatch, vars, read
  <2>2. Read(Procedures)' = Read(Procedures)
    BY <2>1 DEF Read, Lines, Text
  <2>. QED
    BY <2>1, <2>2 DEF Started
<1>. QED
  BY <1>1, <1>2

LEMMA StartedAlways == Spec => []Started
<1>1. Init => Started
  BY DEF Init, Started
<1>. QED
  BY <1>1, NextStarted, Placement, PTL DEF Spec

Link == INSTANCE LinkerInput WITH NumModules <- 1

(* An assembled module, as a program of one module: a procedure is defined *)
(* here if its entry has a start.                                          *)
LinkEntry(x) ==
  CASE x.type = "proc" -> [type |-> "proc", module |-> 1, name |-> x.name, defined |-> x.start # NONE]
    [] x.type = "reg"  -> [type |-> "reg", module |-> 1, index |-> x.index, global |-> x.global]
    [] OTHER           -> [type |-> "expose", module |-> 1, index |-> x.index,
                           procedure |-> x.procedure, imported |-> x.imported]
Loaded == [pool |-> [e \in DOMAIN pool |-> LinkEntry(pool[e])], globals |-> [m \in {1} |-> globals]]

(* The procedures of the module, with their entries.                       *)
LEMMA AssembledProcs ==
  ASSUME Base, Errors, Linked, Assembled, NEW e \in Entries({"proc"})
  PROVE  /\ pool[e].name \in DOMAIN procs /\ procs[pool[e].name].index = e
         /\ pool[e].start = NONE => \E x \in Entries({"expose"}) : pool[x].procedure = e
<1>1. PoolShape /\ PoolRight /\ DefinedPlaced /\ Tracked /\ UsesDefined
  BY DEF Linked, Assembled, Errors
<1> DEFINE name == pool[e].name
<1>2. name \in DOMAIN procs /\ procs[name].index = e
  BY <1>1 DEF PoolRight, OwnEntry
<1> HIDE DEF name
<1>3. PICK j \in Lines(Procedures) : Text(j).name = name
  <2>1. CASE procs[name].defined
    BY <1>1, <1>2, <2>1 DEF Tracked, ProcsTracked, Duplicate, Known, Read
  <2>2. CASE ~ procs[name].defined
    <3>1. \E t \in Read({"call"}) : t.to[1] = name
      BY <1>1, <1>2, <2>2 DEF Tracked, ProcsTracked
    <3>2. PICK k \in Lines({"call"}) : Text(k).to[1] = name
      BY <3>1 DEF Read
    <3>3. k \in Instructions /\ name \in ProcsOf(Text(k))
      BY <3>2 DEF Lines, Instructions, ProcsOf, Text, Directives
    <3>. QED
      BY <1>1, <3>3 DEF UsesDefined
  <2>. QED
    BY <2>1, <2>2
<1>4. ASSUME pool[e].start = NONE
      PROVE  \E x \in Entries({"expose"}) : pool[x].procedure = e
  <2>1. j \notin Lines({".proc", ".expproc"})
    <3>1. ASSUME j \in Lines({".proc", ".expproc"}) PROVE FALSE
      <4>1. pool[e].start = source[j].at /\ source[j].at \in Nat
        BY <1>1, <1>2, <1>3, <3>1 DEF DefinedPlaced, Base, Shape, Lines
      <4>. QED
        BY <1>4, <4>1, AssemblerAssumption
    <3>. QED
      BY <3>1
  <2>2. Text(j) \in ExposedLines
    BY <2>1 DEF Lines, Procedures, ExposedLines, Read, Text
  <2>3. PICK x \in Entries({"expose"}) : pool[pool[x].procedure].name = name
    BY <1>1, <1>3, <2>2 DEF PoolRight, ExposedFound
  <2>4. pool[x].procedure \in Entries({"proc"})
    BY <1>1 DEF PoolRight, ExposedKnown
  <2>5. pool[x].procedure = e
    BY <1>1, <1>2, <2>3, <2>4 DEF PoolRight, OwnEntry
  <2>. QED
    BY <2>5
<1>. QED
  BY <1>2, <1>4 DEF name

(* The registers that the module exposes.                                  *)
LEMMA AssembledRegisters ==
  ASSUME Base, Errors, Linked, Assembled
  PROVE  /\ \A e \in Entries({"reg"}) : pool[e].global \in 0 .. globals - 1
         /\ \A d, e \in Entries({"reg"}) : pool[d].global = pool[e].global => d = e
<1>1. PoolRight /\ GlobalsThere /\ GlobalsExposedOnce /\ GlobalsTracked
  BY DEF Linked, Assembled, Errors, Tracked, RightSoFar
<1>2. ASSUME NEW e \in Entries({"reg"})
      PROVE  \E k \in Lines({".exposereg"}) : Text(k).n = pool[e].global /\ Text(k).index = pool[e].index
  BY <1>1 DEF PoolRight, RegistersKnown, SaidRegister, RegisterLines, Read
<1>3. ASSUME NEW e \in Entries({"reg"})
      PROVE  pool[e].global \in 0 .. globals - 1
  <2>1. PICK k \in Lines({".exposereg"}) : Text(k).n = pool[e].global
    BY <1>2
  <2>2. PICK j \in Lines({".globals"}) : Text(k).n < Text(j).n
    BY <1>1 DEF GlobalsThere
  <2>3. Text(k).n \in Nat /\ Text(j).n \in Nat
    <3>1. \A i \in DOMAIN source : IsLine(Text(i))
      BY AssemblerAssumption DEF Base, Shape, Text
    <3>. QED
      BY <3>1 DEF IsLine, Lines, Text
  <2>4. Text(j) \in Read({".globals"}) /\ Text(j).n # 0
    BY <2>2, <2>3 DEF Read
  <2>5. Text(j).n = globals
    BY <1>1, <2>4 DEF GlobalsTracked, Assembled
  <2>. QED
    BY <2>1, <2>2, <2>3, <2>5
<1>4. ASSUME NEW d \in Entries({"reg"}), NEW e \in Entries({"reg"}), pool[d].global = pool[e].global
      PROVE  d = e
  <2>1. PICK j \in Lines({".exposereg"}) : Text(j).n = pool[d].global /\ Text(j).index = pool[d].index
    BY <1>2
  <2>2. PICK k \in Lines({".exposereg"}) : Text(k).n = pool[e].global /\ Text(k).index = pool[e].index
    BY <1>2
  <2>3. j = k
    BY <1>1, <1>4, <2>1, <2>2 DEF GlobalsExposedOnce
  <2>4. d \in Entries({"reg", "expose"}) /\ e \in Entries({"reg", "expose"})
    BY DEF Entries
  <2>. QED
    BY <1>1, <2>1, <2>2, <2>3, <2>4 DEF PoolRight, IndicesKnown
<1>. QED
  BY <1>3, <1>4

(* The procedures that the module exposes or declares.                     *)
LEMMA AssembledExposed ==
  ASSUME Base, Errors, Linked, Assembled
  PROVE  /\ \A e \in Entries({"expose"}) :
              pool[e].procedure \in Entries({"proc"}) /\ ImportedRight(pool[e], pool[pool[e].procedure])
         /\ \A d, e \in Entries({"expose"}) : pool[d].procedure = pool[e].procedure => d = e
<1>1. PoolRight /\ ProceduresOnce
  BY DEF Linked, Assembled, Errors, RightSoFar
<1>2. ASSUME NEW e \in Entries({"expose"})
      PROVE  \E k \in Lines(Procedures) : /\ Text(k).name = pool[pool[e].procedure].name
                                          /\ Text(k).index = pool[e].index
  <2>1. SaidExposed(ExposedLines, pool[pool[e].procedure].name, pool[e].index)
    BY <1>1 DEF PoolRight, ExposedKnown
  <2>2. Lines({".expproc", ".declare"}) \subseteq Lines(Procedures)
    BY DEF Lines, Procedures
  <2>. QED
    BY <2>1, <2>2 DEF SaidExposed, ExposedLines, Read
<1>3. ASSUME NEW d \in Entries({"expose"}), NEW e \in Entries({"expose"}), pool[d].procedure = pool[e].procedure
      PROVE  d = e
  <2>1. PICK j \in Lines(Procedures) : Text(j).name = pool[pool[d].procedure].name /\ Text(j).index = pool[d].index
    BY <1>2
  <2>2. PICK k \in Lines(Procedures) : Text(k).name = pool[pool[e].procedure].name /\ Text(k).index = pool[e].index
    BY <1>2
  <2>3. j = k
    BY <1>1, <1>3, <2>1, <2>2 DEF ProceduresOnce, SameName
  <2>4. d \in Entries({"reg", "expose"}) /\ e \in Entries({"reg", "expose"})
    BY DEF Entries
  <2>. QED
    BY <1>1, <2>1, <2>2, <2>3, <2>4 DEF PoolRight, IndicesKnown
<1>. QED
  BY <1>1, <1>3 DEF PoolRight, ExposedKnown

LEMMA LinkEntryFields ==
  ASSUME NEW x, x.type \in EntryTypes
  PROVE  /\ LinkEntry(x).type = x.type /\ LinkEntry(x).module = 1
         /\ x.type = "proc" => LinkEntry(x).defined = (x.start # NONE)
         /\ x.type = "reg" => LinkEntry(x).index = x.index /\ LinkEntry(x).global = x.global
         /\ x.type = "expose" => /\ LinkEntry(x).index = x.index /\ LinkEntry(x).procedure = x.procedure
                                 /\ LinkEntry(x).imported = x.imported
<1>1. CASE x.type = "proc"
  BY <1>1 DEF LinkEntry
<1>2. CASE x.type = "reg"
  BY <1>2 DEF LinkEntry
<1>3. CASE x.type = "expose"
  BY <1>3 DEF LinkEntry
<1>. QED
  BY <1>1, <1>2, <1>3 DEF EntryTypes

(* What VMLink assumes of a program holds of every module that assembles:  *)
(* the linker finds each exposed register among the module's globals, each *)
(* exposed index once, and for a procedure without code where it comes     *)
(* from.                                                                   *)
THEOREM AssembledIsLinkable == Spec => [](Assembled => Link!IsProgram(Loaded))
<1>1. Base /\ Errors /\ Linked /\ Started => (Assembled => Link!IsProgram(Loaded))
  <2> SUFFICES ASSUME Base, Errors, Linked, Started, Assembled PROVE Link!IsProgram(Loaded)
    OBVIOUS
  <2> DEFINE P == Loaded.pool
  <2>1. /\ IsPool(pool) /\ DOMAIN pool = 1 .. Len(pool) /\ Len(pool) \in Nat /\ globals \in Nat
        /\ DOMAIN P = DOMAIN pool /\ \A e \in DOMAIN pool : P[e] = LinkEntry(pool[e])
    BY DEF Linked, PoolShape, IsPool, IsList, Loaded, Base, Shape
  <2>2. Len(P) = Len(pool) /\ Len(pool) # 0
    <3>1. Len(P) = Len(pool)
      BY <2>1 DEF Loaded
    <3>2. PICK t : t \in Read(Procedures)
      BY DEF Started, Assembled
    <3>3. t.name \in DOMAIN procs
      BY <3>2 DEF Errors, Tracked, ProcsTracked, Duplicate, Known
    <3>4. procs[t.name].index \in DOMAIN pool
      BY <3>3 DEF Linked, PoolShape, ProcsPlaced
    <3>. QED
      BY <2>1, <3>1, <3>4
  <2>3. \A e \in DOMAIN pool :
          /\ P[e].type = pool[e].type /\ P[e].type \in EntryTypes /\ P[e].module = 1
          /\ pool[e].type = "proc" => P[e].defined = (pool[e].start # NONE)
          /\ pool[e].type = "reg" => P[e].index = pool[e].index /\ P[e].global = pool[e].global
          /\ pool[e].type = "expose" => /\ P[e].procedure = pool[e].procedure
                                        /\ P[e].imported = pool[e].imported
    BY <2>1, LinkEntryFields DEF IsPool
  <2>4. Link!Modules = {1} /\ Loaded.globals \in [Link!Modules -> Nat] /\ Loaded.globals[1] = globals
    BY <2>1 DEF Link!Modules, Loaded
  <2>5. Link!CellsOf(Loaded) = {1} \X (0 .. globals - 1)
    BY <2>4 DEF Link!CellsOf
  <2> HIDE DEF P
  <2>6. ASSUME NEW e \in DOMAIN pool
        PROVE  Link!IsEntry(Loaded, P[e])
    <3>1. pool[e].type = "proc" => P[e].defined \in BOOLEAN
      BY <2>3
    <3>2. pool[e].type = "reg" => <<1, P[e].global>> \in Link!CellsOf(Loaded)
      BY <2>3, <2>5, AssembledRegisters DEF Entries
    <3>3. ASSUME pool[e].type = "expose"
          PROVE  /\ P[e].imported \in BOOLEAN /\ P[e].procedure \in 1 .. Len(P)
                 /\ P[P[e].procedure].type = "proc" /\ P[P[e].procedure].module = 1
                 /\ P[P[e].procedure].defined = ~ P[e].imported
      <4> DEFINE d == pool[e].procedure
      <4>1. /\ d \in DOMAIN pool /\ pool[d].type = "proc" /\ pool[e].imported = (pool[d].start = NONE)
        BY <3>3, AssembledExposed DEF Entries, ImportedRight
      <4>2. P[e].procedure = d /\ P[e].imported = pool[e].imported
        BY <2>3, <3>3
      <4>3. P[d].type = "proc" /\ P[d].module = 1 /\ P[d].defined = (pool[d].start # NONE)
        BY <2>3, <4>1
      <4> HIDE DEF d
      <4>4. P[d].defined = ~ P[e].imported /\ P[e].imported \in BOOLEAN
        BY <4>1, <4>2, <4>3
      <4>. QED
        BY <2>1, <2>2, <4>1, <4>2, <4>3, <4>4
    <3>. QED
      BY <2>3, <2>4, <3>1, <3>2, <3>3 DEF Link!IsEntry, EntryTypes, P
  <2>7. ASSUME NEW e \in DOMAIN pool, P[e].type = "proc", ~ P[e].defined
        PROVE  \E x \in DOMAIN pool : P[x].type = "expose" /\ P[x].procedure = e
    <3>1. e \in Entries({"proc"}) /\ pool[e].start = NONE
      BY <2>3, <2>7 DEF Entries
    <3>2. PICK x \in Entries({"expose"}) : pool[x].procedure = e
      BY <3>1, AssembledProcs
    <3>. QED
      BY <2>3, <3>2 DEF Entries
  <2>8. ASSUME NEW d \in DOMAIN pool, NEW e \in DOMAIN pool, d # e
        PROVE  Link!ExposedApart(P[d], P[e])
    <3>1. ASSUME P[d].type = "reg", P[e].type = "reg"
          PROVE  P[d].index # P[e].index /\ P[d].global # P[e].global
      <4>1. d \in Entries({"reg"}) /\ e \in Entries({"reg"})
            /\ d \in Entries({"reg", "expose"}) /\ e \in Entries({"reg", "expose"})
        BY <2>3, <3>1 DEF Entries
      <4>2. pool[d].global # pool[e].global
        BY <2>8, <4>1, AssembledRegisters
      <4>3. pool[d].index # pool[e].index
        BY <2>8, <4>1 DEF Linked, Assembled, PoolRight, IndicesKnown
      <4>. QED
        BY <2>3, <3>1, <4>2, <4>3
    <3>2. ASSUME P[d].type = "expose", P[e].type = "expose"
          PROVE  P[d].procedure # P[e].procedure
      <4>1. d \in Entries({"expose"}) /\ e \in Entries({"expose"})
        BY <2>3, <3>2 DEF Entries
      <4>. QED
        BY <2>3, <2>8, <3>2, <4>1, AssembledExposed
    <3>. QED
      BY <3>1, <3>2 DEF Link!ExposedApart
  <2>. QED
    BY <2>1, <2>2, <2>4, <2>6, <2>7, <2>8 DEF Link!IsProgram, P
<1>. QED
  BY <1>1, LinkedAlways, StartedAlways, PTL

=============================================================================
