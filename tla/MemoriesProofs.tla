--------------------------- MODULE MemoriesProofs ---------------------------
(***************************************************************************)
(* What holds of the entries of the memory and of the cache of vectors,    *)
(* for any number of entries, texts, lists of tags and clients.            *)
(***************************************************************************)
EXTENDS Memories, TLAPS

Acts ==
  [at : {"idle", "read", "write", "tell", "load", "install", "scope"},
   memo : Memos \cup {Nil}, text : Texts \cup {Nil}, tags : Labels \cup {Nil},
   meta : Labels \cup {Nil}, tool : BOOLEAN, row : Rows \cup {Nil},
   loaded : VectorSets \cup {Nil}, late : BOOLEAN, scoped : BOOLEAN, guarded : BOOLEAN]

FitsAct(o) ==
  /\ o.at \in {"read", "write"} => o.memo \in Memos
  /\ o.at = "write" => o.row \in Rows
  /\ o.at = "install" => o.loaded \in VectorSets

LEMMA AwayFits == Away \in Acts /\ FitsAct(Away) /\ Away.at = "idle" /\ Away.memo = Nil
                  /\ Away.late = FALSE /\ [Away EXCEPT !.at = "tell"] \in Acts
                  /\ FitsAct([Away EXCEPT !.at = "tell"])
  BY DEF Away, Acts, FitsAct

LEMMA LateFits == ASSUME NEW o \in Acts, FitsAct(o)
                  PROVE  [o EXCEPT !.late = TRUE] \in Acts /\ FitsAct([o EXCEPT !.late = TRUE])
  BY DEF Acts, FitsAct

LEMMA VectorsTyped == ASSUME rows \in [Memos -> Rows \cup {Nil}]
                      PROVE  Vectors \in VectorSets /\ Blank \in VectorSets
  BY DEF Vectors, Vector, Blank, VectorSets, Rows

Types ==
  /\ rows \in [Memos -> Rows \cup {Nil}] /\ want \in [Memos -> Fields \cup {Nil}]
  /\ cache \in VectorSets \cup {Nil} /\ stale \in BOOLEAN /\ broke \in BOOLEAN
  /\ act \in [Clients -> Acts]
  /\ \A c \in Clients : FitsAct(act[c])
  /\ \A m \in Memos : want[m] = Nil => rows[m] = Nil

LEMMA TypesSame == Types => MemoryTypeOK
  BY DEF Types, MemoryTypeOK, Acts, FitsAct

LEMMA InitTypes == MemoryInit => Types
  <1>1. ASSUME MemoryInit, NEW m \in Memos, rows[m] # Nil PROVE Shown(rows[m]) \in Fields
    BY <1>1 DEF MemoryInit, Shown, Rows, Fields
  <1>2. ASSUME MemoryInit, NEW m \in Memos, want[m] = Nil PROVE rows[m] = Nil
    <2>1. rows[m] # Nil => want[m] \in Fields
      BY <1>1, <1>2 DEF MemoryInit
    <2>. QED BY <1>2, <2>1, NilAssumption
  <1>3. MemoryInit => rows \in [Memos -> Rows \cup {Nil}]
    BY DEF MemoryInit
  <1>4. MemoryInit => want \in [Memos -> Fields \cup {Nil}]
    BY <1>1 DEF MemoryInit
  <1>5. MemoryInit => act \in [Clients -> Acts] /\ \A c \in Clients : FitsAct(act[c])
    BY AwayFits DEF MemoryInit
  <1>6. MemoryInit => cache \in VectorSets \cup {Nil} /\ stale \in BOOLEAN /\ broke \in BOOLEAN
    BY DEF MemoryInit
  <1>. QED BY <1>2, <1>3, <1>4, <1>5, <1>6 DEF Types

LEMMA GoesTyped == ASSUME act \in [Clients -> Acts], \A c \in Clients : FitsAct(act[c]),
                          NEW c \in Clients, Goes(c, "tell") \/ Goes(c, "idle"),
                          act[c].at = "idle" \/ Goes(c, "idle")
                   PROVE  act' \in [Clients -> Acts] /\ \A d \in Clients : FitsAct(act'[d])
  <1>1. ASSUME act[c].at = "idle"
        PROVE  [act[c] EXCEPT !.at = "tell"] \in Acts /\ FitsAct([act[c] EXCEPT !.at = "tell"])
    <2>1. act[c] \in Acts
      OBVIOUS
    <2>. QED BY <2>1 DEF Acts, FitsAct
  <1>2. CASE Goes(c, "idle")
    BY <1>2, AwayFits DEF Goes
  <1>3. CASE Goes(c, "tell") /\ act[c].at = "idle"
    BY <1>1, <1>3, AwayFits DEF Goes
  <1>. QED BY <1>2, <1>3

\* Each field of a record on its own.
LEMMA SetFields ==
  ASSUME NEW o \in Acts
  PROVE  /\ \A x \in {"idle", "read", "write", "tell", "load", "install", "scope"} :
              [o EXCEPT !.at = x] \in Acts /\ [o EXCEPT !.at = x].at = x
         /\ \A x \in Memos \cup {Nil} : [o EXCEPT !.memo = x] \in Acts /\ [o EXCEPT !.memo = x].memo = x
         /\ \A x \in Texts \cup {Nil} : [o EXCEPT !.text = x] \in Acts /\ [o EXCEPT !.text = x].text = x
         /\ \A x \in Labels \cup {Nil} : [o EXCEPT !.tags = x] \in Acts /\ [o EXCEPT !.tags = x].tags = x
         /\ \A x \in Labels \cup {Nil} : [o EXCEPT !.meta = x] \in Acts /\ [o EXCEPT !.meta = x].meta = x
         /\ \A x \in BOOLEAN : [o EXCEPT !.tool = x] \in Acts /\ [o EXCEPT !.tool = x].tool = x
         /\ \A x \in BOOLEAN : [o EXCEPT !.scoped = x] \in Acts /\ [o EXCEPT !.scoped = x].scoped = x
         /\ \A x \in BOOLEAN : [o EXCEPT !.guarded = x] \in Acts /\ [o EXCEPT !.guarded = x].guarded = x
  BY DEF Acts

LEMMA FetchFits ==
  ASSUME NEW m \in Memos, NEW t \in Texts \cup {Nil}, NEW g \in Labels \cup {Nil},
         NEW k \in Labels \cup {Nil}, NEW tool \in BOOLEAN
  PROVE  LET o == Reading(m, t, g, tool, k)
         IN /\ o \in Acts /\ FitsAct(o)
            /\ o.at = "read" /\ o.memo = m /\ o.tags = g /\ o.meta = k
            /\ ~o.tool => ~tool
  <1>. DEFINE o1 == [Away EXCEPT !.at = "read"]
              o2 == [o1 EXCEPT !.memo = m]
              o3 == [o2 EXCEPT !.text = t]
              o4 == [o3 EXCEPT !.tags = g]
              o5 == [o4 EXCEPT !.tool = tool]
              o6 == [o5 EXCEPT !.meta = k]
  <1>0. Away \in Acts /\ Away.late = FALSE
    BY AwayFits
  <1>1. o1 \in Acts /\ o1.at = "read" /\ o1.late = FALSE
    BY <1>0, SetFields DEF Acts
  <1>. HIDE DEF o1
  <1>2. o2 \in Acts /\ o2.at = "read" /\ o2.late = FALSE /\ o2.memo = m
    BY <1>1, SetFields DEF Acts
  <1>. HIDE DEF o2
  <1>3. o3 \in Acts /\ o3.at = "read" /\ o3.late = FALSE /\ o3.memo = m /\ o3.text = t
    BY <1>2, SetFields DEF Acts
  <1>. HIDE DEF o3
  <1>4. o4 \in Acts /\ o4.at = "read" /\ o4.late = FALSE /\ o4.memo = m /\ o4.text = t /\ o4.tags = g
    BY <1>3, SetFields DEF Acts
  <1>. HIDE DEF o4
  <1>5. o5 \in Acts /\ o5.at = "read" /\ o5.late = FALSE /\ o5.memo = m /\ o5.text = t /\ o5.tags = g
        /\ o5.tool = tool
    BY <1>4, SetFields DEF Acts
  <1>. HIDE DEF o5
  <1>6. o6 \in Acts /\ o6.at = "read" /\ o6.late = FALSE /\ o6.memo = m /\ o6.text = t /\ o6.tags = g
        /\ o6.tool = tool /\ o6.meta = k
    BY <1>5, SetFields DEF Acts
  <1>7. FitsAct(o6)
    BY <1>6 DEF FitsAct
  <1>. QED BY <1>6, <1>7 DEF o5, o4, o3, o2, o1, Reading

LEMMA SeekFits ==
  ASSUME NEW s \in BOOLEAN, NEW h \in BOOLEAN, NEW a \in {"load", "scope"}
  PROVE  LET o == [Away EXCEPT !.at = a, !.scoped = s, !.guarded = h]
             p == [Away EXCEPT !.at = a, !.guarded = h]
         IN o \in Acts /\ FitsAct(o) /\ o.at = a /\ p \in Acts /\ FitsAct(p) /\ p.at = a
            /\ o.memo = Nil /\ p.memo = Nil
  <1>. DEFINE o1 == [Away EXCEPT !.at = a]
              o2 == [o1 EXCEPT !.scoped = s]
              o3 == [o2 EXCEPT !.guarded = h]
              p2 == [o1 EXCEPT !.guarded = h]
  <1>1. o1 \in Acts /\ o1.at = a /\ o1.memo = Nil
    BY AwayFits, SetFields DEF Acts
  <1>. HIDE DEF o1
  <1>2. o2 \in Acts /\ o2.at = a /\ o2.memo = Nil
    BY <1>1, SetFields DEF Acts
  <1>3. p2 \in Acts /\ p2.at = a /\ p2.memo = Nil
    BY <1>1, SetFields DEF Acts
  <1>. HIDE DEF o2
  <1>4. o3 \in Acts /\ o3.at = a /\ o3.memo = Nil
    BY <1>2, SetFields DEF Acts
  <1>5. FitsAct(o3) /\ FitsAct(p2)
    BY <1>3, <1>4 DEF FitsAct
  <1>. QED BY <1>3, <1>4, <1>5 DEF o2, o1

LEMMA SeekAt ==
  ASSUME NEW s \in BOOLEAN, NEW h \in BOOLEAN
  PROVE  /\ [Away EXCEPT !.at = "load", !.scoped = s, !.guarded = h].at = "load"
         /\ [Away EXCEPT !.at = "scope", !.guarded = h].at = "scope"
  BY DEF Away

LEMMA StepTypes == Types /\ [MemoryNext]_memoryVars => Types'
  <1>. SUFFICES ASSUME Types, [MemoryNext]_memoryVars PROVE Types'
    OBVIOUS
  <1>1. CASE UNCHANGED memoryVars
    BY <1>1 DEF Types, memoryVars, FitsAct
  <1>2. ASSUME NEW c \in Clients, AddMemo(c) PROVE Types'
    <2>1. act' \in [Clients -> Acts] /\ \A d \in Clients : FitsAct(act'[d])
      BY <1>2, GoesTyped DEF AddMemo, Types, Use
    <2>2. rows' \in [Memos -> Rows \cup {Nil}] /\ want' \in [Memos -> Fields \cup {Nil}]
      BY <1>2 DEF AddMemo, Types, Rows, Fields
    <2>3. \A m \in Memos : want'[m] = Nil => rows'[m] = Nil
      BY <1>2, NilAssumption DEF AddMemo, Types, Fields
    <2>. QED BY <1>2, <2>1, <2>2, <2>3 DEF AddMemo, Types, FitsAct
  <1>3. ASSUME NEW c \in Clients, IngestMemo(c) PROVE Types'
    <2>2. rows' \in [Memos -> Rows \cup {Nil}] /\ want' \in [Memos -> Fields \cup {Nil}]
      BY <1>3 DEF IngestMemo, Types, Rows, Fields
    <2>3. \A m \in Memos : want'[m] = Nil => rows'[m] = Nil
      BY <1>3, NilAssumption DEF IngestMemo, Types, Fields
    <2>. QED BY <1>3, <2>2, <2>3 DEF IngestMemo, Types, FitsAct
  <1>4. ASSUME NEW c \in Clients, Fetch(c) PROVE Types'
    <2>1. PICK m \in {x \in Memos : rows[x] # Nil}, t \in Texts \cup {Nil}, g \in Labels \cup {Nil}, tool \in BOOLEAN :
            /\ t # Nil \/ g # Nil
            /\ act' = [act EXCEPT ![c] =
                 Reading(m, t, g, tool, IF g # Nil THEN g ELSE IF tool THEN rows[m].tags ELSE Nil)]
      BY <1>4, Zenon DEF Fetch
    <2>. DEFINE k == IF g # Nil THEN g ELSE IF tool THEN rows[m].tags ELSE Nil
                o == Reading(m, t, g, tool, k)
    <2>2. rows[m] \in Rows /\ k \in Labels \cup {Nil}
      BY DEF Types, Rows
    <2>3. o \in Acts /\ FitsAct(o)
      <3>. HIDE DEF k
      <3>. QED BY <2>2, FetchFits
    <2>4. act' = [act EXCEPT ![c] = o]
      BY <2>1
    <2>5. act' \in [Clients -> Acts] /\ \A d \in Clients : FitsAct(act'[d])
      <3>. HIDE DEF o
      <3>. QED BY <2>3, <2>4 DEF Types
    <2>. QED BY <1>4, <2>5 DEF Fetch, Types, FitsAct
  <1>5. ASSUME NEW c \in Clients, ReadFields(c) PROVE Types'
    <2>1. act' \in [Clients -> Acts] /\ \A d \in Clients : FitsAct(act'[d])
      <3>1. act[c] \in Acts /\ act[c].memo \in Memos
        BY <1>5 DEF ReadFields, Types, FitsAct
      <3>2. ASSUME rows[act[c].memo] # Nil
            PROVE  LET o == [act[c] EXCEPT !.at = "write", !.row = rows[act[c].memo], !.tool = FALSE]
                   IN o \in Acts /\ FitsAct(o)
        <4>1. rows[act[c].memo] \in Rows
          BY <3>1, <3>2 DEF Types
        <4>. QED BY <3>1, <4>1 DEF Acts, FitsAct
      <3>. QED BY <1>5, <3>2, AwayFits DEF ReadFields, Types
    <2>. QED BY <1>5, <2>1 DEF ReadFields, Types, FitsAct
  <1>6. ASSUME NEW c \in Clients, WriteFields(c) PROVE Types'
    <2>. DEFINE o == act[c]
                m == o.memo
    <2>1. o \in Acts /\ o.at = "write" /\ m \in Memos /\ o.row \in Rows
      BY <1>6 DEF WriteFields, Types, FitsAct
    <2>2. CASE rows[m] = Nil
      BY <1>6, <2>2, GoesTyped DEF WriteFields, Types, FitsAct
    <2>3. CASE rows[m] # Nil
      <3>1. PICK v \in {o.text, Nil} :
              rows' = [rows EXCEPT ![m] =
                    [text |-> IF o.text # Nil THEN o.text ELSE o.row.text,
                     tags |-> IF o.meta # Nil THEN o.meta ELSE o.row.tags,
                     vec |-> IF o.text # Nil THEN v ELSE @.vec]]
        BY <1>6, <2>3 DEF WriteFields
      <3>2. rows[m] \in Rows /\ v \in Texts \cup {Nil}
        BY <2>1, <2>3 DEF Types, Acts
      <3>3. rows' \in [Memos -> Rows \cup {Nil}]
        BY <2>1, <3>1, <3>2 DEF Types, Acts, Rows
      <3>4. want' \in [Memos -> Fields \cup {Nil}]
        <4>1. want' = [want EXCEPT ![m] =
                  [text |-> IF o.text # Nil THEN o.text ELSE @.text,
                   tags |-> IF o.tags # Nil THEN o.tags ELSE @.tags]]
          BY <1>6, <2>3 DEF WriteFields
        <4>2. \A x \in Fields : [text |-> IF o.text # Nil THEN o.text ELSE x.text,
                                 tags |-> IF o.tags # Nil THEN o.tags ELSE x.tags] \in Fields
          BY <2>1 DEF Acts, Fields
        <4>3. want[m] \in Fields
          BY <2>1, <2>3 DEF Types
        <4>. QED BY <2>1, <4>1, <4>2, <4>3 DEF Types
      <3>6. \A x \in Memos : want'[x] = Nil => rows'[x] = Nil
        <4>1. want'[m] \in Fields /\ \A x \in Memos : x # m => want'[x] = want[x]
          <5>1. want' = [want EXCEPT ![m] =
                    [text |-> IF o.text # Nil THEN o.text ELSE @.text,
                     tags |-> IF o.tags # Nil THEN o.tags ELSE @.tags]]
            BY <1>6, <2>3 DEF WriteFields
          <5>2. \A x \in Fields : [text |-> IF o.text # Nil THEN o.text ELSE x.text,
                                   tags |-> IF o.tags # Nil THEN o.tags ELSE x.tags] \in Fields
            BY <2>1 DEF Acts, Fields
          <5>3. want[m] \in Fields
            BY <2>1, <2>3 DEF Types
          <5>. QED BY <2>1, <5>1, <5>2, <5>3 DEF Types
        <4>2. \A x \in Memos : x # m => rows'[x] = rows[x]
          BY <3>1 DEF Types
        <4>3. want'[m] # Nil
          BY <4>1, NilAssumption
        <4>. QED BY <4>1, <4>2, <4>3 DEF Types
      <3>5. act' \in [Clients -> Acts] /\ \A d \in Clients : FitsAct(act'[d])
        <4>1. act' = [d \in Clients |->
                  IF d = c THEN [Away EXCEPT !.at = "tell"]
                  ELSE IF Holding(d, m) THEN [act[d] EXCEPT !.late = TRUE] ELSE act[d]]
          BY <1>6, <2>3 DEF WriteFields
        <4>. QED BY <4>1, AwayFits, LateFits DEF Types
      <3>. QED BY <1>6, <3>3, <3>4, <3>5, <3>6 DEF WriteFields, Types, FitsAct
    <2>. QED BY <2>2, <2>3
  <1>7. ASSUME NEW c \in Clients, DeleteMemo(c) PROVE Types'
    <2>1. act' \in [Clients -> Acts] /\ \A d \in Clients : FitsAct(act'[d])
      BY <1>7, GoesTyped DEF DeleteMemo, Types, Use
    <2>. QED BY <1>7, <2>1 DEF DeleteMemo, Types, FitsAct
  <1>8. ASSUME NEW c \in Clients, Tell(c) PROVE Types'
    <2>1. act' \in [Clients -> Acts] /\ \A d \in Clients : FitsAct(act'[d])
      BY <1>8, AwayFits, LateFits DEF Tell, Types
    <2>. QED BY <1>8, <2>1 DEF Tell, Types, FitsAct
  <1>9. ASSUME NEW c \in Clients, CancelUse(c) PROVE Types'
    <2>1. act' \in [Clients -> Acts] /\ \A d \in Clients : FitsAct(act'[d])
      BY <1>9, AwayFits, LateFits DEF CancelUse, Types
    <2>. QED BY <1>9, <2>1 DEF CancelUse, Types, FitsAct
  <1>10. ASSUME NEW c \in Clients, Seek(c) PROVE Types'
    <2>1. PICK s \in BOOLEAN, h \in BOOLEAN :
            act' = [act EXCEPT ![c] =
              IF cache = Nil THEN [Away EXCEPT !.at = "load", !.scoped = s, !.guarded = h]
              ELSE IF s THEN [Away EXCEPT !.at = "scope", !.guarded = h] ELSE Away]
      BY <1>10, Zenon DEF Seek
    <2>2. act' \in [Clients -> Acts] /\ \A d \in Clients : FitsAct(act'[d])
      BY <2>1, AwayFits, SeekFits DEF Types
    <2>. QED BY <1>10, <2>2 DEF Seek, Types, FitsAct
  <1>11. ASSUME NEW c \in Clients, LoadVectors(c) PROVE Types'
    <2>1. act' \in [Clients -> Acts] /\ \A d \in Clients : FitsAct(act'[d])
      <3>1. act[c] \in Acts /\ Vectors \in VectorSets
        BY VectorsTyped DEF Types
      <3>2. LET o == [act[c] EXCEPT !.at = "install", !.loaded = Vectors] IN o \in Acts /\ FitsAct(o)
        BY <3>1 DEF Acts, FitsAct
      <3>3. act' = [act EXCEPT ![c] = [act[c] EXCEPT !.at = "install", !.loaded = Vectors]]
        BY <1>11, <3>1 DEF LoadVectors, Types
      <3>. QED BY <3>2, <3>3 DEF Types
    <2>. QED BY <1>11, <2>1 DEF LoadVectors, Types, FitsAct
  <1>12. ASSUME NEW c \in Clients, Install(c) PROVE Types'
    <2>1. act[c].loaded \in VectorSets
      BY <1>12 DEF Install, Types, FitsAct
    <2>2. act[c].guarded \in BOOLEAN
      BY DEF Types, Acts
    <2>3. act' \in [Clients -> Acts] /\ \A d \in Clients : FitsAct(act'[d])
      BY <1>12, <2>2, AwayFits, LateFits, SeekFits DEF Install, Types
    <2>. QED BY <1>12, <2>1, <2>3 DEF Install, Types, FitsAct
  <1>13. ASSUME NEW c \in Clients, Scoped(c) PROVE Types'
    <2>1. act' \in [Clients -> Acts] /\ \A d \in Clients : FitsAct(act'[d])
      BY <1>13, GoesTyped DEF Scoped, Types
    <2>. QED BY <1>13, <2>1 DEF Scoped, Types, FitsAct
  <1>. QED BY <1>1, <1>2, <1>3, <1>4, <1>5, <1>6, <1>7, <1>8, <1>9, <1>10, <1>11, <1>12, <1>13
           DEF MemoryNext

\* The type invariant of the entries, their clients and the cache, whatever is
\* called (store.py, search.py).
THEOREM MemoryTypes == MemorySpec => []MemoryTypeOK
  <1>1. MemorySpec => []Types
    BY InitTypes, StepTypes, PTL DEF MemorySpec
  <1>. QED BY <1>1, TypesSame, PTL

-----------------------------------------------------------------------------
(* What was given last stays.  Inductive with what an update under way holds:  *)
(* unless another came between, its fields are those of the entry.             *)
Busy(o) == o.at \in {"read", "write"}
Untouched(o) ==
  /\ o.at = "write" => Shown(o.row) = Shown(rows[o.memo])
  /\ o.tags # Nil => o.meta = o.tags
  /\ o.tags = Nil => o.meta = Nil \/ o.meta = rows[o.memo].tags
  /\ o.at = "read" /\ ~o.tool /\ o.tags = Nil => o.meta = Nil
Held(o) ==
  Busy(o) => /\ want[o.memo] # Nil
             /\ ~o.late /\ rows[o.memo] # Nil /\ o.memo \notin raced => Untouched(o)
Stays == FieldsStay /\ \A c \in Clients : Held(act[c])

LEMMA InitStays == MemoryInit => Stays
  <1>1. ASSUME MemoryInit, NEW m \in Memos, rows[m] # Nil
        PROVE  rows[m].vec \in {Nil, rows[m].text} /\ Shown(rows[m]) = want[m]
    BY <1>1 DEF MemoryInit
  <1>2. \A c \in Clients : MemoryInit => ~Busy(act[c])
    BY AwayFits DEF MemoryInit, Busy
  <1>. QED BY <1>1, <1>2 DEF Stays, FieldsStay, Held

LEMMA StaysSame ==
  ASSUME Stays, UNCHANGED <<rows, want, raced>>,
         \A c \in Clients : act'[c] = act[c] \/ ~Busy(act'[c])
  PROVE  Stays'
  BY DEF Stays, FieldsStay, Held, Untouched, Busy, Shown

\* An entry that is not there yet has no update under way.
LEMMA StaysNew ==
  ASSUME Types, Stays, NEW m \in Memos, NEW t \in Texts, NEW g \in Labels, NEW v \in {t, Nil},
         want[m] = Nil,
         rows' = [rows EXCEPT ![m] = [text |-> t, tags |-> g, vec |-> v]],
         want' = [want EXCEPT ![m] = [text |-> t, tags |-> g]],
         raced' = raced,
         \A c \in Clients : act'[c] = act[c] \/ ~Busy(act'[c])
  PROVE  Stays'
  <1>1. FieldsStay'
    BY DEF Stays, FieldsStay, Types, Shown
  <1>2. ASSUME NEW c \in Clients PROVE Held(act[c])'
    <2>1. CASE ~Busy(act'[c])
      BY <2>1 DEF Held, Busy
    <2>2. CASE act'[c] = act[c] /\ Busy(act[c])
      <3>1. act[c].memo \in Memos /\ act[c].memo # m
        BY <2>2 DEF Types, FitsAct, Busy, Stays, Held
      <3>2. rows'[act[c].memo] = rows[act[c].memo] /\ want'[act[c].memo] = want[act[c].memo]
        BY <3>1 DEF Types
      <3>. QED BY <2>2, <3>2 DEF Stays, Held, Untouched, Busy, Shown
    <2>. QED BY <2>1, <2>2
  <1>. QED BY <1>1, <1>2 DEF Stays

LEMMA LateSame == ASSUME NEW o \in Acts
                  PROVE  [o EXCEPT !.late = TRUE].at = o.at /\ [o EXCEPT !.late = TRUE].late = TRUE
                         /\ [o EXCEPT !.late = TRUE].memo = o.memo
  BY DEF Acts

LEMMA GoesIdle == ASSUME act \in [Clients -> Acts], NEW c \in Clients, NEW x \in {"idle", "tell"},
                         Goes(c, x), act[c].at = "idle" \/ x = "idle"
                  PROVE  /\ ~Busy(act'[c]) /\ act'[c].at = x
                         /\ \A d \in Clients : d # c => act'[d] = act[d]
  <1>1. x = "tell" => act'[c] = [act[c] EXCEPT !.at = "tell"]
    BY DEF Goes
  <1>2. [act[c] EXCEPT !.at = "tell"].at = "tell"
    BY SetFields
  <1>3. x = "idle" => act'[c] = Away
    BY DEF Goes
  <1>. QED BY <1>1, <1>2, <1>3, AwayFits DEF Goes, Busy

\* The write itself: its fields were those of the entry, or the entry is raced.
LEMMA WriteStays ==
  ASSUME Types, Stays, NEW c \in Clients, WriteFields(c)
  PROVE  Stays'
  <1>. DEFINE o == act[c]
              m == o.memo
  <1>1. o \in Acts /\ o.at = "write" /\ m \in Memos /\ o.row \in Rows /\ Busy(o)
    BY DEF WriteFields, Types, FitsAct, Busy
  <1>2. CASE rows[m] = Nil
    <2>1. Goes(c, "idle") /\ UNCHANGED <<rows, want, raced>>
      BY <1>2 DEF WriteFields
    <2>2. \A d \in Clients : act'[d] = act[d] \/ ~Busy(act'[d])
      BY <2>1, GoesIdle DEF Types
    <2>. QED BY <2>1, <2>2, StaysSame
  <1>3. CASE rows[m] # Nil
    <2>1. PICK v \in {o.text, Nil} :
            rows' = [rows EXCEPT ![m] =
                  [text |-> IF o.text # Nil THEN o.text ELSE o.row.text,
                   tags |-> IF o.meta # Nil THEN o.meta ELSE o.row.tags,
                   vec |-> IF o.text # Nil THEN v ELSE @.vec]]
      BY <1>3 DEF WriteFields
    <2>2. want' = [want EXCEPT ![m] =
                [text |-> IF o.text # Nil THEN o.text ELSE @.text,
                 tags |-> IF o.tags # Nil THEN o.tags ELSE @.tags]]
      BY <1>3 DEF WriteFields
    <2>3. raced' = (IF o.late THEN raced \cup {m} ELSE raced)
      BY <1>3 DEF WriteFields
    <2>4. act' = [d \in Clients |->
                IF d = c THEN [Away EXCEPT !.at = "tell"]
                ELSE IF Holding(d, m) THEN [act[d] EXCEPT !.late = TRUE] ELSE act[d]]
      BY <1>3 DEF WriteFields
    <2>5. rows[m] \in Rows /\ want[m] \in Fields
      BY <1>1, <1>3 DEF Types
    <2>6. \A x \in Memos : x # m => rows'[x] = rows[x] /\ want'[x] = want[x]
      BY <2>1, <2>2 DEF Types
    <2>7. rows'[m] = [text |-> IF o.text # Nil THEN o.text ELSE o.row.text,
                      tags |-> IF o.meta # Nil THEN o.meta ELSE o.row.tags,
                      vec |-> IF o.text # Nil THEN v ELSE rows[m].vec]
      BY <1>1, <2>1 DEF Types
    <2>8. want'[m] = [text |-> IF o.text # Nil THEN o.text ELSE want[m].text,
                      tags |-> IF o.tags # Nil THEN o.tags ELSE want[m].tags]
      BY <1>1, <2>2 DEF Types
    <2>9. want'[m] \in Fields
      BY <1>1, <2>5, <2>8 DEF Acts, Fields
    <2>10. ASSUME m \notin raced'
           PROVE  Shown(rows'[m]) = want'[m] /\ rows'[m].vec \in {Nil, rows'[m].text}
      <3>1. ~o.late /\ m \notin raced
        BY <2>3, <2>10 DEF Acts
      <3>2. Untouched(o)
        BY <1>1, <1>3, <3>1 DEF Stays, Held
      <3>3. Shown(rows[m]) = want[m] /\ rows[m].vec \in {Nil, rows[m].text}
        BY <1>1, <1>3, <3>1 DEF Stays, FieldsStay
      <3>4. o.row.text = rows[m].text /\ o.row.tags = rows[m].tags
        BY <1>1, <3>2 DEF Untouched, Shown
      <3>5. want[m].text = rows[m].text /\ want[m].tags = rows[m].tags
        BY <3>3 DEF Shown
      <3>. QED BY <2>7, <2>8, <3>2, <3>3, <3>4, <3>5 DEF Untouched, Shown
    <2>11. FieldsStay'
      <3>1. ASSUME NEW x \in Memos, x # m, rows'[x] # Nil, x \notin raced'
            PROVE  Shown(rows'[x]) = want'[x] /\ rows'[x].vec \in {Nil, rows'[x].text}
        BY <2>3, <2>6, <3>1 DEF Stays, FieldsStay
      <3>. QED BY <2>10, <3>1 DEF FieldsStay, Shown
    <2>12. ASSUME NEW d \in Clients, Busy(act'[d]) PROVE Held(act[d])'
      <3>1. d # c
        BY <2>4, <2>12, AwayFits, SetFields DEF Busy
      <3>2. act[d] \in Acts /\ FitsAct(act[d])
        BY DEF Types
      <3>3. act'[d].memo = act[d].memo /\ act'[d].at = act[d].at /\ (Holding(d, m) => act'[d].late)
        BY <2>4, <3>1, <3>2, LateSame
      <3>4. act[d].memo \in Memos /\ want[act[d].memo] # Nil
        BY <2>12, <3>2, <3>3 DEF FitsAct, Busy, Stays, Held
      <3>5. want'[act[d].memo] # Nil
        BY <2>6, <2>9, <3>4, NilAssumption
      <3>6. CASE Holding(d, m)
        BY <3>3, <3>5, <3>6 DEF Held
      <3>7. CASE ~Holding(d, m)
        <4>1. act'[d] = act[d]
          BY <2>4, <3>1, <3>7
        <4>2. CASE act[d].memo = m
          <5>1. act[d].at = "read" /\ ~act[d].tool
            BY <2>12, <3>7, <4>1, <4>2 DEF Holding, Busy
          <5>2. ~act[d].late /\ m \notin raced' => Untouched(act[d])
            BY <1>3, <2>3, <2>12, <4>1, <4>2 DEF Stays, Held
          <5>. QED BY <3>5, <4>1, <4>2, <5>1, <5>2 DEF Held, Untouched
        <4>3. CASE act[d].memo # m
          <5>1. rows'[act[d].memo] = rows[act[d].memo]
            BY <2>6, <3>4, <4>3
          <5>2. raced \subseteq raced'
            BY <2>3
          <5>. QED BY <2>12, <3>5, <4>1, <5>1, <5>2 DEF Stays, Held, Untouched, Busy, Shown
        <4>. QED BY <4>2, <4>3
      <3>. QED BY <3>6, <3>7
    <2>. QED BY <2>11, <2>12 DEF Stays, Held, Busy
  <1>. QED BY <1>2, <1>3

LEMMA StepStays == Types /\ Stays /\ [MemoryNext]_memoryVars => Stays'
  <1>. SUFFICES ASSUME Types, Stays, [MemoryNext]_memoryVars PROVE Stays'
    OBVIOUS
  <1>1. CASE UNCHANGED memoryVars
    BY <1>1, StaysSame DEF memoryVars
  <1>2. ASSUME NEW c \in Clients, AddMemo(c) PROVE Stays'
    <2>1. \A d \in Clients : act'[d] = act[d] \/ ~Busy(act'[d])
      BY <1>2, GoesIdle DEF AddMemo, Use, Types
    <2>2. PICK m \in Memos, t \in Texts, g \in Labels, v \in Texts \cup {Nil} :
            /\ want[m] = Nil /\ v \in {t, Nil}
            /\ rows' = [rows EXCEPT ![m] = [text |-> t, tags |-> g, vec |-> v]]
            /\ want' = [want EXCEPT ![m] = [text |-> t, tags |-> g]]
      BY <1>2, Zenon DEF AddMemo
    <2>. QED BY <1>2, <2>1, <2>2, StaysNew DEF AddMemo
  <1>3. ASSUME NEW c \in Clients, IngestMemo(c) PROVE Stays'
    <2>1. PICK m \in Memos, t \in Texts, g \in Labels :
            /\ want[m] = Nil
            /\ rows' = [rows EXCEPT ![m] = [text |-> t, tags |-> g, vec |-> Nil]]
            /\ want' = [want EXCEPT ![m] = [text |-> t, tags |-> g]]
      BY <1>3, Zenon DEF IngestMemo
    <2>. QED BY <1>3, <2>1, StaysNew DEF IngestMemo
  <1>4. ASSUME NEW c \in Clients, Fetch(c) PROVE Stays'
    <2>1. PICK m \in {x \in Memos : rows[x] # Nil}, t \in Texts \cup {Nil}, g \in Labels \cup {Nil}, tool \in BOOLEAN :
            /\ t # Nil \/ g # Nil
            /\ act' = [act EXCEPT ![c] =
                 Reading(m, t, g, tool, IF g # Nil THEN g ELSE IF tool THEN rows[m].tags ELSE Nil)]
      BY <1>4, Zenon DEF Fetch
    <2>2. PICK k : k = (IF g # Nil THEN g ELSE IF tool THEN rows[m].tags ELSE Nil)
      OBVIOUS
    <2>3. m \in Memos /\ k \in Labels \cup {Nil} /\ want[m] # Nil
      BY <2>2 DEF Types, Rows
    <2>4. PICK o : o = Reading(m, t, g, tool, k)
      OBVIOUS
    <2>5. o.at = "read" /\ o.memo = m /\ o.tags = g /\ o.meta = k /\ (~o.tool => ~tool)
      <3>. DEFINE e == Reading(m, t, g, tool, k)
      <3>1. e.at = "read" /\ e.memo = m /\ e.tags = g /\ e.meta = k /\ (~e.tool => ~tool)
        BY <2>3, FetchFits
      <3>. HIDE DEF e
      <3>2. o = e
        BY <2>4 DEF e
      <3>. QED BY <3>1, <3>2
    <2>6. act' = [act EXCEPT ![c] = o]
      BY <2>1, <2>2, <2>4
    <2>7. UNCHANGED <<rows, want, raced>>
      BY <1>4 DEF Fetch
    <2>8. Held(o)'
      BY <2>2, <2>3, <2>5, <2>7 DEF Held, Untouched, Busy
    <2>9. FieldsStay'
      BY <2>7 DEF Stays, FieldsStay, Shown
    <2>10. ASSUME NEW d \in Clients PROVE Held(act[d])'
      <3>1. act'[d] = IF d = c THEN o ELSE act[d]
        BY <2>6 DEF Types
      <3>. QED BY <2>7, <2>8, <3>1 DEF Stays, Held, Untouched, Busy, Shown
    <2>. QED BY <2>9, <2>10 DEF Stays
  <1>5. ASSUME NEW c \in Clients, ReadFields(c) PROVE Stays'
    <2>. PICK o : o = act[c]
      OBVIOUS
    <2>1. UNCHANGED <<rows, want, raced>> /\ o.at = "read" /\ o \in Acts
      BY <1>5 DEF ReadFields, Types
    <2>. PICK n : n = [o EXCEPT !.at = "write", !.row = rows[o.memo], !.tool = FALSE]
      OBVIOUS
    <2>2. CASE rows[o.memo] = Nil
      <3>1. act' = [act EXCEPT ![c] = Away]
        BY <1>5, <2>2 DEF ReadFields, Types
      <3>2. \A d \in Clients : act'[d] = act[d] \/ ~Busy(act'[d])
        BY <3>1, AwayFits DEF Types, Busy
      <3>. QED BY <2>1, <3>2, StaysSame
    <2>3. CASE rows[o.memo] # Nil
      <3>1. act' = [act EXCEPT ![c] = n]
        BY <1>5, <2>3 DEF ReadFields, Types
      <3>2. n.at = "write" /\ n.memo = o.memo /\ n.row = rows[o.memo] /\ n.late = o.late
            /\ n.tags = o.tags /\ n.meta = o.meta
        BY <2>1 DEF Acts
      <3>3. Held(n)'
        <4>1. Held(o)
          BY DEF Stays
        <4>. QED BY <2>1, <3>2, <4>1 DEF Held, Untouched, Busy, Shown
      <3>4. FieldsStay'
        BY <2>1 DEF Stays, FieldsStay, Shown
      <3>5. ASSUME NEW d \in Clients PROVE Held(act[d])'
        <4>1. act'[d] = IF d = c THEN n ELSE act[d]
          BY <3>1 DEF Types
        <4>. QED BY <2>1, <3>3, <4>1 DEF Stays, Held, Untouched, Busy, Shown
      <3>. QED BY <3>4, <3>5 DEF Stays
    <2>. QED BY <2>2, <2>3
  <1>6. ASSUME NEW c \in Clients, WriteFields(c) PROVE Stays'
    BY <1>6, WriteStays
  <1>7. ASSUME NEW c \in Clients, DeleteMemo(c) PROVE Stays'
    <2>1. \A d \in Clients : act'[d] = act[d] \/ ~Busy(act'[d])
      BY <1>7, GoesIdle DEF DeleteMemo, Use, Types
    <2>2. PICK m \in Memos : rows' = [rows EXCEPT ![m] = Nil]
      BY <1>7, Zenon DEF DeleteMemo
    <2>3. UNCHANGED <<want, raced>> /\ \A x \in Memos : rows'[x] = rows[x] \/ rows'[x] = Nil
      BY <1>7, <2>2 DEF DeleteMemo, Types
    <2>4. FieldsStay'
      BY <2>3 DEF Stays, FieldsStay, Shown
    <2>5. ASSUME NEW d \in Clients, Busy(act[d]) PROVE act[d].memo \in Memos
      BY <2>5 DEF Busy, Types, FitsAct
    <2>6. ASSUME NEW d \in Clients, act'[d] = act[d] PROVE Held(act[d])'
      <3>1. CASE Busy(act[d])
        <4>1. act[d].memo \in Memos /\ Held(act[d])
          BY <2>5, <3>1 DEF Stays
        <4>2. CASE rows'[act[d].memo] = Nil
          BY <2>3, <2>6, <3>1, <4>1, <4>2 DEF Held
        <4>3. CASE rows'[act[d].memo] = rows[act[d].memo]
          BY <2>3, <2>6, <3>1, <4>1, <4>3 DEF Held, Untouched, Busy, Shown
        <4>. QED BY <2>3, <4>1, <4>2, <4>3
      <3>2. CASE ~Busy(act[d])
        BY <2>6, <3>2 DEF Held, Busy
      <3>. QED BY <3>1, <3>2
    <2>. QED BY <2>1, <2>4, <2>6 DEF Stays, Held, Busy
  <1>8. ASSUME NEW c \in Clients, Tell(c) PROVE Stays'
    BY <1>8, AwayFits, LateSame, StaysSame DEF Tell, Types, Busy
  <1>9. ASSUME NEW c \in Clients, CancelUse(c) PROVE Stays'
    BY <1>9, AwayFits, LateSame, StaysSame DEF CancelUse, Types, Busy
  <1>10. ASSUME NEW c \in Clients, Seek(c) PROVE Stays'
    <2>1. PICK s \in BOOLEAN, h \in BOOLEAN :
            act' = [act EXCEPT ![c] =
              IF cache = Nil THEN [Away EXCEPT !.at = "load", !.scoped = s, !.guarded = h]
              ELSE IF s THEN [Away EXCEPT !.at = "scope", !.guarded = h] ELSE Away]
      BY <1>10, Zenon DEF Seek
    <2>2. \A d \in Clients : act'[d] = act[d] \/ ~Busy(act'[d])
      BY <2>1, AwayFits, SeekFits DEF Types, Busy
    <2>. QED BY <1>10, <2>2, StaysSame DEF Seek
  <1>11. ASSUME NEW c \in Clients, LoadVectors(c) PROVE Stays'
    <2>1. act[c] \in Acts
      BY DEF Types
    <2>2. [act[c] EXCEPT !.at = "install", !.loaded = Vectors].at = "install"
      BY <2>1 DEF Acts
    <2>3. act' = [act EXCEPT ![c] = [act[c] EXCEPT !.at = "install", !.loaded = Vectors]]
      BY <1>11, <2>1 DEF LoadVectors, Types
    <2>4. \A d \in Clients : act'[d] = act[d] \/ ~Busy(act'[d])
      BY <2>2, <2>3 DEF Types, Busy
    <2>. QED BY <1>11, <2>4, StaysSame DEF LoadVectors
  <1>12. ASSUME NEW c \in Clients, Install(c) PROVE Stays'
    <2>1. act[c].guarded \in BOOLEAN
      BY DEF Types, Acts
    <2>2. ASSUME NEW d \in Clients, d # c PROVE act'[d] = act[d] \/ ~Busy(act'[d])
      <3>1. act[d] \in Acts
        BY DEF Types
      <3>. QED BY <1>12, <2>2, <3>1, LateSame DEF Install, Busy
    <2>3. ~Busy(act'[c])
      BY <1>12, <2>1, AwayFits, SeekFits DEF Install, Busy
    <2>. QED BY <1>12, <2>2, <2>3, StaysSame DEF Install
  <1>13. ASSUME NEW c \in Clients, Scoped(c) PROVE Stays'
    BY <1>13, GoesIdle, StaysSame DEF Scoped, Types
  <1>. QED BY <1>1, <1>2, <1>3, <1>4, <1>5, <1>6, <1>7, <1>8, <1>9, <1>10, <1>11, <1>12, <1>13
           DEF MemoryNext

\* An update leaves the field it was not given as it was last given, and an
\* entry with the vector of its text, unless another came between (store.py).
THEOREM UpdatesKeepTheRest == MemorySpec => []FieldsStay
  <1>1. Types /\ Stays /\ [MemoryNext]_memoryVars => (Types /\ Stays)'
    BY StepTypes, StepStays
  <1>2. MemorySpec => [](Types /\ Stays)
    BY InitTypes, InitStays, <1>1, PTL DEF MemorySpec
  <1>3. Stays => FieldsStay
    BY DEF Stays
  <1>. QED BY <1>2, <1>3, PTL

-----------------------------------------------------------------------------
(* The cache.  Inductive with what a load that is not late holds, as long as   *)
(* nobody has a change to tell.                                                *)
Unsaid == \E c \in Clients : act[c].at = "tell"
Loads(o) ==
  /\ o.at = "install" /\ ~o.late => o.loaded = Vectors \/ Unsaid
  /\ o.at = "scope" /\ ~o.late => cache # Nil
Serves ==
  /\ ~broke
  /\ cache # Nil /\ ~stale => cache = Vectors \/ Unsaid
  /\ \A c \in Clients : Loads(act[c])

LEMMA InitServes == MemoryInit => Serves
  BY AwayFits DEF MemoryInit, Serves, Loads

\* A step that only tells, or begins to be told.
LEMMA ServesTell ==
  ASSUME Serves, UNCHANGED <<cache, stale, broke>>, NEW c \in Clients, act'[c].at = "tell",
         \A d \in Clients : d # c => act'[d] = act[d]
                            \/ (act'[d].at = act[d].at /\ (act'[d].late \/ act'[d].late = act[d].late))
  PROVE  Serves'
  <1>1. Unsaid'
    BY DEF Unsaid
  <1>2. ASSUME NEW d \in Clients PROVE Loads(act[d])'
    BY <1>1 DEF Serves, Loads
  <1>. QED BY <1>1, <1>2 DEF Serves

\* A step that leaves the vectors and the cache alone.
LEMMA ServesSame ==
  ASSUME Serves, Vectors' = Vectors, UNCHANGED <<cache, stale>>, broke' => broke,
         \A c \in Clients : /\ act'[c] = act[c] \/ (act[c].at # "tell" /\ Loads(act[c])')
  PROVE  Serves'
  <1>1. Unsaid => Unsaid'
    BY DEF Unsaid
  <1>2. ASSUME NEW d \in Clients PROVE Loads(act[d])'
    BY <1>1 DEF Serves, Loads
  <1>. QED BY <1>1, <1>2 DEF Serves

LEMMA VectorsSame == UNCHANGED rows => Vectors' = Vectors
  BY DEF Vectors, Vector

\* What a client at these steps holds says nothing of the cache.
LEMMA Elsewhere == ASSUME NEW c \in Clients, act'[c].at \notin {"install", "scope"}
                   PROVE  Loads(act[c])'
  BY DEF Loads

LEMMA StepServes == Types /\ Serves /\ [MemoryNext]_memoryVars => Serves'
  <1>. SUFFICES ASSUME Types, Serves, [MemoryNext]_memoryVars PROVE Serves'
    OBVIOUS
  <1>1. CASE UNCHANGED memoryVars
    BY <1>1, VectorsSame, ServesSame DEF memoryVars
  <1>2. ASSUME NEW c \in Clients, AddMemo(c) PROVE Serves'
    <2>1. act'[c].at = "tell" /\ \A d \in Clients : d # c => act'[d] = act[d]
      BY <1>2, GoesIdle DEF AddMemo, Use, Types
    <2>. QED BY <1>2, <2>1, ServesTell DEF AddMemo
  <1>3. ASSUME NEW c \in Clients, IngestMemo(c) PROVE Serves'
    <2>1. PICK m \in Memos, t \in Texts, g \in Labels :
            /\ want[m] = Nil
            /\ rows' = [rows EXCEPT ![m] = [text |-> t, tags |-> g, vec |-> Nil]]
      BY <1>3, Zenon DEF IngestMemo
    <2>2. rows[m] = Nil
      BY <2>1 DEF Types
    <2>3. rows'[m].vec = Nil /\ \A x \in Memos : x # m => rows'[x] = rows[x]
      BY <2>1 DEF Types
    <2>4. \A x \in Memos : Vector(x)' = Vector(x)
      BY <2>2, <2>3 DEF Vector
    <2>5. Vectors' = Vectors
      BY <2>4 DEF Vectors
    <2>. QED BY <1>3, <2>5, ServesSame DEF IngestMemo
  <1>4. ASSUME NEW c \in Clients, Fetch(c) PROVE Serves'
    <2>1. PICK m \in {x \in Memos : rows[x] # Nil}, t \in Texts \cup {Nil}, g \in Labels \cup {Nil}, tool \in BOOLEAN :
            /\ t # Nil \/ g # Nil
            /\ act' = [act EXCEPT ![c] =
                 Reading(m, t, g, tool, IF g # Nil THEN g ELSE IF tool THEN rows[m].tags ELSE Nil)]
      BY <1>4, Zenon DEF Fetch
    <2>2. PICK k : k = (IF g # Nil THEN g ELSE IF tool THEN rows[m].tags ELSE Nil)
      OBVIOUS
    <2>3. m \in Memos /\ k \in Labels \cup {Nil} /\ want[m] # Nil
      BY <2>2 DEF Types, Rows
    <2>4. PICK o : o = Reading(m, t, g, tool, k)
      OBVIOUS
    <2>5. o.at = "read" /\ o.memo = m /\ o.tags = g /\ o.meta = k /\ (~o.tool => ~tool)
      <3>. DEFINE e == Reading(m, t, g, tool, k)
      <3>1. e.at = "read" /\ e.memo = m /\ e.tags = g /\ e.meta = k /\ (~e.tool => ~tool)
        BY <2>3, FetchFits
      <3>. HIDE DEF e
      <3>2. o = e
        BY <2>4 DEF e
      <3>. QED BY <3>1, <3>2
    <2>6. act' = [act EXCEPT ![c] = o] /\ act[c].at = "idle"
      BY <1>4, <2>1, <2>2, <2>4 DEF Fetch, Use
    <2>7. act'[c].at = "read" /\ \A d \in Clients : d # c => act'[d] = act[d]
      BY <2>5, <2>6 DEF Types
    <2>. QED BY <1>4, <2>6, <2>7, Elsewhere, VectorsSame, ServesSame DEF Fetch
  <1>5. ASSUME NEW c \in Clients, ReadFields(c) PROVE Serves'
    <2>1. act[c] \in Acts /\ act[c].at = "read"
      BY <1>5 DEF ReadFields, Types
    <2>2. [act[c] EXCEPT !.at = "write", !.row = rows[act[c].memo], !.tool = FALSE].at = "write"
      BY <2>1 DEF Acts
    <2>3. act'[c].at \in {"idle", "write"} /\ \A d \in Clients : d # c => act'[d] = act[d]
      <3>1. CASE rows[act[c].memo] = Nil
        BY <1>5, <3>1, AwayFits DEF ReadFields, Types
      <3>2. CASE rows[act[c].memo] # Nil
        <4>1. act' = [act EXCEPT ![c] = [act[c] EXCEPT !.at = "write", !.row = rows[act[c].memo], !.tool = FALSE]]
          BY <1>5, <3>2 DEF ReadFields, Types
        <4>. QED BY <2>2, <4>1 DEF Types
      <3>. QED BY <3>1, <3>2
    <2>. QED BY <1>5, <2>1, <2>3, Elsewhere, VectorsSame, ServesSame DEF ReadFields
  <1>6. ASSUME NEW c \in Clients, WriteFields(c) PROVE Serves'
    <2>. DEFINE m == act[c].memo
    <2>1. act[c].at = "write" /\ UNCHANGED <<cache, stale, broke>>
      BY <1>6 DEF WriteFields
    <2>2. CASE rows[m] = Nil
      <3>1. Goes(c, "idle") /\ UNCHANGED rows
        BY <1>6, <2>2 DEF WriteFields
      <3>2. act'[c].at = "idle" /\ \A d \in Clients : d # c => act'[d] = act[d]
        BY <3>1, GoesIdle DEF Types
      <3>. QED BY <2>1, <3>1, <3>2, Elsewhere, VectorsSame, ServesSame
    <2>3. CASE rows[m] # Nil
      <3>1. act' = [d \in Clients |->
                  IF d = c THEN [Away EXCEPT !.at = "tell"]
                  ELSE IF Holding(d, m) THEN [act[d] EXCEPT !.late = TRUE] ELSE act[d]]
        BY <1>6, <2>3 DEF WriteFields
      <3>2. act'[c].at = "tell"
        BY <3>1, AwayFits, SetFields
      <3>3. ASSUME NEW d \in Clients, d # c
            PROVE  act'[d] = act[d] \/ (act'[d].at = act[d].at /\ act'[d].late)
        <4>1. act[d] \in Acts
          BY DEF Types
        <4>. QED BY <3>1, <3>3, <4>1, LateSame
      <3>. QED BY <2>1, <3>2, <3>3, ServesTell
    <2>. QED BY <2>2, <2>3
  <1>7. ASSUME NEW c \in Clients, DeleteMemo(c) PROVE Serves'
    <2>1. act'[c].at = "tell" /\ \A d \in Clients : d # c => act'[d] = act[d]
      BY <1>7, GoesIdle DEF DeleteMemo, Use, Types
    <2>. QED BY <1>7, <2>1, ServesTell DEF DeleteMemo
  <1>8. ASSUME NEW c \in Clients, Tell(c) PROVE Serves'
    <2>1. ASSUME NEW d \in Clients PROVE Loads(act[d])'
      <3>1. act[d] \in Acts
        BY DEF Types
      <3>. QED BY <1>8, <3>1, AwayFits, LateSame DEF Tell, Loads
    <2>. QED BY <1>8, <2>1 DEF Tell, Serves
  <1>9. ASSUME NEW c \in Clients, CancelUse(c) PROVE Serves'
    <2>. DEFINE told == act[c].at # "tell"
    <2>1. /\ act[c].at # "idle" /\ UNCHANGED <<rows, cache, broke>>
          /\ stale' = (stale \/ (~told /\ cache # Nil))
          /\ act' = [d \in Clients |->
               IF d = c THEN Away
               ELSE IF ~told /\ act[d].at = "install" THEN [act[d] EXCEPT !.late = TRUE] ELSE act[d]]
      BY <1>9 DEF CancelUse
    <2>2. Vectors' = Vectors
      BY <2>1, VectorsSame
    <2>3. act'[c].at = "idle"
      BY <2>1, AwayFits
    <2>4. CASE told
      <3>1. \A d \in Clients : d # c => act'[d] = act[d]
        BY <2>1, <2>4
      <3>2. stale' = stale
        BY <2>1, <2>4 DEF Types
      <3>. QED BY <2>1, <2>2, <2>3, <2>4, <3>1, <3>2, Elsewhere, ServesSame
    <2>5. CASE ~told
      <3>1. ASSUME NEW d \in Clients PROVE Loads(act[d])'
        <4>1. act[d] \in Acts
          BY DEF Types
        <4>. QED BY <2>1, <2>3, <2>5, <4>1, LateSame DEF Loads, Serves
      <3>2. stale' = TRUE \/ cache' = Nil
        BY <2>1, <2>5
      <3>. QED BY <2>1, <3>1, <3>2 DEF Serves
    <2>. QED BY <2>4, <2>5
  <1>10. ASSUME NEW c \in Clients, Seek(c) PROVE Serves'
    <2>1. PICK s \in BOOLEAN, h \in BOOLEAN :
            act' = [act EXCEPT ![c] =
              IF cache = Nil THEN [Away EXCEPT !.at = "load", !.scoped = s, !.guarded = h]
              ELSE IF s THEN [Away EXCEPT !.at = "scope", !.guarded = h] ELSE Away]
      BY <1>10, Zenon DEF Seek
    <2>2. act'[c].at \in {"load", "idle"} \/ (act'[c].at = "scope" /\ cache # Nil)
      <3>1. CASE cache = Nil
        <4>1. act'[c] = [Away EXCEPT !.at = "load", !.scoped = s, !.guarded = h]
          BY <2>1, <3>1 DEF Types
        <4>2. [Away EXCEPT !.at = "load", !.scoped = s, !.guarded = h].at = "load"
          BY SeekAt
        <4>. QED BY <4>1, <4>2
      <3>2. CASE cache # Nil /\ s
        <4>1. act'[c] = [Away EXCEPT !.at = "scope", !.guarded = h]
          BY <2>1, <3>2 DEF Types
        <4>2. [Away EXCEPT !.at = "scope", !.guarded = h].at = "scope"
          BY SeekAt
        <4>. QED BY <3>2, <4>1, <4>2
      <3>3. CASE cache # Nil /\ ~s
        BY <2>1, <3>3, AwayFits DEF Types
      <3>. QED BY <3>1, <3>2, <3>3
    <2>3. Loads(act[c])'
      BY <1>10, <2>2 DEF Loads, Seek
    <2>4. \A d \in Clients : d # c => act'[d] = act[d]
      BY <2>1 DEF Types
    <2>. QED BY <1>10, <2>3, <2>4, VectorsSame, ServesSame DEF Seek, Use
  <1>11. ASSUME NEW c \in Clients, LoadVectors(c) PROVE Serves'
    <2>1. act[c] \in Acts /\ Vectors \in VectorSets
      BY VectorsTyped DEF Types
    <2>2. PICK n : n = [act[c] EXCEPT !.at = "install", !.loaded = Vectors]
      OBVIOUS
    <2>3. n.at = "install" /\ n.loaded = Vectors
      BY <2>1, <2>2 DEF Acts
    <2>4. act' = [act EXCEPT ![c] = n] /\ Vectors' = Vectors
      BY <1>11, <2>1, <2>2, VectorsSame DEF LoadVectors, Types
    <2>5. act'[c] = n /\ \A d \in Clients : d # c => act'[d] = act[d]
      BY <2>4 DEF Types
    <2>6. Loads(act[c])'
      BY <2>3, <2>4, <2>5 DEF Loads
    <2>. QED BY <1>11, <2>4, <2>5, <2>6, ServesSame DEF LoadVectors
  <1>12. ASSUME NEW c \in Clients, Install(c) PROVE Serves'
    <2>. DEFINE o == act[c]
                new == IF o.loaded = Blank THEN Nil ELSE o.loaded
    <2>1. /\ o.at = "install" /\ cache' = new /\ stale' = (o.late /\ new # Nil)
          /\ UNCHANGED <<rows, broke>>
      BY <1>12 DEF Install
    <2>2. act' = [d \in Clients |->
            IF d = c THEN IF new # Nil /\ o.scoped THEN [Away EXCEPT !.at = "scope", !.guarded = o.guarded]
                          ELSE Away
            ELSE IF new = Nil /\ act[d].at = "scope" THEN [act[d] EXCEPT !.late = TRUE] ELSE act[d]]
      BY <1>12 DEF Install
    <2>3. Vectors' = Vectors
      BY <2>1, VectorsSame
    <2>4. o.guarded \in BOOLEAN /\ o.late \in BOOLEAN
      BY DEF Types, Acts
    <2>5. act'[c].at = "idle" \/ (act'[c].at = "scope" /\ new # Nil)
      <3>. HIDE DEF new
      <3>. QED BY <2>2, <2>4, AwayFits, SeekFits
    <2>6. ASSUME NEW d \in Clients, d # c
          PROVE  act'[d] = act[d] \/ (act'[d].at = "scope" /\ act'[d].late)
      <3>1. act[d] \in Acts
        BY DEF Types
      <3>. HIDE DEF new
      <3>. QED BY <2>2, <2>6, <3>1, LateSame
    <2>7. ASSUME NEW d \in Clients, d # c, act'[d].at = "scope", ~act'[d].late PROVE new # Nil
      <3>1. act[d] \in Acts
        BY DEF Types
      <3>. HIDE DEF new
      <3>. QED BY <2>2, <2>7, <3>1, LateSame
    <2>8. Unsaid => Unsaid'
      <3>1. ASSUME NEW d \in Clients, act[d].at = "tell" PROVE act'[d].at = "tell"
        <4>1. d # c
          BY <2>1, <3>1
        <4>2. act'[d] = act[d]
          <5>. HIDE DEF new
          <5>. QED BY <2>2, <3>1, <4>1
        <4>. QED BY <3>1, <4>2
      <3>. QED BY <3>1 DEF Unsaid
    <2>9. ASSUME NEW d \in Clients PROVE Loads(act[d])'
      <3>. HIDE DEF new
      <3>1. CASE d = c
        BY <2>1, <2>5, <3>1 DEF Loads
      <3>2. CASE d # c
        <4>1. act'[d].at = "scope" /\ ~act'[d].late => cache' # Nil
          BY <2>1, <2>7, <3>2
        <4>2. act'[d].at = "install" => act'[d] = act[d]
          BY <2>6, <3>2
        <4>. QED BY <2>3, <2>8, <4>1, <4>2 DEF Loads, Serves
      <3>. QED BY <3>1, <3>2
    <2>10. cache' # Nil /\ ~stale' => cache' = Vectors' \/ Unsaid'
      <3>1. Loads(o)
        BY DEF Serves
      <3>. QED BY <2>1, <2>3, <2>4, <2>8, <3>1 DEF Loads
    <2>. QED BY <2>1, <2>9, <2>10 DEF Serves
  <1>13. ASSUME NEW c \in Clients, Scoped(c) PROVE Serves'
    <2>1. act'[c].at = "idle" /\ act[c].at = "scope" /\ \A d \in Clients : d # c => act'[d] = act[d]
      BY <1>13, GoesIdle DEF Scoped, Types
    <2>2. Loads(act[c]) /\ ~broke
      BY DEF Serves
    <2>3. ~broke'
      BY <1>13, <2>1, <2>2 DEF Scoped, Loads
    <2>. QED BY <1>13, <2>1, <2>2, <2>3, Elsewhere, VectorsSame, ServesSame DEF Scoped
  <1>. QED BY <1>1, <1>2, <1>3, <1>4, <1>5, <1>6, <1>7, <1>8, <1>9, <1>10, <1>11, <1>12, <1>13
           DEF MemoryNext

\* The cache of vectors serves the store: once every change was told, unless one
\* was told while the cache was loaded or never (search.py).
THEOREM CacheAgrees == MemorySpec => []CacheServes
  <1>1. Types /\ Serves /\ [MemoryNext]_memoryVars => (Types /\ Serves)'
    BY StepTypes, StepServes
  <1>2. MemorySpec => [](Types /\ Serves)
    BY InitTypes, InitServes, <1>1, PTL DEF MemorySpec
  <1>3. Serves => CacheServes
    BY DEF Serves, Unsaid, CacheServes
  <1>. QED BY <1>2, <1>3, PTL

=============================================================================
