------------------------------- MODULE Memories -------------------------------
(* The entries of the memory store under the memory tools, the web interface  *)
(* and searches: what an update reads, keeps and writes back, and the cache   *)
(* of vectors every search shares.  A text stands for its embedding; ids are  *)
(* never used again.                                                          *)
EXTENDS Naturals, FiniteSets

CONSTANTS
  Memos,       \* ids
  Texts, Labels,     \* contents, lists of tags
  Nil,         \* no row, no vector, no cache, a field not given
  Clients,     \* tool calls, requests and searches under way at once
  MaxUses      \* bound for TLC

Rows == [text : Texts, tags : Labels, vec : Texts \cup {Nil}]
Fields == [text : Texts, tags : Labels]
VectorSets == [Memos -> Texts \cup {Nil}]

ASSUME NilAssumption ==
  Nil \notin Memos \cup Texts \cup Labels \cup Rows \cup Fields \cup VectorSets

VARIABLES
  rows,        \* memory_entries
  cache,       \* _vector_cache with _vector_ids: the vector of each entry in it
  act,         \* where each client is
  want,        \* what was last asked for each field of an entry
  raced,       \* entries written back over a write the writer had not seen
  stale,       \* a change of the vectors was not told to the cache
  broke,       \* a search found no cache and nobody had cleared it
  uses

memoryVars == <<rows, cache, act, want, raced, stale, broke, uses>>

Away == [at |-> "idle", memo |-> Nil, text |-> Nil, tags |-> Nil, meta |-> Nil,
         tool |-> FALSE, row |-> Nil, loaded |-> Nil, late |-> FALSE, scoped |-> FALSE, guarded |-> FALSE]

Use(c) == act[c].at = "idle" /\ uses < MaxUses /\ uses' = uses + 1
Goes(c, at) == act' = [act EXCEPT ![c] = IF at = "idle" THEN Away ELSE [@ EXCEPT !.at = at]]
Vector(m) == IF rows[m] = Nil THEN Nil ELSE rows[m].vec
Vectors == [m \in Memos |-> Vector(m)]
Blank == [m \in Memos |-> Nil]

\* ------------------------------------------------------------------- writes
\* The new text is embedded before the row is there; that may fail.
AddMemo(c) ==
  /\ Use(c)
  /\ \E m \in Memos, t \in Texts, g \in Labels, v \in Texts \cup {Nil} :
       /\ want[m] = Nil /\ v \in {t, Nil}
       /\ rows' = [rows EXCEPT ![m] = [text |-> t, tags |-> g, vec |-> v]]
       /\ want' = [want EXCEPT ![m] = [text |-> t, tags |-> g]]
  /\ Goes(c, "tell")
  /\ UNCHANGED <<cache, raced, stale, broke>>

\* A memory of the space has no vector, and the cache is not told.
IngestMemo(c) ==
  /\ Use(c)
  /\ \E m \in Memos, t \in Texts, g \in Labels :
       /\ want[m] = Nil
       /\ rows' = [rows EXCEPT ![m] = [text |-> t, tags |-> g, vec |-> Nil]]
       /\ want' = [want EXCEPT ![m] = [text |-> t, tags |-> g]]
  /\ UNCHANGED <<cache, act, raced, stale, broke>>

\* About to update an entry with the text and tags given, and these tags to write.
Reading(m, t, g, tool, meta) ==
  [Away EXCEPT !.at = "read", !.memo = m, !.text = t, !.tags = g, !.tool = tool, !.meta = meta]

\* Mutant: the web interface passes the tags it read with a new text.
FetchWithTags(c) ==
  /\ Use(c)
  /\ \E m \in {x \in Memos : rows[x] # Nil}, t \in Texts \cup {Nil}, g \in Labels \cup {Nil}, tool \in BOOLEAN :
       /\ t # Nil \/ g # Nil
       /\ act' = [act EXCEPT ![c] = Reading(m, t, g, tool, IF g # Nil THEN g ELSE rows[m].tags)]
  /\ UNCHANGED <<rows, cache, want, raced, stale, broke>>

\* Both look the entry up first.  memory.update passes tags in any case, the web
\* interface only those it was given.
Fetch(c) ==
  /\ Use(c)
  /\ \E m \in {x \in Memos : rows[x] # Nil}, t \in Texts \cup {Nil}, g \in Labels \cup {Nil}, tool \in BOOLEAN :
       /\ t # Nil \/ g # Nil
       /\ act' = [act EXCEPT ![c] =
            Reading(m, t, g, tool, IF g # Nil THEN g ELSE IF tool THEN rows[m].tags ELSE Nil)]
  /\ UNCHANGED <<rows, cache, want, raced, stale, broke>>

ReadFields(c) ==
  /\ act[c].at = "read"
  /\ LET row == rows[act[c].memo]
     IN act' = [act EXCEPT ![c] =
          IF row = Nil THEN Away ELSE [@ EXCEPT !.at = "write", !.row = row, !.tool = FALSE]]
  /\ UNCHANGED <<rows, cache, want, raced, stale, broke, uses>>

\* Who has read a field of this entry that is to be written back.
Holding(d, m) == act[d].memo = m /\ (act[d].at = "write" \/ (act[d].at = "read" /\ act[d].tool))

\* The lock was free while the text was embedded.
WriteFields(c) ==
  LET o == act[c]
      m == o.memo
  IN /\ o.at = "write"
     /\ IF rows[m] = Nil THEN Goes(c, "idle") /\ UNCHANGED <<rows, want, raced>>
        ELSE /\ \E v \in {o.text, Nil} :
                  rows' = [rows EXCEPT ![m] =
                    [text |-> IF o.text # Nil THEN o.text ELSE o.row.text,
                     tags |-> IF o.meta # Nil THEN o.meta ELSE o.row.tags,
                     vec |-> IF o.text # Nil THEN v ELSE @.vec]]
             /\ want' = [want EXCEPT ![m] =
                  [text |-> IF o.text # Nil THEN o.text ELSE @.text,
                   tags |-> IF o.tags # Nil THEN o.tags ELSE @.tags]]
             /\ raced' = (IF o.late THEN raced \cup {m} ELSE raced)
             /\ act' = [d \in Clients |->
                  IF d = c THEN [Away EXCEPT !.at = "tell"]
                  ELSE IF Holding(d, m) THEN [act[d] EXCEPT !.late = TRUE] ELSE act[d]]
     /\ UNCHANGED <<cache, stale, broke, uses>>

\* Mutant: the cache is not told.
DeleteUntold(c) ==
  /\ Use(c)
  /\ \E m \in Memos : rows[m] # Nil /\ rows' = [rows EXCEPT ![m] = Nil]
  /\ UNCHANGED <<cache, act, want, raced, stale, broke>>

DeleteMemo(c) ==
  /\ Use(c)
  /\ \E m \in Memos : rows[m] # Nil /\ rows' = [rows EXCEPT ![m] = Nil]
  /\ Goes(c, "tell")
  /\ UNCHANGED <<cache, want, raced, stale, broke>>

\* invalidate_cache comes after the push to the space and knows nothing of the
\* searches that are loading it, or are about to look at it again.
Tell(c) ==
  /\ act[c].at = "tell"
  /\ cache' = Nil /\ stale' = FALSE
  /\ act' = [d \in Clients |->
       IF d = c THEN Away
       ELSE IF act[d].at \in {"install", "scope"} THEN [act[d] EXCEPT !.late = TRUE] ELSE act[d]]
  /\ UNCHANGED <<rows, want, raced, broke, uses>>

\* The turn or the request is cancelled, which may be before the cache is told.
CancelUse(c) ==
  /\ act[c].at # "idle"
  /\ LET told == act[c].at # "tell"
     IN /\ stale' = (stale \/ (~told /\ cache # Nil))
        /\ act' = [d \in Clients |->
             IF d = c THEN Away
             ELSE IF ~told /\ act[d].at = "install" THEN [act[d] EXCEPT !.late = TRUE] ELSE act[d]]
  /\ UNCHANGED <<rows, cache, want, raced, broke, uses>>

\* ----------------------------------------------------------------- searches
\* The local half of a search; a working space asks for it under a guard, and
\* a scope or tags are looked up between two looks at the cache; without them a
\* guard has nothing to catch.
Seek(c) ==
  /\ Use(c)
  /\ \E scoped, guarded \in BOOLEAN :
       /\ guarded => scoped
       /\ act' = [act EXCEPT ![c] =
            IF cache = Nil THEN [Away EXCEPT !.at = "load", !.scoped = scoped, !.guarded = guarded]
            ELSE IF scoped THEN [Away EXCEPT !.at = "scope", !.guarded = guarded] ELSE Away]
  /\ UNCHANGED <<rows, cache, want, raced, stale, broke>>

LoadVectors(c) ==
  /\ act[c].at = "load"
  /\ act' = [act EXCEPT ![c].at = "install", ![c].loaded = Vectors]
  /\ UNCHANGED <<rows, cache, want, raced, stale, broke, uses>>

\* The types of the entries were fetched in between.
Install(c) ==
  LET o == act[c]
      new == IF o.loaded = Blank THEN Nil ELSE o.loaded
  IN /\ o.at = "install"
     /\ cache' = new /\ stale' = (o.late /\ new # Nil)
     /\ act' = [d \in Clients |->
          IF d = c THEN IF new # Nil /\ o.scoped THEN [Away EXCEPT !.at = "scope", !.guarded = o.guarded]
                        ELSE Away
          ELSE IF new = Nil /\ act[d].at = "scope" THEN [act[d] EXCEPT !.late = TRUE] ELSE act[d]]
     /\ UNCHANGED <<rows, want, raced, broke, uses>>

\* Without the cache its ids are None here, and the search ends in a TypeError.
Scoped(c) ==
  /\ act[c].at = "scope"
  /\ broke' = (broke \/ (cache = Nil /\ ~act[c].guarded /\ ~act[c].late))
  /\ Goes(c, "idle")
  /\ UNCHANGED <<rows, cache, want, raced, stale, uses>>

Shown(r) == [text |-> r.text, tags |-> r.tags]
MemoryInit ==
  /\ rows \in [Memos -> {Nil} \cup {r \in Rows : r.vec \in {Nil, r.text}}]
  /\ want = [m \in Memos |-> IF rows[m] = Nil THEN Nil ELSE Shown(rows[m])]
  /\ cache = Nil /\ act = [c \in Clients |-> Away]
  /\ raced = {} /\ stale = FALSE /\ broke = FALSE /\ uses = 0

MemoryNext ==
  \E c \in Clients :
    \/ AddMemo(c) \/ IngestMemo(c) \/ Fetch(c) \/ ReadFields(c) \/ WriteFields(c)
    \/ DeleteMemo(c) \/ Tell(c) \/ CancelUse(c)
    \/ Seek(c) \/ LoadVectors(c) \/ Install(c) \/ Scoped(c)

MemorySpec == MemoryInit /\ [][MemoryNext]_memoryVars

-----------------------------------------------------------------------------
(* Type invariant: every client is at a step of what it does and holds what   *)
(* that step needs.                                                           *)
MemoryTypeOK ==
  /\ rows \in [Memos -> Rows \cup {Nil}] /\ want \in [Memos -> Fields \cup {Nil}]
  /\ cache \in VectorSets \cup {Nil} /\ stale \in BOOLEAN /\ broke \in BOOLEAN
  /\ act \in [Clients ->
       [at : {"idle", "read", "write", "tell", "load", "install", "scope"},
        memo : Memos \cup {Nil}, text : Texts \cup {Nil}, tags : Labels \cup {Nil},
        meta : Labels \cup {Nil}, tool : BOOLEAN, row : Rows \cup {Nil},
        loaded : VectorSets \cup {Nil}, late : BOOLEAN, scoped : BOOLEAN, guarded : BOOLEAN]]
  /\ \A c \in Clients :
       /\ act[c].at \in {"read", "write"} => act[c].memo \in Memos
       /\ act[c].at = "write" => act[c].row \in Rows
       /\ act[c].at = "install" => act[c].loaded \in VectorSets

(* What was given last stays: an update of one field leaves the other as it    *)
(* was last given, and a vector is of the text of its entry.  The code keeps   *)
(* this only for updates that nobody came between: a field that is kept was    *)
(* read before the lock was given up for the embedding, and is written back.   *)
FieldsStay ==
  \A m \in Memos : rows[m] # Nil /\ m \notin raced =>
    Shown(rows[m]) = want[m] /\ rows[m].vec \in {Nil, rows[m].text}

(* The cache serves the store: when no write has yet to tell it, the vectors   *)
(* searches use are those of the store, and no search fails for want of them.  *)
(* The code does not keep this when a change is told while the cache is being  *)
(* loaded, when a writer is cancelled before it tells, and when the cache is   *)
(* cleared while a search looks up a scope or tags.                            *)
CacheServes ==
  /\ cache # Nil /\ ~stale /\ (\A c \in Clients : act[c].at # "tell") => cache = Vectors
  /\ ~broke

=============================================================================
