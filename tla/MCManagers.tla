----------------------------- MODULE MCManagers -----------------------------
(* Instances for TLC of components that share nothing: the MCP manager, with  *)
(* two tools whose names collide, the custom tools, the notifications, the    *)
(* times of schedules, the migrations at start, the entries of the memory and *)
(* the ranking of its searches.  Each is explored with the others at rest.    *)
EXTENDS MCPManager, CustomTools, Notifications, ScheduleTimes, Migrations, Memories, Ranking

VARIABLE focus

OneName == [t \in Tools |-> CHOOSE n \in Names : TRUE]
Kept == {Absent,
         [there |-> TRUE, tools |-> {[tool |-> "a.b", version |-> 1, approved |-> TRUE]}]}
One == [access |-> [code |-> CHOOSE c \in Codes : TRUE, net |-> FALSE, secrets |-> {}],
        approved |-> TRUE]
NoneOrOne == {None, One}

(* Scripts are alike: of two that are idle, it is always the same that calls.  *)
Lead == CHOOSE p \in Runs : TRUE
LeadCalls == fetch[Lead] = Idle => \A p \in Runs \ {Lead} : fetch[p] = Idle => fetch'[p] = Idle

(* What reaches an account before its credentials are entered could as well    *)
(* reach it then.                                                             *)
InUse == \A a \in Accounts : inbox'[a] # inbox[a] => a \in {account, CHOOSE b \in Accounts : TRUE}

(* So are the clients of the memory.  It starts with one entry.                *)
LeadClient == CHOOSE c \in Clients : TRUE
LeadUses == act[LeadClient] = Away => \A c \in Clients \ {LeadClient} : act[c] = Away => act'[c] = Away
OneRow == LET m == CHOOSE m \in Memos : TRUE
              t == CHOOSE t \in Texts : TRUE
          IN [x \in Memos |-> IF x = m THEN [text |-> t, tags |-> CHOOSE g \in Labels : TRUE, vec |-> t]
                              ELSE Nil]
(* Entries are alike, too: they are numbered in the order of their ranks.       *)
AtRest == [rank |-> [h \in Hits |-> 0], near |-> [h \in Hits |-> 0], limit |-> CHOOSE l \in Limits : TRUE,
           space |-> FALSE, pushed |-> {}]

MCInit ==
  /\ focus \in {"servers", "tools", "notifications", "times", "migrations", "memories", "searches"}
  /\ Init /\ (focus # "servers" => stored = Absent)
  /\ CustomInit /\ (focus # "tools" => tool = None)
  /\ FetchInit
  /\ TimeInit /\ (focus # "times" => zone = [at |-> 0, by |-> Jump]
                                     /\ plan.kind = "interval" /\ plan.every = 1)
  /\ MigrationInit /\ (focus # "migrations" => renewed = {})
  /\ rows = OneRow /\ MemoryInit
  /\ (focus # "searches" => query = AtRest) /\ RankingInit
  /\ \A a, b \in Hits : a < b => query.rank[a] <= query.rank[b]

MCNext ==
  /\ UNCHANGED focus
  /\ \/ focus = "servers" /\ Next /\ UNCHANGED <<customVars, fetchVars, timeVars, migrationVars, memoryVars, rankingVars>>
     \/ focus = "tools" /\ CustomNext /\ UNCHANGED <<vars, fetchVars, timeVars, migrationVars, memoryVars, rankingVars>>
     \/ focus = "notifications" /\ FetchNext /\ LeadCalls /\ InUse
        /\ UNCHANGED <<vars, customVars, timeVars, migrationVars, memoryVars, rankingVars>>
     \/ focus = "times" /\ TimeNext /\ UNCHANGED <<vars, customVars, fetchVars, migrationVars, memoryVars, rankingVars>>
     \/ focus = "migrations" /\ MigrationNext /\ UNCHANGED <<vars, customVars, fetchVars, timeVars, memoryVars, rankingVars>>
     \/ focus = "memories" /\ MemoryNext /\ LeadUses
        /\ UNCHANGED <<vars, customVars, fetchVars, timeVars, migrationVars, rankingVars>>
     \/ focus = "searches" /\ Search /\ UNCHANGED <<vars, customVars, fetchVars, timeVars, migrationVars, memoryVars>>

(* The fairness of FairSpec; a manager at rest has no work.                   *)
Focused == focus = "servers"
MCSpec ==
  /\ MCInit /\ [][MCNext]_<<focus, vars, customVars, fetchVars, timeVars, migrationVars, memoryVars, rankingVars>>
  /\ WF_vars(Focused /\ Work)
  /\ WF_vars(Focused /\ \E p \in Requests : Created(p))
  /\ WF_vars(Focused /\ Look)

(* The type invariants of the components that have one.                       *)
TypesOK == TypeOK /\ CustomTypeOK /\ FetchTypeOK /\ MemoryTypeOK
=============================================================================
