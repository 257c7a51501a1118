--------------------------- MODULE KnowledgeVersions ---------------------------
(***************************************************************************)
(* Knowledge articles: candidates are submitted, published by someone who  *)
(* did not write them, retired, published again, or rolled back to a       *)
(* version once published.  Each publication and rollback advances the     *)
(* index generation of the tenant; a retirement goes one beyond the        *)
(* version it retires, and leaves the tenant's generation as it is.        *)
(*                                                                         *)
(* One tenant; content, scores and duplicates are data of a candidate.     *)
(***************************************************************************)
EXTENDS Integers, Sequences

CONSTANTS Candidate,
          MaxVersions          \* bound: versions of each candidate

ASSUME KnowledgeAssumption == MaxVersions \in Nat

VARIABLES articles,            \* KnowledgeStore.rows
          index_generation,
          refreshes            \* history: publications and rollbacks, in order

knowledgeVars == <<articles, index_generation, refreshes>>

KnowledgeTypeOK ==
  /\ \A c \in Candidate :
       /\ articles[c].status \in {"absent", "review", "published", "retired"}
       /\ Len(articles[c].versions) <= MaxVersions
  /\ index_generation \in Nat

KnowledgeInit ==
  /\ articles = [c \in Candidate |-> [status |-> "absent", versions |-> <<>>]]
  /\ index_generation = 0
  /\ refreshes = <<>>
-----------------------------------------------------------------------------
Submitted(c) ==
  /\ articles[c].status = "absent"
  /\ articles' = [articles EXCEPT ![c].status = "review"]
  /\ UNCHANGED <<index_generation, refreshes>>

\* A version more, and what the record then says.
Versioned(c, kind, generation, status) ==
  /\ Len(articles[c].versions) < MaxVersions
  /\ articles' = [articles EXCEPT ![c] =
       [status |-> status,
        versions |-> Append(@.versions, [status |-> kind, generation |-> generation])]]

\* Mutant: a candidate counts its own generations.
OwnGeneration(c) == Len(articles[c].versions) + 1

NextGeneration(c) == index_generation + 1

Refreshed(c, kind) ==
  /\ Versioned(c, kind, NextGeneration(c), "published")
  /\ index_generation' = NextGeneration(c)
  /\ refreshes' = Append(refreshes, <<c, Len(articles[c].versions) + 1>>)

Publish(c) ==
  /\ articles[c].status \in {"review", "retired"}
  /\ Refreshed(c, "published")

Retire(c) ==
  /\ articles[c].status = "published"
  /\ LET prior == articles[c].versions[Len(articles[c].versions)]
     IN Versioned(c, "retired", prior.generation + 1, "retired")
  /\ UNCHANGED <<index_generation, refreshes>>

\* rollback, of a candidate in any status, to a version that was published.
RollbackVersion(c, n) ==
  /\ n \in 1 .. Len(articles[c].versions) /\ articles[c].versions[n].status = "published"
  /\ Refreshed(c, "rolled_back")

KnowledgeNext ==
  \E c \in Candidate : \/ Submitted(c) \/ Publish(c) \/ Retire(c)
                       \/ \E n \in 1 .. MaxVersions : RollbackVersion(c, n)

KnowledgeSpec == KnowledgeInit /\ [][KnowledgeNext]_knowledgeVars
-----------------------------------------------------------------------------
\* The generations tell in which order the tenant's publications and rollbacks were made,
\* whatever was retired meanwhile; a candidate's versions never go back in them; and its
\* record says what its last version is.
GenerationsTell ==
  /\ \A i \in 1 .. Len(refreshes) :
       articles[refreshes[i][1]].versions[refreshes[i][2]].generation = i
  /\ \A c \in Candidate :
       LET versions == articles[c].versions
       IN /\ \A i \in 2 .. Len(versions) :
               versions[i - 1].generation <= versions[i].generation
          /\ versions # <<>> =>
               (articles[c].status = "retired" <=> versions[Len(versions)].status = "retired")
===============================================================================
