------------------------------ MODULE Listing ------------------------------
(***************************************************************************)
(* GET /files: a client walks through its records with limit and offset    *)
(* (list_files of app/routers/management.py, list of                       *)
(* app/services/metadata/postgres.py), one query per page, while records   *)
(* come and go in between; and POST /files/batch (app/routers/batch.py).   *)
(***************************************************************************)
EXTENDS Naturals, FiniteSets, SequencesExt

CONSTANTS
  RowIds,        (* primary keys, compared as Postgres compares them       *)
  Stamps,        (* values of created_at; few, so that rows share one      *)
  Limits         (* page sizes                                             *)

ASSUME ListingAssumption ==
  RowIds \subseteq Nat /\ Stamps \subseteq Nat /\ Limits \subseteq Nat \ {0}

VARIABLES
  listed,      (* the table: id, created_at and whether it is the caller's *)
  limit,       (* the page size of the walk                                *)
  seen,        (* the ids received so far, in order                        *)
  walk,        (* whether the walk goes on                                 *)
  initially,   (* history: the caller's rows when the walk began           *)
  changed      (* history: whether rows were added, removed since          *)

listVars == <<listed, limit, seen, walk, initially, changed>>

Entries == [id : RowIds, at : Stamps, mine : BOOLEAN]

UniqueIds(table) == \A e, f \in table : e.id = f.id => e = f

Mine(table) == {e \in table : e.mine}

ListInit ==
  /\ listed \in {t \in SUBSET Entries : UniqueIds(t)}
  /\ limit \in Limits
  /\ seen = <<>>
  /\ walk = "walking"
  /\ initially = {e.id : e \in Mine(listed)}
  /\ changed = {}

ListIdle ==
  /\ listed = {} /\ limit = 0 /\ seen = <<>> /\ walk = "idle"
  /\ initially = {} /\ changed = {}

(* Mutant: ORDER BY created_at DESC alone; Postgres may order rows of one  *)
(* created_at as it likes, each time anew.                                 *)
OrdersByTime(table) ==
  {s \in SetToSeqs(table) : \A i, j \in DOMAIN s : i < j => s[i].at >= s[j].at}

(* WHERE owner = $1 ORDER BY created_at DESC, id DESC                      *)
Newer(e, f) == e.at > f.at \/ (e.at = f.at /\ e.id > f.id)

Orders(table) == {SetToSortSeq(table, Newer)}

(* LIMIT $5 OFFSET $6.  The offset of the next page is what was received.  *)
ListPage ==
  /\ walk = "walking"
  /\ \E s \in Orders(Mine(listed)) :
       LET page == SubSeq(s, Len(seen) + 1, Min({Len(seen) + limit, Len(s)})) IN
       /\ seen' = seen \o [i \in DOMAIN page |-> page[i].id]
       /\ walk' = IF Len(page) < limit THEN "over" ELSE "walking"
  /\ UNCHANGED <<listed, limit, initially, changed>>

(* An upload of anybody's; created_at need not be the newest, since the    *)
(* order of commits is not that of now().                                  *)
AddRow ==
  /\ walk = "walking"
  /\ \E e \in Entries :
       /\ \A f \in listed : f.id # e.id
       /\ e.id \notin initially
       /\ listed' = listed \cup {e}
       /\ changed' = IF e.mine THEN changed \cup {"added"} ELSE changed
  /\ UNCHANGED <<limit, seen, walk, initially>>

RemoveRow ==
  /\ walk = "walking"
  /\ \E e \in listed :
       /\ listed' = listed \ {e}
       /\ changed' = IF e.mine THEN changed \cup {"removed"} ELSE changed
  /\ UNCHANGED <<limit, seen, walk, initially>>

ListNext == ListPage \/ AddRow \/ RemoveRow

(* get_many: unknown ids and those of others are dropped.                  *)
GetMany(table, ids) == {e.id : e \in {f \in Mine(table) : f.id \in ids}}

(* "a client paginating with limit/offset across separate requests could   *)
(* see a duplicate or skip a row entirely" (postgres.py 280-285) is ruled  *)
(* out for rows that share a created_at: over a table nobody changes every *)
(* row comes exactly once, and by id as well; rows that are added can only *)
(* make others come twice, and rows that are removed only make others be   *)
(* missed; whatever others do to theirs shows nowhere.                     *)
PagesCoverListing ==
  walk = "over" =>
    /\ "removed" \in changed \/ initially \subseteq Range(seen)
    /\ "added" \in changed \/ (IsInjective(seen) /\ Range(seen) \subseteq initially)
    /\ changed = {} => Range(seen) = GetMany(listed, Range(seen))

=============================================================================
