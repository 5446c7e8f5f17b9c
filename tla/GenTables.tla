----------------------------- MODULE GenTables -----------------------------
(***************************************************************************)
(* Generalized tables (database/postgis/postgis.go, spec.go): how their    *)
(* sources are found, what Generalize fills them with at the end of an     *)
(* import, and what an update deletes from and inserts into them.          *)
(* Tables are one bag of rows; a row names its table.                      *)
(***************************************************************************)
EXTENDS Integers, FiniteSets, Bags

CONSTANTS
  GenTable,     \* names of generalized tables
  SourceName,   \* SourceName[g]: source of the mapping, a table or generalized table
  Where         \* Where[g]: the values of rows its sql_filter accepts

(* A row of a generalized table passes the filters of its sources: updates *)
(* do not apply them (see GeneralizeUpdates).                              *)
ASSUME GenTablesAssumption ==
  \A g \in GenTable : SourceName[g] \in GenTable => Where[g] \subseteq Where[SourceName[g]]

NoSource == "none"

(* prepareGeneralizedTableSources.  First every table whose source is an   *)
(* original table gets it; then loops over the tables (in the order of a   *)
(* Go map) fill in the source of a source that is known by then.           *)
DirectSources == [g \in GenTable |-> IF SourceName[g] \in GenTable THEN NoSource ELSE SourceName[g]]

(* Mutant: a generalized table gets no source from a generalized table.    *)
MutFillable(src) == {g \in GenTable : src[g] = NoSource /\ SourceName[g] \notin GenTable}

Fillable(src) ==
  {g \in GenTable : src[g] = NoSource /\ SourceName[g] \in GenTable /\ src[SourceName[g]] # NoSource}

Select(bag, P(_)) == [r \in {r \in DOMAIN bag : P(r)} |-> bag[r]]
Into(bag, g) ==
  LET rows == {[r EXCEPT !.table = g] : r \in DOMAIN bag} IN
    [r \in rows |-> bag[CHOOSE s \in DOMAIN bag : [s EXCEPT !.table = g] = r]]

(* generalizeTable, in the order of Generalize: sources first.             *)
Generalized(tables) ==
  LET of[g \in GenTable] ==
        LET accepted(r) == r.value \in Where[g]
            inSource(r) == r.table = SourceName[g] IN
          Into(Select(IF SourceName[g] \in GenTable THEN of[SourceName[g]]
                      ELSE Select(tables, inSource), accepted), g)
  IN BagUnion({of[g] : g \in GenTable})

(* PostGIS.Delete: from the tables and their generalizations.              *)
DeleteRows(tables, src, id, from) ==
  LET keeps(r) == ~(r.id = id /\ (\/ r.table \in from
                                  \/ r.table \in GenTable /\ src[r.table] \in from)) IN
    Select(tables, keeps)

(* InsertLineString and InsertPolygon note the id once for each row and    *)
(* generalized table of its table.                                         *)
NotedIDs(src, rows) ==
  BagOfAll(LAMBDA p : <<p[1], p[2].id>>,
           SetToBag({p \in GenTable \X rows : src[p[1]] = p[2].table}))

(* Mutant: the filter of the generalized table is forgotten.               *)
MutGeneralizeUpdates(tables, src, ids) ==
  LET rows(p) == LET inSource(r) == r.table = src[p[1]] /\ r.id = p[2] IN
                   Into(Select(tables, inSource), p[1])
      inserted == UNION {DOMAIN rows(p) : p \in DOMAIN ids} IN
    tables (+) [r \in inserted |-> LET p == <<r.table, r.id>> IN ids[p] * rows(p)[r]]

(* GeneralizeUpdates: for each noted id, as often as it was noted, the     *)
(* rows InsertSQL selects: from the original table, by id and filter.      *)
GeneralizeUpdates(tables, src, ids) ==
  LET rows(p) == LET selected(r) == /\ r.table = src[p[1]] /\ r.id = p[2]
                                    /\ r.value \in Where[p[1]] IN
                   Into(Select(tables, selected), p[1])
      inserted == UNION {DOMAIN rows(p) : p \in DOMAIN ids} IN
    tables (+) [r \in inserted |-> LET p == <<r.table, r.id>> IN ids[p] * rows(p)[r]]
=============================================================================
