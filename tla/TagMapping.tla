----------------------------- MODULE TagMapping -----------------------------
(***************************************************************************)
(* The mapping of tags to tables (mapping/mapping.go, matcher.go,          *)
(* filter.go).  Two parts of the code have to agree: the tag filters,      *)
(* which drop tags before an element is cached, and the matchers, which    *)
(* later choose the tables of the cached element.  Tags are a function     *)
(* from keys to values; a configured list of values is a set, with AnyTag  *)
(* for __any__, and so are the values a regular expression accepts.        *)
(***************************************************************************)
EXTENDS Integers, Sequences, FiniteSets

CONSTANTS
  Table,       \* names of tables
  Conf,        \* Conf[t]: the configuration of a table (mapping/config)
  AnyTag,      \* __any__, as a key or a value
  AreaTags,    \* keys of areas.area_tags, and
  LinearTags,  \* of areas.linear_tags; empty if they are not configured
  LoadAll,     \* tags.load_all, with the keys of
  Exclude,     \* tags.exclude, and
  Include      \* tags.include

TableType == {"point", "linestring", "polygon", "geometry", "relation", "relation_member"}

(* mapping, each of mappings and each of type_mappings is the sequence of  *)
(* its key/value pairs; the position is the order UnmarshalYAML counts.    *)
ASSUME TagMappingAssumption ==
  /\ \A t \in Table :
       /\ Conf[t].type \in TableType
       /\ Conf[t].type = "geometry" => Conf[t].mapping = <<>> /\ Conf[t].mappings = <<>>
       /\ Conf[t].type # "geometry" => \A k \in DOMAIN Conf[t].typed : Conf[t].typed[k] = <<>>
  /\ LoadAll \in BOOLEAN

NoSub == "-"

(* An entry of TagTableMapping, from addFromMapping.                       *)
FromMapping(kvs, t, sub) ==
  {[key |-> kvs[i][1], value |-> kvs[i][2], dest |-> <<t, sub>>, order |-> i] : i \in DOMAIN kvs}

OfType(t, type) == Conf[t].type \in {type, "geometry"}

Mappings ==
  [type \in TableType |->
     UNION {FromMapping(Conf[t].mapping, t, NoSub)
            \cup UNION {FromMapping(Conf[t].mappings[s], t, s) : s \in DOMAIN Conf[t].mappings}
            \cup (IF type \in DOMAIN Conf[t].typed
                    THEN FromMapping(Conf[t].typed[type], t, NoSub) ELSE {})
            : t \in {t \in Table : OfType(t, type)}}]

-----------------------------------------------------------------------------
(* Mutant: the tag type is kept only for the common relations.             *)
MutExtraTags ==
  [type \in TableType |->
     UNION {Conf[t].columns \cup {x[1] : x \in Conf[t].exclude}
            : t \in {t \in Table : OfType(t, type)}}
     \cup Include \cup {"area"}]

(* The keys that are kept whatever their values.  The keys of the filters  *)
(* require and reject are not among them.                                  *)
ExtraTags ==
  [type \in TableType |->
     UNION {Conf[t].columns
            \cup {x[1] : x \in Conf[t].exclude}
            \cup (IF Conf[t].relTypes # {} /\ type \in {"polygon", "relation", "relation_member"}
                    THEN {"type"} ELSE {})
            : t \in {t \in Table : OfType(t, type)}}
     \cup Include \cup {"area"}]

Keep(tags, keys) == [k \in keys |-> tags[k]]

(* tagFilter.Filter with the mappings and the extra tags of some types,    *)
(* or excludeFilter.Filter.                                                *)
Filter(tags, mapped, extra) ==
  IF LoadAll THEN Keep(tags, DOMAIN tags \ Exclude)
  ELSE Keep(tags, {k \in DOMAIN tags :
                     \/ \E m \in mapped : m.key = k /\ m.value \in {AnyTag, tags[k]}
                     \/ k \in extra})

NodeTagFilter(tags) ==
  Filter(tags, Mappings["point"], ExtraTags["point"] \cup ExtraTags["relation_member"])

WayTagFilter(tags) ==
  Filter(tags, Mappings["linestring"] \cup Mappings["polygon"],
         ExtraTags["linestring"] \cup ExtraTags["polygon"] \cup ExtraTags["relation_member"])

CommonTypes == {"multipolygon", "boundary", "land_area"}

RelationTagFilter(tags) ==
  LET types == {"linestring", "polygon", "relation", "relation_member"} IN
    Filter(tags,
           UNION {Mappings[type] : type \in types}
           \cup {[key |-> "type", value |-> v] : v \in CommonTypes},
           UNION {ExtraTags[type] : type \in types})

-----------------------------------------------------------------------------
TagIs(tags, k, v) == k \in DOMAIN tags /\ tags[k] = v
Holds(tags, f) == f.key \in DOMAIN tags /\ (AnyTag \in f.values \/ tags[f.key] \in f.values)

(* addFilters: exclude_tags, require, reject and both with expressions.    *)
PassesFilters(t, tags) ==
  /\ \A x \in Conf[t].exclude : ~Holds(tags, [key |-> x[1], values |-> {x[2]}])
  /\ \A f \in Conf[t].require : Holds(tags, f)
  /\ \A f \in Conf[t].reject : ~Holds(tags, f)

(* addTypedFilters: roads that are areas, areas that are roads.            *)
PassesTyped(t, tags, key, closed) ==
  /\ Conf[t].type = "linestring" /\ AreaTags # {} /\ closed =>
       ~TagIs(tags, "area", "yes") /\ (TagIs(tags, "area", "no") \/ key \notin AreaTags)
  /\ Conf[t].type = "polygon" /\ LinearTags # {} =>
       ~(closed /\ TagIs(tags, "area", "no")) /\ (TagIs(tags, "area", "yes") \/ key \notin LinearTags)

(* addRelationFilters.                                                     *)
PassesRelation(t, tags) ==
  LET type(S) == "type" \in DOMAIN tags /\ tags["type"] \in S IN
    IF Conf[t].relTypes # {} THEN type(Conf[t].relTypes)
    ELSE Conf[t].type = "polygon" => type(CommonTypes)

(* Of the entries of one destination the one that comes first counts.      *)
Best(entries) ==
  {e \in entries : \A f \in entries : f.dest = e.dest => e.order <= f.order}

(* tagMatcher.match.  The filters apply to the best entry only.            *)
Match(type, tags, closed, relation) ==
  LET hit(e) == \/ e.key = AnyTag /\ e.value = AnyTag
                \/ e.key \in DOMAIN tags /\ e.value \in {AnyTag, tags[e.key]}
      value(e) == IF e.key = AnyTag THEN AnyTag ELSE tags[e.key]
      passes(e) == /\ PassesFilters(e.dest[1], tags)
                   /\ PassesTyped(e.dest[1], tags, e.key, closed)
                   /\ relation => PassesRelation(e.dest[1], tags)
  IN {[table |-> e.dest[1], sub |-> e.dest[2], key |-> e.key, value |-> value(e)]
        : e \in {e \in Best({e \in Mappings[type] : hit(e)}) : passes(e)}}

MatchNode(tags) == Match("point", tags, FALSE, FALSE)

(* MatchWay, of the matchers for polygons and for linestrings.             *)
MatchPolygon(tags, closed) ==
  IF closed /\ ~TagIs(tags, "area", "no") THEN Match("polygon", tags, TRUE, FALSE) ELSE {}

MatchLine(tags, closed) ==
  IF closed /\ TagIs(tags, "area", "yes") THEN {} ELSE Match("linestring", tags, closed, FALSE)

MatchRelation(type, tags) == Match(type, tags, TRUE, TRUE)
=============================================================================
