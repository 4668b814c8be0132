---------------------------- MODULE SchemaProofs ----------------------------
(***************************************************************************)
(* What holds of the schema registry for every history and every answer,   *)
(* and of a query for every service and every limit, of which MCSchema     *)
(* evaluates small ones.                                                   *)
(***************************************************************************)
EXTENDS Schema, Client, WellFoundedInduction, TLAPS

(* No schema of the registry has a column of nulls.                        *)
TypesReal(registry) ==
    \A i \in DOMAIN registry : \A c \in Columns(registry[i]) : registry[i].types[c] # "null"

(* The latest schema is one of the registry.                               *)
LEMMA LatestRegistered ==
    ASSUME NEW S, NEW registry \in Seq(S), registry # <<>>
    PROVE  \E i \in DOMAIN registry : LatestSchema(registry) = registry[i]
<1>1. Len(registry) \in DOMAIN registry
  OBVIOUS
<1> QED
  BY <1>1 DEF LatestSchema

(* A column of nulls is given the type that is registered for it, or is    *)
(* text: infer_schema registers no column without a type, so the case of   *)
(* such a column in compare_schemas is never met.                          *)
THEOREM RegistryHasTypes ==
    ASSUME NEW S, NEW registry \in Seq(S), TypesReal(registry), NEW answer
    PROVE  TypesReal(Register(registry, Prepare(registry, answer)))
<1> DEFINE new == Prepare(registry, answer)
<1>1. ASSUME NEW c \in Columns(new)
      PROVE  new.types[c] # "null"
  <2>1. Hint(registry, c) # "null"
    BY LatestRegistered DEF Hint, TypesReal
  <2>2. c \in Columns(answer)
    BY DEF Prepare, Columns
  <2>3. new.types[c] = ColumnType(ColumnOf(Normalize(registry, answer), c), Hint(registry, c))
    BY <2>2 DEF Prepare
  <2> QED
    BY <2>1, <2>3 DEF ColumnType
<1> HIDE DEF new
<1>2. CASE \E i \in DOMAIN registry : registry[i] = new
  BY <1>2 DEF Register, new
<1>3. CASE ~\E i \in DOMAIN registry : registry[i] = new
  <2>1. Register(registry, new) = Append(registry, new)
    BY <1>3 DEF Register
  <2>2. registry \in Seq(S \union {new}) /\ new \in S \union {new}
    OBVIOUS
  <2>3. ASSUME NEW i \in DOMAIN Append(registry, new)
        PROVE  Append(registry, new)[i] = new
                  \/ (i \in DOMAIN registry /\ Append(registry, new)[i] = registry[i])
    BY <2>2, <2>3
  <2> QED
    BY <1>1, <2>1, <2>3 DEF TypesReal, new
<1> QED
  BY <1>2, <1>3

(* An accepted answer leaves every column of the latest schema that it has *)
(* at its type, except that integers may become floats: a column of floats *)
(* stays one for as long as no answer lacks it.                            *)
THEOREM TypesOnlyWiden ==
    ASSUME NEW S, NEW registry \in Seq(S), registry # <<>>, TypesReal(registry),
           NEW answer, Accepts(registry, answer),
           NEW c \in Columns(LatestSchema(registry)) \intersect Columns(answer)
    PROVE  LET old == LatestSchema(registry).types[c]
               new == Prepare(registry, answer).types[c]
           IN  old = new \/ (old = "int" /\ new = "float")
<1> DEFINE old == LatestSchema(registry)
           new == Prepare(registry, answer)
<1>1. old.types[c] # "null"
  BY LatestRegistered DEF TypesReal
<1>2. c \in Columns(new)
  BY DEF Prepare, Columns
<1>3. Incompatible(old, new) = {}
  BY DEF Accepts
<1> HIDE DEF old, new
<1>4. c \in Columns(old) \intersect Columns(new) /\ c \notin Incompatible(old, new)
  BY <1>2, <1>3 DEF old
<1>5. old.types[c] = new.types[c] \/ (old.types[c] = "int" /\ new.types[c] = "float")
  BY <1>1, <1>4 DEF Incompatible
<1> QED
  BY <1>5 DEF old, new

-----------------------------------------------------------------------------
(* A set of numbers has a least one.                                       *)
LEMMA LeastNumber ==
    ASSUME NEW S, S \subseteq Nat, S # {}
    PROVE  \E n \in S : \A k \in S : n <= k
<1> DEFINE R == OpToRel(<, Nat)
<1>1. IsWellFoundedOn(R, Nat)
  BY NatLessThanWellFounded, Zenon
<1>2. R = {p \in Nat \X Nat : p[1] < p[2]}
  BY Zenon DEF OpToRel
<1> HIDE DEF R
<1>3. PICK n \in S : \A k \in S : <<k, n>> \notin R
  BY <1>1, WFMin
<1>4. ASSUME NEW k \in S
      PROVE  n <= k
  <2>1. n \in Nat /\ k \in Nat
    OBVIOUS
  <2>2. <<k, n>> \notin {p \in Nat \X Nat : p[1] < p[2]}
    BY <1>2, <1>3
  <2> QED
    BY <2>1, <2>2
<1> QED
  BY <1>4

(* The pages of a service with the given items.                            *)
Pages(Items) == [ok : BOOLEAN, more : BOOLEAN, items : SUBSET Items]

(* A query asks for a page at least and for maxPages at most; a last       *)
(* request there is for every service.                                     *)
LEMMA LastRequestExists ==
    ASSUME NEW service, NEW paged \in BOOLEAN, NEW maxPages \in Nat \ {0}
    PROVE  LET n == LastRequest(service, paged, maxPages)
           IN  /\ n \in 0..(maxPages - 1)
               /\ Ends(service, paged, maxPages, n)
               /\ \A k \in 0..maxPages : k < n => ~Ends(service, paged, maxPages, k)
<1> DEFINE E == {k \in 0..maxPages : Ends(service, paged, maxPages, k)}
           n == LastRequest(service, paged, maxPages)
<1>1. maxPages - 1 \in E
  BY DEF Ends
<1>2. PICK least \in E : \A k \in E : least <= k
  <2>1. E \subseteq Nat /\ E # {}
    BY <1>1
  <2> HIDE DEF E
  <2> QED
    BY <2>1, LeastNumber
<1>3. /\ least \in 0..maxPages /\ Ends(service, paged, maxPages, least)
      /\ \A k \in 0..maxPages : k < least => ~Ends(service, paged, maxPages, k)
  BY <1>2
<1>4. /\ n \in 0..maxPages /\ Ends(service, paged, maxPages, n)
      /\ \A k \in 0..maxPages : k < n => ~Ends(service, paged, maxPages, k)
  BY <1>3 DEF LastRequest
<1> HIDE DEF n
<1>5. ~(maxPages - 1 < n)
  BY <1>1, <1>4
<1> QED
  BY <1>4, <1>5 DEF n

(* A paged query gives everything up to a page that is the last or empty,  *)
(* or an error: no page is left out, none is asked for twice, and a        *)
(* service of exactly maxPages pages is read whole (query_paginated).      *)
THEOREM QueryIsWhole ==
    ASSUME NEW Items, NEW service \in [Nat -> Pages(Items)], NEW maxPages \in Nat \ {0}
    PROVE  LET q == Query(service, TRUE, maxPages)
               last == service[q.requests - 1]
           IN  /\ q.requests \in 1..maxPages
               /\ q.items = UNION {service[k].items : k \in 0..(q.requests - 1)}
               /\ \A k \in 0..(q.requests - 1) :
                     k # q.requests - 1 => service[k].ok /\ service[k].more
               /\ q.result = "items" <=> last.ok /\ (~last.more \/ last.items = {})
               /\ q.result = "too_many_pages" => q.requests = maxPages /\ last.more
<1> DEFINE n == LastRequest(service, TRUE, maxPages)
           q == Query(service, TRUE, maxPages)
<1>1. /\ n \in 0..(maxPages - 1)
      /\ Ends(service, TRUE, maxPages, n)
      /\ \A k \in 0..maxPages : k < n => ~Ends(service, TRUE, maxPages, k)
  BY LastRequestExists
<1>2. /\ q.requests = n + 1
      /\ q.items = UNION {service[k].items : k \in 0..n}
      /\ q.result = IF ~service[n].ok THEN "refused"
                    ELSE IF service[n].more /\ service[n].items # {} THEN "too_many_pages"
                    ELSE "items"
  BY DEF Query
<1> HIDE DEF n, q
<1>3. q.requests - 1 = n /\ n \in Nat /\ q.requests \in 1..maxPages
  BY <1>1, <1>2
<1>4. service[n] \in Pages(Items)
  BY <1>3
<1>5. ASSUME NEW k \in 0..n, k # n
      PROVE  service[k].ok /\ service[k].more
  <2>1. k \in 0..maxPages /\ k < n
    BY <1>1, <1>3, <1>5
  <2>2. ~Ends(service, TRUE, maxPages, k)
    BY <1>1, <2>1
  <2> QED
    BY <2>2 DEF Ends
<1>6. q.result = "items" <=> service[n].ok /\ (~service[n].more \/ service[n].items = {})
  BY <1>2, <1>4 DEF Pages
<1>7. ASSUME q.result = "too_many_pages"
      PROVE  q.requests = maxPages /\ service[n].more
  <2>1. service[n].ok /\ service[n].more /\ service[n].items # {}
    BY <1>2, <1>7
  <2>2. n + 1 >= maxPages
    BY <1>1, <2>1 DEF Ends
  <2> QED
    BY <1>1, <1>2, <2>1, <2>2
<1> QED
  BY <1>2, <1>3, <1>5, <1>6, <1>7 DEF q
=============================================================================
