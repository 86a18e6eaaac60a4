---------------------------- MODULE DbTree_proofs ----------------------------
(***************************************************************************)
(* Proofs about DbTree, for any schemas, relations, bodies and paths and   *)
(* any number of changes by other connections: every answer of ls, info,   *)
(* open and write is that of a moment of the call, a call fails only if    *)
(* what it asks for was gone at a moment of it, and a removal uses no kind *)
(* that this filesystem has made stale.                                    *)
(*                                                                         *)
(* A call c is Sound if what it has seen so far is what the properties     *)
(* need of its answer: Underway says so before the answer, statement by    *)
(* statement, and Listing, Answered and Unserved of the answer.            *)
(***************************************************************************)
EXTENDS DbTree, SequenceTheorems, WellFoundedInduction, TLAPS

Reading == {"ls", "info", "open", "write"}
Fields == {"op", "path", "todo", "kind", "latest", "entries", "data", "result"}

\* What the call is about.
Where(c) == Parts(Normalize(c.path))
Subject(c) == <<Where(c).schema, Where(c).relation>>

OfRelation(c) == Where(c).kind \notin {"root", "schema", "invalid"}

Last(seq) == seq[Len(seq)]

Steps == {"schemas", "relations", "relation", "count", "if view", "view", "definition",
          "columns", "indexes", "keys", "references", "constraints", "ddl", "query", "drop"}

CallTyped(c) ==
    /\ c = [f \in Fields |-> c[f]]
    /\ c.path \in Seq(Seq(STRING))
    /\ c.todo \in Seq(Steps)
    /\ {c.kind, c.latest} \subseteq {"", "table", "view"}
    /\ c.data = [f \in {"columns", "mentions", "rows"} |-> c.data[f]]

\* The kinds that the call has found, at first and of late, were those of the
\* relation at moments of it, and nothing comes before they are found.
KindSeen(c) ==
    \A kind \in {c.kind, c.latest} :
        /\ kind # "" => \E k \in span : Exists(k, Subject(c)) /\ k.relations[Subject(c)].kind = kind
        /\ kind = "" => c.todo # << >> /\ Head(c.todo) \in {"relation", "view"}

\* The statements that read what the call is for.
Needed(facet) ==
    IF facet = "depends_on" THEN {"definition"}
    ELSE IF facet = "constraints" /\ sqlite THEN {"keys", "references"}
    ELSE {facet}

LookupSteps == IF sqlite THEN {"relation", "count"} ELSE {"relation"}
ViewSteps == {"if view", "view", "definition"}

\* What one statement finds for a facet of the relation.
FacetNodes(k, r, s) ==
    IF ~Exists(k, r) THEN {}
    ELSE IF s = "definition" THEN { DependsOnEntry(r, read) : read \in k.relations[r].reads }
    ELSE FacetItems(r, k.relations[r], s)

\* What a statement that was made found, or would have found at any moment, is there.
FacetRead(c) ==
    LET p == Where(c) IN
    /\ \A i \in DOMAIN c.todo :
          c.todo[i] \in LookupSteps \cup Needed(p.part)
                          \cup IF p.part = "depends_on" THEN ViewSteps ELSE {}
    /\ \A n \in c.entries : \E k \in span, s \in Needed(p.part) : n \in FacetNodes(k, Subject(c), s)
    /\ \A s \in Needed(p.part) :
          \/ \E i \in DOMAIN c.todo : c.todo[i] = s
          \/ \A k \in span : \A n \in FacetNodes(k, Subject(c), s) :
                (\A k2 \in span : n \in FacetNodes(k2, Subject(c), s)) => n \in c.entries

RootRead(c) ==
    /\ c.op = "ls" => \/ c.todo = <<"schemas">>
                      \/ /\ c.todo = << >>
                         /\ \E k \in span : c.entries = { SchemaInfo(s) : s \in k.schemas }
    /\ c.op = "info" => c.todo = << >>

SchemaRead(c) ==
    LET p == Where(c) IN
    /\ c.op = "ls" =>
          \/ c.todo \in {<<"schemas", "relations">>, <<"relations">>}
          \/ /\ c.todo = << >>
             /\ \E k \in span : c.entries =
                   { RelationInfo(r, k.relations[r].kind) :
                       r \in { x \in DOMAIN k.relations : x[1] = p.schema } }
    /\ c.op = "info" =>
          \/ c.todo = <<"schemas">>
          \/ c.todo = << >> /\ (\E k \in span : p.schema \in k.schemas)

LookupRead(c) == \A i \in DOMAIN c.todo : c.todo[i] \in LookupSteps

\* The statement that reads the content, and those before it.
Final(c) ==
    IF Where(c).kind = "definition" THEN {"definition"}
    ELSE IF Where(c).part # "sql" THEN {"query"}
    ELSE {"ddl"} \cup (IF c.kind = "view" THEN {"definition"} ELSE {})
                 \cup (IF c.kind = "table" THEN {"columns"} ELSE {})

Before(c) ==
    IF Where(c).kind = "definition" THEN {"view"}
    ELSE LookupSteps \cup (IF c.kind = "view" THEN {"view"} ELSE {})

ContentRead(c) ==
    /\ c.todo # << >> =>
          /\ c.op = "open" => c.data = NoData
          /\ Last(c.todo) \in Final(c)
          /\ \A i \in 1 .. Len(c.todo) - 1 : c.todo[i] \in Before(c)
    /\ c.op = "open" /\ c.todo = << >> =>
          \E k \in span : c.data = Content(k, Normalize(c.path), c.kind)
    /\ Where(c).kind = "definition" => c.kind # "table"

\* What is read by looking for the relation only, of a facet, of a content.
IsLookup(c) ==
    \/ Where(c).kind = "relation"
    \/ Where(c).kind = "facet" /\ c.op = "info"
    \/ Where(c).kind = "data" /\ c.op # "open"

IsFacet(c) == (Where(c).kind = "facet" /\ c.op = "ls") \/ Where(c).kind = "item"

IsContent(c) == Where(c).kind = "definition" \/ c.op = "open"

\* A call that reads, before its answer.
Underway(c) ==
    /\ Refusal(c.op, Where(c)) = "none"
    /\ OfRelation(c) => KindSeen(c)
    /\ Where(c).kind = "root" => RootRead(c)
    /\ Where(c).kind = "schema" => SchemaRead(c)
    /\ IsLookup(c) => LookupRead(c)
    /\ IsFacet(c) => FacetRead(c)
    /\ IsContent(c) => ContentRead(c)

\* A removal looks for the kind, unless it knows one, and then drops.
Removing(c) ==
    /\ c.path \in DdlPaths /\ NamesRelation(c.path)
    /\ c.todo # << >> /\ Last(c.todo) = "drop"
    /\ \A i \in 1 .. Len(c.todo) - 1 : c.todo[i] \in LookupSteps
    /\ c.kind = "" => Head(c.todo) = "relation"
    /\ changes <= MaxChanges

\* The properties, of any call.
Listing(c) ==
    LET path == Normalize(c.path) IN
    c.op = "ls" /\ c.result = "ok" =>
        /\ c.entries \subseteq UNION { Children(k, path) : k \in span }
        /\ \A n \in UNION { Children(k, path) : k \in span } :
              (\A k \in span : n \in Children(k, path)) => n \in c.entries

Answered(c) ==
    LET path == Normalize(c.path) IN
    c.result = "ok" =>
        /\ c.op \in {"info", "open"} =>
              \E n \in c.entries : \E k \in span : n \in Known(k) /\ n.path = path
        /\ c.op = "open" => \E k \in span : c.data = Content(k, path, c.kind)
        /\ c.op = "write" => \E k \in span : Serves(k, "write", path) # {}

Unserved(c) ==
    \A k1 \in span : \A n \in Serves(k1, c.op, Normalize(c.path)) :
       \E k2 \in span : n \notin Serves(k2, c.op, Normalize(c.path))

Results == {"none", "ok", "not found", "invalid", "other", "refused",
            "not a directory", "is a directory", "not supported"}

\* A call says nothing that is not so, and can go on.
Sound(c) ==
    /\ CallTyped(c)
    /\ c.op \in Reading \cup {"none", "mkdir", "mv", "rm"}
    /\ c.result \in Results /\ (c.result = "none" <=> c.todo # << >>)
    /\ c.op \in {"none", "mkdir", "mv"} => c.result # "none"
    /\ c.op \in Reading /\ c.result = "none" => Underway(c)
    /\ c.op = "rm" /\ c.result = "none" => Removing(c)
    /\ c.op \in Reading /\ c.result # "none" =>
          Listing(c) /\ Answered(c) /\ (c.result # "ok" => Unserved(c))

\* The catalogs there have been are catalogs.
Catalogued ==
    /\ catalog \in span \cap past
    /\ \A k \in span \cup past : IsCatalog(k)

\* Only other connections make a kind stale.
OwnOnly ==
    ~foreign =>
        /\ past = {catalog}
        /\ call.op = "rm" /\ ~Done /\ call.kind # "" /\ Exists(catalog, DdlTarget(call.path)) =>
              call.kind = catalog.relations[DdlTarget(call.path)].kind

TreeInv ==
    /\ sqlite \in BOOLEAN /\ foreign \in BOOLEAN
    /\ changes \in 0 .. MaxChanges + 1
    /\ Catalogued
    /\ Sound(call)
    /\ OwnOnly

-----------------------------------------------------------------------------
(***************************************************************************)
(* Paths                                                                   *)
(***************************************************************************)

\* A nonempty set of naturals has a least element.
LEMMA LeastOf ==
    ASSUME NEW T \in SUBSET Nat, T # {}
    PROVE  \E x \in T : \A y \in T : x <= y
<1> DEFINE Less == OpToRel(<, Nat)
<1>1. IsWellFoundedOn(Less, Nat)
  BY NatLessThanWellFounded, Zenon
<1>2. \E x \in T : \A y \in T : ~ (<<y, x>> \in Less)
  <2> HIDE DEF Less
  <2> QED
    BY <1>1, WFMin
<1>3. Less = {pair \in Nat \X Nat : pair[1] < pair[2]}
  BY DEF OpToRel
<1>4. \A y, x \in Nat : <<y, x>> \in Less <=> y < x
  <2> HIDE DEF Less
  <2> QED
    BY <1>3
<1>5. \E x \in T : \A y \in T : ~ (y < x)
  <2> HIDE DEF Less
  <2> QED
    BY <1>2, <1>4
<1> HIDE DEF Less
<1> QED
  BY <1>5

\* What is kept of the first n names of a path.
Kept(f, raw, n) ==
    IF n = 0 THEN << >>
    ELSE IF raw[n] = NoName THEN f[n - 1] ELSE Append(f[n - 1], raw[n])

Keeps(f, raw, last) == f = [n \in 0 .. last |-> Kept(f, raw, n)]

\* There is a function that keeps them: the least number of names for which
\* there is none would follow one for which there is one.
LEMMA SomeKeeps ==
    ASSUME NEW raw, NEW last \in Nat
    PROVE  \E f : Keeps(f, raw, last)
<1> DEFINE Missing == {n \in Nat : ~ \E f : Keeps(f, raw, n)}
<1> SUFFICES ASSUME Missing # {}
             PROVE  FALSE
  OBVIOUS
<1>1. PICK n \in Missing : \A m \in Missing : n <= m
  BY LeastOf
<1>2. n \in Nat /\ ~ \E f : Keeps(f, raw, n)
  BY <1>1
<1>3. CASE n = 0
  <2> DEFINE none == [i \in 0 .. 0 |-> << >>]
  <2>1. none = [i \in 0 .. 0 |-> Kept(none, raw, i)]
    BY DEF Kept
  <2> QED
    BY <1>2, <1>3, <2>1 DEF Keeps
<1>4. CASE n # 0
  <2>1. n - 1 \in Nat /\ n - 1 \notin Missing
    BY <1>1, <1>2, <1>4
  <2>2. PICK f : Keeps(f, raw, n - 1)
    BY <2>1
  <2> DEFINE more == [i \in 0 .. n |-> IF i = n THEN Kept(f, raw, n) ELSE f[i]]
             F(g) == [i \in 0 .. n - 1 |-> Kept(g, raw, i)]
  <2>3. \A i \in 0 .. n : Kept(more, raw, i) = Kept(f, raw, i)
    <3> SUFFICES ASSUME NEW i \in 0 .. n, i # 0
                 PROVE  more[i - 1] = f[i - 1]
      BY DEF Kept
    <3> QED
      BY <1>2
  <2>4. \A i \in 0 .. n - 1 : f[i] = Kept(f, raw, i)
    <3>1. f = F(f)
      BY <2>2 DEF Keeps
    <3>2. \A i \in 0 .. n - 1 : F(f)[i] = Kept(f, raw, i)
      OBVIOUS
    <3> HIDE DEF F
    <3> QED
      BY <3>1, <3>2
  <2>5. \A i \in 0 .. n : more[i] = Kept(more, raw, i)
    <3> SUFFICES ASSUME NEW i \in 0 .. n
                 PROVE  more[i] = Kept(f, raw, i)
      BY <2>3
    <3>1. CASE i = n
      BY <3>1
    <3>2. CASE i # n
      <4>1. i \in 0 .. n - 1
        BY <1>2, <3>2
      <4> QED
        BY <2>4, <3>2, <4>1
    <3> QED
      BY <3>1, <3>2
  <2>6. more = [i \in 0 .. n |-> Kept(more, raw, i)]
    <3>1. more = [i \in 0 .. n |-> more[i]]
      OBVIOUS
    <3> HIDE DEF more
    <3> QED
      BY <2>5, <3>1
  <2> QED
    BY <1>2, <2>6 DEF Keeps
<1> QED
  BY <1>3, <1>4

\* What is kept of a path is one.
LEMMA NormalIsPath ==
    ASSUME NEW S, NEW raw \in Seq(S)
    PROVE  Normalize(raw) \in Seq(S)
<1> DEFINE f == CHOOSE g : Keeps(g, raw, Len(raw))
           F(g) == [n \in 0 .. Len(raw) |-> Kept(g, raw, n)]
           Bad == {n \in 0 .. Len(raw) : f[n] \notin Seq(S)}
<1>1. Len(raw) \in Nat /\ \A n \in 1 .. Len(raw) : raw[n] \in S
  BY LenProperties, ElementOfSeq
<1>2. Normalize(raw) = f[Len(raw)]
  BY DEF Normalize, Keeps, Kept
<1>3. f = F(f)
  BY <1>1, SomeKeeps DEF Keeps
<1>4. \A n \in 0 .. Len(raw) : F(f)[n] = Kept(f, raw, n)
  OBVIOUS
<1> HIDE DEF f, F
<1>5. \A n \in 0 .. Len(raw) : f[n] = Kept(f, raw, n)
  BY <1>3, <1>4
<1>6. ASSUME Bad # {}
      PROVE  FALSE
  <2>1. Bad \in SUBSET Nat
    OBVIOUS
  <2>2. PICK n \in Bad : \A m \in Bad : n <= m
    BY <1>6, <2>1, LeastOf
  <2>3. n \in 0 .. Len(raw) /\ f[n] \notin Seq(S)
    BY <2>2
  <2>4. CASE n = 0
    BY <1>5, <2>3, <2>4, EmptySeq DEF Kept
  <2>5. CASE n # 0
    <3>1. n - 1 \in 0 .. Len(raw) /\ n \in 1 .. Len(raw)
      BY <1>1, <2>3, <2>5
    <3>2. n - 1 \notin Bad
      BY <1>1, <2>2, <2>3, <3>1
    <3>3. f[n - 1] \in Seq(S) /\ raw[n] \in S
      BY <1>1, <3>1, <3>2
    <3>4. Append(f[n - 1], raw[n]) \in Seq(S)
      BY <3>3, AppendProperties
    <3> QED
      BY <1>5, <2>3, <2>5, <3>3, <3>4 DEF Kept
  <2> QED
    BY <2>4, <2>5
<1> QED
  BY <1>1, <1>2, <1>6

\* What Append adds is what WithoutLast leaves out.
LEMMA WithoutAppended ==
    ASSUME NEW S, NEW r \in Seq(S), r # << >>, NEW f \in S
    PROVE  WithoutLast(Append(r, f)) = r
<1>1. Append(r, f) = r \o <<f>> /\ Len(Append(r, f)) = Len(r) + 1
  BY AppendIsConcat, AppendProperties
<1>2. Len(r) \in Nat \ {0}
  BY EmptySeq
<1>3. <<f>> \in Seq(S) /\ 1 \in 1 .. Len(r) /\ Len(r) \in 1 .. Len(r)
  BY <1>2
<1>4. SubSeq(r \o <<f>>, 1, Len(r)) = SubSeq(r, 1, Len(r))
  BY <1>3, SubSeqOfConcat1
<1>5. SubSeq(r, 1, Len(r)) = r
  BY SubSeqFull
<1> QED
  BY <1>1, <1>2, <1>4, <1>5 DEF WithoutLast

\* And what WithoutLast leaves out can be added.
LEMMA LastAppended ==
    ASSUME NEW S, NEW name \in Seq(S), name # << >>
    PROVE  name = Append(WithoutLast(name), name[Len(name)])
<1>1. PICK r \in Seq(S), f \in S : name = Append(r, f)
  BY SequenceEmptyOrAppend
<1>2. Len(name) = Len(r) + 1 /\ name[Len(r) + 1] = f /\ Len(r) \in Nat
  BY <1>1, AppendProperties, LenProperties
<1>3. WithoutLast(name) = r
  <2>1. CASE r # << >>
    BY <1>1, <2>1, WithoutAppended
  <2>2. CASE r = << >>
    <3>1. Len(r) = 0
      BY <2>2
    <3>2. WithoutLast(name) = SubSeq(name, 1, 0)
      BY <1>2, <3>1 DEF WithoutLast
    <3> QED
      BY <2>2, <3>2, SubSeqEmpty
  <2> QED
    BY <2>1, <2>2
<1> QED
  BY <1>1, <1>2, <1>3

\* The names a path has, by what it stands for.
LEMMA PartsOf ==
    ASSUME NEW path \in Seq(Seq(STRING)), NEW p, p = Parts(path)
    PROVE  /\ p.kind \in {"root", "schema", "relation", "facet", "item", "data", "definition", "invalid"}
           /\ p.kind = "root" => path = RootPath
           /\ p.kind = "schema" => path = SchemaPath(p.schema)
           /\ p.kind = "relation" => path = RelationPath(p.schema, p.relation)
           /\ p.kind = "facet" => path = FacetPath(p.schema, p.relation, p.part) /\ p.part \in Facets
           /\ p.kind = "item" =>
                path = FacetItemPath(p.schema, p.relation, p.part, p.item) /\ p.part \in Facets
           /\ p.kind = "data" =>
                path = RelationDataPath(p.schema, p.relation, p.part) /\ p.part \in Formats
           /\ p.kind = "definition" =>
                path = ViewDefinitionPath(p.schema, p.relation) /\ p.part = NoPart
<1> USE DEF Parts, DbPath, Invalid
<1>1. Len(path) \in Nat /\ \A i \in 1 .. Len(path) : path[i] \in Seq(STRING)
  BY LenProperties, ElementOfSeq
<1>8. ~NamesFacet(DefinitionName)
  BY DEF NamesFacet, DefinitionName
<1>2. CASE Len(path) = 0
  BY <1>2, EmptySeq DEF RootPath
<1>3. CASE Len(path) = 1
  BY <1>3 DEF SchemaPath
<1>4. CASE Len(path) = 2
  <2>1. CASE NamesData(path[2])
    <3>1. p = DbPath("data", path[1], WithoutLast(path[2]), LastWord(path[2]), NoName)
      BY <1>4, <2>1
    <3>2. path[2] \in Seq(STRING) /\ path[2] # << >> /\ LastWord(path[2]) \in Formats
      BY <1>1, <1>4, <2>1 DEF NamesData
    <3>3. path[2] = Append(WithoutLast(path[2]), LastWord(path[2]))
      BY <3>2, LastAppended DEF LastWord
    <3>4. path = <<path[1], path[2]>>
      BY <1>4
    <3>5. /\ p.kind = "data" /\ p.schema = path[1] /\ p.relation = WithoutLast(path[2])
          /\ p.part = LastWord(path[2])
      BY <3>1
    <3> QED
      BY <3>2, <3>3, <3>4, <3>5 DEF RelationDataPath
  <2>2. CASE ~NamesData(path[2])
    BY <1>4, <2>2 DEF RelationPath
  <2> QED
    BY <2>1, <2>2
<1>5. CASE Len(path) = 3
  <2>1. CASE path[3] = DefinitionName
    <3>1. p = DbPath("definition", path[1], path[2], NoPart, NoName)
      BY <1>5, <1>8, <2>1
    <3> QED
      BY <1>5, <2>1, <3>1 DEF ViewDefinitionPath
  <2>2. CASE path[3] # DefinitionName /\ NamesFacet(path[3])
    <3>1. p = DbPath("facet", path[1], path[2], path[3][1], NoName)
      BY <1>5, <2>2
    <3>2. path[3] = <<path[3][1]>> /\ path[3][1] \in Facets
      BY <1>1, <1>5, <2>2 DEF NamesFacet
    <3>3. path = <<path[1], path[2], path[3]>>
      BY <1>5
    <3>4. p.kind = "facet" /\ p.schema = path[1] /\ p.relation = path[2] /\ p.part = path[3][1]
      BY <3>1
    <3> QED
      BY <3>2, <3>3, <3>4 DEF FacetPath
  <2>3. CASE path[3] # DefinitionName /\ ~NamesFacet(path[3])
    BY <1>5, <2>3
  <2> QED
    BY <2>1, <2>2, <2>3
<1>6. CASE Len(path) = 4
  <2>1. CASE NamesFacet(path[3])
    <3>1. p = DbPath("item", path[1], path[2], path[3][1], path[4])
      BY <1>6, <2>1
    <3>2. path[3] = <<path[3][1]>> /\ path[3][1] \in Facets
      BY <1>1, <1>6, <2>1 DEF NamesFacet
    <3>3. path = <<path[1], path[2], path[3], path[4]>>
      BY <1>6
    <3>4. /\ p.kind = "item" /\ p.schema = path[1] /\ p.relation = path[2]
          /\ p.part = path[3][1] /\ p.item = path[4]
      BY <3>1
    <3> QED
      BY <3>2, <3>3, <3>4 DEF FacetItemPath
  <2>2. CASE ~NamesFacet(path[3])
    BY <1>6, <2>2
  <2> QED
    BY <2>1, <2>2
<1>7. CASE Len(path) \notin {0, 1, 2, 3, 4}
  BY <1>7
<1> QED
  BY <1>1, <1>2, <1>3, <1>4, <1>5, <1>6, <1>7

\* And the other way round.
LEMMA PathParts ==
    /\ Parts(RootPath).kind = "root"
    /\ \A s : Parts(SchemaPath(s)) = DbPath("schema", s, NoName, NoPart, NoName)
    /\ \A s, r : ~NamesData(r) => Parts(RelationPath(s, r)) = DbPath("relation", s, r, NoPart, NoName)
    /\ \A s, r : \A f \in Facets : Parts(FacetPath(s, r, f)) = DbPath("facet", s, r, f, NoName)
    /\ \A s, r, i : \A f \in Facets : Parts(FacetItemPath(s, r, f, i)) = DbPath("item", s, r, f, i)
    /\ \A s, r : Parts(ViewDefinitionPath(s, r)) = DbPath("definition", s, r, NoPart, NoName)
<1> USE DEF Parts
<1>1. Parts(RootPath).kind = "root"
  BY DEF RootPath, DbPath
<1>2. \A s : Parts(SchemaPath(s)) = DbPath("schema", s, NoName, NoPart, NoName)
  BY DEF SchemaPath
<1>3. \A s, r : ~NamesData(r) => Parts(RelationPath(s, r)) = DbPath("relation", s, r, NoPart, NoName)
  BY DEF RelationPath
<1>4. \A f \in Facets : NamesFacet(<<f>>) /\ <<f>>[1] = f /\ <<f>> # DefinitionName
  BY DEF NamesFacet, DefinitionName
<1>5. ASSUME NEW s, NEW r, NEW f \in Facets
      PROVE  Parts(FacetPath(s, r, f)) = DbPath("facet", s, r, f, NoName)
  BY <1>4 DEF FacetPath
<1>6. ASSUME NEW s, NEW r, NEW i, NEW f \in Facets
      PROVE  Parts(FacetItemPath(s, r, f, i)) = DbPath("item", s, r, f, i)
  BY <1>4 DEF FacetItemPath
<1>7. \A s, r : Parts(ViewDefinitionPath(s, r)) = DbPath("definition", s, r, NoPart, NoName)
  <2>1. ~NamesFacet(DefinitionName)
    BY DEF NamesFacet, DefinitionName
  <2> QED
    BY <2>1 DEF ViewDefinitionPath
<1> QED
  BY <1>1, <1>2, <1>3, <1>5, <1>6, <1>7

\* The path of data is parsed as that.
LEMMA DataParts ==
    ASSUME NEW s, NEW r \in Names, NEW f \in Formats
    PROVE  Parts(RelationDataPath(s, r, f)) = DbPath("data", s, r, f, NoName)
<1> DEFINE full == Append(r, f)
           Words == STRING \cup {f}
<1>1. r \in Seq(Words) /\ r # << >> /\ f \in Words
  <2>1. r \in Seq(STRING)
    BY NamesAssumption
  <2>2. r \in Seq(Words)
    BY <2>1, SeqMonotonic
  <2>3. r # << >>
    BY NamesAssumption DEF NoName
  <2> QED
    BY <2>2, <2>3
<1> HIDE DEF Words
<1>2. /\ full \in Seq(Words) /\ Len(full) = Len(r) + 1 /\ Len(r) \in Nat
      /\ full[Len(r) + 1] = f
  BY <1>1, AppendProperties, LenProperties
<1>3. Len(r) # 0
  BY <1>1, EmptySeq
<1>4. NamesData(full) /\ LastWord(full) = f
  BY <1>2, <1>3 DEF NamesData, LastWord
<1>5. WithoutLast(full) = r
  BY <1>1, WithoutAppended
<1> HIDE DEF full
<1>6. Parts(<<s, full>>) = DbPath("data", s, r, f, NoName)
  BY <1>4, <1>5 DEF Parts
<1> QED
  BY <1>6 DEF RelationDataPath, full

-----------------------------------------------------------------------------
(***************************************************************************)
(* Catalogs and their nodes                                                *)
(***************************************************************************)

\* What a relation of a catalog is.
LEMMA RelationTyped ==
    ASSUME NEW k, IsCatalog(k), NEW r, Exists(k, r)
    PROVE  /\ r = <<r[1], r[2]>> /\ r[1] \in k.schemas /\ r[2] \in Names /\ r \in Relations
           /\ k.relations[r].kind \in {"table", "view"}
           /\ k.relations[r].kind = "table" => k.relations[r].reads = {}
           /\ \A read \in k.relations[r].reads : read[2] # r[2]
<1>1. r \in k.schemas \X Names /\ k.schemas \subseteq Schemas
  BY DEF IsCatalog, Exists
<1>2. PICK body \in Bodies : k.relations[r] = [body EXCEPT !.rows = k.relations[r].rows]
  BY DEF IsCatalog, Exists
<1>3. /\ body \in [kind : {"table", "view"}, columns : SUBSET Seq(STRING),
                   indexes : SUBSET Seq(STRING), keys : SUBSET Seq(STRING),
                   references : SUBSET Seq(STRING), reads : SUBSET Relations,
                   rows : BOOLEAN]
      /\ body.kind = "table" => body.reads = {}
  BY BodiesAssumption
<1>4. k.relations[r].kind = body.kind /\ k.relations[r].reads = body.reads
  BY <1>2, <1>3
<1>5. \A read \in k.relations[r].reads : read[2] # r[2]
  BY DEF IsCatalog, Exists, Fits
<1> QED
  BY <1>1, <1>3, <1>4, <1>5 DEF Relations

\* What is found for a facet of a relation.
ItemNodes(k, r, facet) == FacetNodes(k, r, IF facet = "depends_on" THEN "definition" ELSE facet)

Nodes(k) == {RootInfo} \cup Listed(k) \cup DataFiles(k)

\* The items of a facet lie in it.
LEMMA ItemPaths ==
    ASSUME NEW k, NEW r, NEW facet \in Facets, NEW n \in ItemNodes(k, r, facet)
    PROVE  \E i : n.path = FacetItemPath(r[1], r[2], facet, i) /\ n.type = "file" /\ Exists(k, r)
<1>1. Exists(k, r)
  BY DEF ItemNodes, FacetNodes
<1> DEFINE body == k.relations[r]
<1>2. facet \in {"columns", "indexes", "constraints", "depends_on"}
  BY DEF Facets
<1>3. CASE facet = "depends_on"
  <2>1. PICK read \in body.reads : n = DependsOnEntry(r, read)
    BY <1>1, <1>3 DEF ItemNodes, FacetNodes
  <2> QED
    BY <1>1, <1>3, <2>1 DEF DependsOnEntry, FileInfo
<1>4. CASE facet # "depends_on"
  <2>1. n \in FacetItems(r, body, facet)
    BY <1>1, <1>2, <1>4 DEF ItemNodes, FacetNodes
  <2>2. \E i, kind : n = ItemInfo(r, facet, i, kind)
    BY <1>2, <1>4, <2>1 DEF FacetItems
  <2> QED
    BY <1>1, <2>2 DEF ItemInfo, FileInfo
<1> QED
  BY <1>3, <1>4

\* A node is what its path says.
NodeIs(k, n, p) ==
    LET r == <<p.schema, p.relation>> IN
    \/ p.kind = "root" /\ n = RootInfo
    \/ p.kind = "schema" /\ p.schema \in k.schemas /\ n = SchemaInfo(p.schema)
    \/ /\ Exists(k, r)
       /\ \/ p.kind = "relation" /\ n = RelationInfo(r, k.relations[r].kind)
          \/ /\ p.kind = "facet" /\ n = FacetDir(r, p.part) /\ p.part \in Facets
             /\ p.part = "depends_on" => k.relations[r].kind = "view"
          \/ /\ p.kind = "definition" /\ n = ViewDefinitionFile(r)
             /\ k.relations[r].kind = "view"
          \/ p.kind = "item" /\ p.part \in Facets /\ n \in ItemNodes(k, r, p.part)
          \/ /\ p.kind = "data" /\ n = RelationDataFile(r, k.relations[r].kind, p.part)
             /\ p.part \in Formats

\* Of each relation there are these.
LEMMA OfRelationNode ==
    ASSUME NEW k, IsCatalog(k), NEW r, Exists(k, r), NEW n \in RelationNodes(k, r)
    PROVE  NodeIs(k, n, Parts(n.path)) /\ Parts(n.path).kind \notin {"root", "schema", "data"}
<1> DEFINE body == k.relations[r]
<1>0. PICK p : p = Parts(n.path)
  OBVIOUS
<1> DEFINE Goal == NodeIs(k, n, p) /\ p.kind \notin {"root", "schema", "data"}
<1> SUFFICES Goal
  BY <1>0
<1>1. r = <<r[1], r[2]>> /\ r[2] \in Names /\ ~NamesData(r[2])
  BY RelationTyped, NamesAssumption
<1>2. CASE n = RelationInfo(r, body.kind)
  <2>1. n.path = RelationPath(r[1], r[2])
    BY <1>2 DEF RelationInfo, FileInfo
  <2>2. p = DbPath("relation", r[1], r[2], NoPart, NoName)
    <3>1. Parts(RelationPath(r[1], r[2])) = DbPath("relation", r[1], r[2], NoPart, NoName)
      <4>1. PICK name : name = r[2]
        OBVIOUS
      <4>2. ~NamesData(name)
        BY <1>1, <4>1
      <4>3. Parts(RelationPath(r[1], name)) = DbPath("relation", r[1], name, NoPart, NoName)
        BY <4>2, PathParts
      <4> QED
        BY <4>1, <4>3
    <3> QED
      BY <1>0, <2>1, <3>1
  <2>3. p.kind = "relation" /\ <<p.schema, p.relation>> = r
    BY <1>1, <2>2 DEF DbPath
  <2> QED
    BY <1>2, <2>3 DEF NodeIs
<1>3. ASSUME NEW facet \in Facets, n = FacetDir(r, facet),
             facet = "depends_on" => body.kind = "view"
      PROVE  Goal
  <2>1. n.path = FacetPath(r[1], r[2], facet)
    BY <1>3 DEF FacetDir, FileInfo
  <2>2. p = DbPath("facet", r[1], r[2], facet, NoName)
    BY <1>0, <2>1, PathParts
  <2>3. p.kind = "facet" /\ <<p.schema, p.relation>> = r /\ p.part = facet
    BY <1>1, <2>2 DEF DbPath
  <2>4. n = FacetDir(r, p.part) /\ p.part \in Facets
        /\ (p.part = "depends_on" => k.relations[r].kind = "view")
    BY <1>3, <2>3
  <2> QED
    BY <2>3, <2>4 DEF NodeIs
<1>4. CASE n = ViewDefinitionFile(r) /\ body.kind = "view"
  <2>1. n.path = ViewDefinitionPath(r[1], r[2])
    BY <1>4 DEF ViewDefinitionFile, FileInfo
  <2>2. p = DbPath("definition", r[1], r[2], NoPart, NoName)
    BY <1>0, <2>1, PathParts
  <2>3. p.kind = "definition" /\ <<p.schema, p.relation>> = r
    BY <1>1, <2>2 DEF DbPath
  <2> QED
    BY <1>4, <2>3 DEF NodeIs
<1>5. ASSUME NEW facet \in Facets, n \in ItemNodes(k, r, facet)
      PROVE  Goal
  <2>1. PICK i : n.path = FacetItemPath(r[1], r[2], facet, i)
    BY <1>5, ItemPaths
  <2>2. p = DbPath("item", r[1], r[2], facet, i)
    BY <1>0, <2>1, PathParts
  <2>3. p.kind = "item" /\ <<p.schema, p.relation>> = r /\ p.part = facet
    BY <1>1, <2>2 DEF DbPath
  <2> QED
    BY <1>5, <2>3 DEF NodeIs
<1>6. \/ n = RelationInfo(r, body.kind)
      \/ n \in RelationEntries(r, body.kind)
      \/ n \in UNION { FacetItems(r, body, s) : s \in {"columns", "indexes", "constraints"} }
      \/ n \in { DependsOnEntry(r, read) : read \in body.reads }
  <2> DEFINE Found == UNION { FacetItems(r, body, s) : s \in {"columns", "indexes", "constraints"} }
             Reads == { DependsOnEntry(r, read) : read \in body.reads }
  <2>1. RelationNodes(k, r) = {RelationInfo(r, body.kind)} \cup RelationEntries(r, body.kind)
                               \cup Found \cup Reads
    BY Zenon DEF RelationNodes
  <2> HIDE DEF Found, Reads
  <2>2. \/ n = RelationInfo(r, body.kind) \/ n \in RelationEntries(r, body.kind)
        \/ n \in Found \/ n \in Reads
    BY <2>1
  <2> QED
    BY <2>2 DEF Found, Reads
<1>7. CASE n \in RelationEntries(r, body.kind)
  <2>1. \/ \E facet \in Facets : /\ n = FacetDir(r, facet)
                                 /\ facet = "depends_on" => body.kind = "view"
        \/ n = ViewDefinitionFile(r) /\ body.kind = "view"
    BY <1>7 DEF RelationEntries, Facets
  <2> QED
    BY <1>3, <1>4, <2>1
<1>8. CASE n \in UNION { FacetItems(r, body, s) : s \in {"columns", "indexes", "constraints"} }
  <2>1. PICK s \in {"columns", "indexes", "constraints"} : n \in FacetItems(r, body, s)
    BY <1>8
  <2>2. s \in Facets /\ n \in ItemNodes(k, r, s)
    BY <2>1 DEF Facets, ItemNodes, FacetNodes
  <2> QED
    BY <1>5, <2>2
<1>9. CASE n \in { DependsOnEntry(r, read) : read \in body.reads }
  <2>1. ItemNodes(k, r, "depends_on") = { DependsOnEntry(r, read) : read \in body.reads }
    BY DEF ItemNodes, FacetNodes
  <2>2. "depends_on" \in Facets /\ n \in ItemNodes(k, r, "depends_on")
    BY <1>9, <2>1 DEF Facets
  <2> QED
    BY <1>5, <2>2
<1> QED
  BY <1>2, <1>6, <1>7, <1>8, <1>9

\* What is listed is parsed as what it is.
LEMMA ListedNode ==
    ASSUME NEW k, IsCatalog(k), NEW n \in Listed(k)
    PROVE  NodeIs(k, n, Parts(n.path)) /\ Parts(n.path).kind \notin {"root", "data"}
<1>0. PICK p : p = Parts(n.path)
  OBVIOUS
<1> DEFINE Goal == NodeIs(k, n, p) /\ p.kind \notin {"root", "data"}
<1> SUFFICES Goal
  BY <1>0
<1>1. CASE \E s \in k.schemas : n = SchemaInfo(s)
  <2>1. PICK s \in k.schemas : n = SchemaInfo(s)
    BY <1>1
  <2>2. n.path = SchemaPath(s)
    BY <2>1 DEF SchemaInfo, FileInfo
  <2>3. p.kind = "schema" /\ p.schema = s
    BY <1>0, <2>2, PathParts DEF DbPath
  <2> QED
    BY <2>1, <2>3 DEF NodeIs
<1>2. CASE \E r \in DOMAIN k.relations : n \in RelationNodes(k, r)
  BY <1>0, <1>2, OfRelationNode DEF Exists
<1>3. (\E s \in k.schemas : n = SchemaInfo(s)) \/ (\E r \in DOMAIN k.relations : n \in RelationNodes(k, r))
  BY DEF Listed
<1> QED
  BY <1>1, <1>2, <1>3

\* So is everything that the tree has.
LEMMA NodeOfCatalog ==
    ASSUME NEW k, IsCatalog(k), NEW n \in Nodes(k)
    PROVE  NodeIs(k, n, Parts(n.path))
<1>0. PICK p : p = Parts(n.path)
  OBVIOUS
<1> SUFFICES NodeIs(k, n, p)
  BY <1>0
<1>1. CASE n = RootInfo
  <2>1. n.path = RootPath
    BY <1>1 DEF RootInfo, FileInfo
  <2>2. p.kind = "root"
    BY <1>0, <2>1, PathParts
  <2> QED
    BY <1>1, <2>2 DEF NodeIs
<1>2. CASE n \in Listed(k)
  BY <1>0, <1>2, ListedNode
<1>3. CASE n \in DataFiles(k)
  <2>1. PICK r \in DOMAIN k.relations, f \in Formats :
               n = RelationDataFile(r, k.relations[r].kind, f)
    BY <1>3 DEF DataFiles
  <2>2. r = <<r[1], r[2]>> /\ r[2] \in Names /\ Exists(k, r)
    BY RelationTyped DEF Exists
  <2>3. n.path = RelationDataPath(r[1], r[2], f)
    BY <2>1 DEF RelationDataFile, FileInfo
  <2>4. p = DbPath("data", r[1], r[2], f, NoName)
    BY <1>0, <2>2, <2>3, DataParts
  <2>5. p.kind = "data" /\ <<p.schema, p.relation>> = r /\ p.part = f
    BY <2>2, <2>4 DEF DbPath
  <2>6. n = RelationDataFile(r, k.relations[r].kind, p.part) /\ p.part \in Formats
    BY <2>1, <2>5
  <2> QED
    BY <2>2, <2>5, <2>6 DEF NodeIs
<1> QED
  BY <1>1, <1>2, <1>3 DEF Nodes

\* And these are listed, or known.
LEMMA ListedNodes ==
    ASSUME NEW k, IsCatalog(k), NEW r, Exists(k, r)
    PROVE  /\ RelationNodes(k, r) \subseteq Listed(k)
           /\ RelationInfo(r, k.relations[r].kind) \in Listed(k)
           /\ RelationEntries(r, k.relations[r].kind) \subseteq Listed(k)
           /\ \A facet \in Facets : ItemNodes(k, r, facet) \subseteq Listed(k)
           /\ \A facet \in Facets : FacetDir(r, facet) \in Known(k)
           /\ \A f \in Formats : RelationDataFile(r, k.relations[r].kind, f) \in DataFiles(k)
<1>1. RelationNodes(k, r) \subseteq Listed(k)
  BY DEF Listed, Exists
<1>2. /\ RelationInfo(r, k.relations[r].kind) \in RelationNodes(k, r)
      /\ RelationEntries(r, k.relations[r].kind) \subseteq RelationNodes(k, r)
  BY DEF RelationNodes
<1>3. ASSUME NEW facet \in Facets
      PROVE  ItemNodes(k, r, facet) \subseteq RelationNodes(k, r)
  <2>1. CASE facet = "depends_on"
    <3>1. ItemNodes(k, r, facet) = { DependsOnEntry(r, read) : read \in k.relations[r].reads }
      BY <2>1 DEF ItemNodes, FacetNodes
    <3> QED
      BY <3>1 DEF RelationNodes
  <2>2. CASE facet # "depends_on"
    <3>1. facet \in {"columns", "indexes", "constraints"}
      BY <2>2 DEF Facets
    <3>2. ItemNodes(k, r, facet) = FacetItems(r, k.relations[r], facet)
      BY <3>1 DEF ItemNodes, FacetNodes
    <3> QED
      BY <3>1, <3>2 DEF RelationNodes
  <2> QED
    BY <2>1, <2>2
<1>4. ASSUME NEW facet \in Facets
      PROVE  FacetDir(r, facet) \in Known(k)
  <2>1. CASE facet = "depends_on"
    BY <2>1 DEF Known, Exists
  <2>2. CASE facet # "depends_on"
    <3>1. FacetDir(r, facet) \in RelationEntries(r, k.relations[r].kind)
      BY <2>2 DEF RelationEntries
    <3> QED
      BY <1>1, <1>2, <3>1 DEF Known
  <2> QED
    BY <2>1, <2>2
<1>5. \A f \in Formats : RelationDataFile(r, k.relations[r].kind, f) \in DataFiles(k)
  BY DEF DataFiles, Exists
<1> QED
  BY <1>1, <1>2, <1>3, <1>4, <1>5

\* A sequence of a known length is a tuple.
LEMMA OfLength ==
    ASSUME NEW S, NEW q \in Seq(S)
    PROVE  /\ Len(q) = 1 => q = <<q[1]>>
           /\ Len(q) = 2 => q = <<q[1], q[2]>>
           /\ Len(q) = 3 => q = <<q[1], q[2], q[3]>>
  OBVIOUS

\* What of a path comes before its last name.
LEMMA Prefixes ==
    /\ \A a, b : SubSeq(<<a, b>>, 1, 1) = <<a>>
    /\ \A a, b, c : SubSeq(<<a, b, c>>, 1, 2) = <<a, b>>
    /\ \A a, b, c, d : SubSeq(<<a, b, c, d>>, 1, 3) = <<a, b, c>>
<1>1. ASSUME NEW a, NEW b
      PROVE  SubSeq(<<a, b>>, 1, 1) = <<a>>
  <2> DEFINE q == <<a, b>>
  <2>1. \A i \in 1 .. 1 : q[i] \in {a, b}
    OBVIOUS
  <2>2. /\ SubSeq(q, 1, 1) \in Seq({a, b}) /\ Len(SubSeq(q, 1, 1)) = 1
        /\ SubSeq(q, 1, 1)[1] = q[1]
    <3> HIDE DEF q
    <3> QED
      BY <2>1, SubSeqProperties
  <2>3. SubSeq(q, 1, 1) = <<q[1]>>
    <3> HIDE DEF q
    <3>1. PICK front : front = SubSeq(q, 1, 1)
      OBVIOUS
    <3>2. front = <<front[1]>>
      BY <2>2, <3>1, Zenon, OfLength
    <3> QED
      BY <2>2, <3>1, <3>2
  <2> QED
    BY <2>3
<1>2. ASSUME NEW a, NEW b, NEW c
      PROVE  SubSeq(<<a, b, c>>, 1, 2) = <<a, b>>
  <2> DEFINE q == <<a, b, c>>
  <2>1. \A i \in 1 .. 2 : q[i] \in {a, b, c}
    OBVIOUS
  <2>2. /\ SubSeq(q, 1, 2) \in Seq({a, b, c}) /\ Len(SubSeq(q, 1, 2)) = 2
        /\ SubSeq(q, 1, 2)[1] = q[1] /\ SubSeq(q, 1, 2)[2] = q[2]
    <3> HIDE DEF q
    <3> QED
      BY <2>1, SubSeqProperties
  <2>3. SubSeq(q, 1, 2) = <<q[1], q[2]>>
    <3> HIDE DEF q
    <3>1. PICK front : front = SubSeq(q, 1, 2)
      OBVIOUS
    <3>2. front = <<front[1], front[2]>>
      BY <2>2, <3>1, Zenon, OfLength
    <3> QED
      BY <2>2, <3>1, <3>2
  <2> QED
    BY <2>3
<1>3. ASSUME NEW a, NEW b, NEW c, NEW d
      PROVE  SubSeq(<<a, b, c, d>>, 1, 3) = <<a, b, c>>
  <2> DEFINE q == <<a, b, c, d>>
  <2>1. \A i \in 1 .. 3 : q[i] \in {a, b, c, d}
    OBVIOUS
  <2>2. /\ SubSeq(q, 1, 3) \in Seq({a, b, c, d}) /\ Len(SubSeq(q, 1, 3)) = 3
        /\ SubSeq(q, 1, 3)[1] = q[1] /\ SubSeq(q, 1, 3)[2] = q[2] /\ SubSeq(q, 1, 3)[3] = q[3]
    <3> HIDE DEF q
    <3> QED
      BY <2>1, SubSeqProperties
  <2>3. SubSeq(q, 1, 3) = <<q[1], q[2], q[3]>>
    <3> HIDE DEF q
    <3>1. PICK front : front = SubSeq(q, 1, 3)
      OBVIOUS
    <3>2. front = <<front[1], front[2], front[3]>>
      BY <2>2, <3>1, Zenon, OfLength
    <3> QED
      BY <2>2, <3>1, <3>2
  <2> QED
    BY <2>3
<1> QED
  BY <1>1, <1>2, <1>3

\* How long the path of a listed node is, and of what names.
LEMMA ListedPath ==
    ASSUME NEW k, IsCatalog(k), NEW n \in Listed(k), NEW p, p = Parts(n.path)
    PROVE  /\ NodeIs(k, n, p)
           /\ \/ p.kind = "schema" /\ n.path = <<p.schema>>
              \/ p.kind = "relation" /\ n.path = <<p.schema, p.relation>>
              \/ p.kind = "facet" /\ n.path = <<p.schema, p.relation, <<p.part>>>>
              \/ p.kind = "definition" /\ n.path = <<p.schema, p.relation, DefinitionName>>
              \/ p.kind = "item" /\ \E i : n.path = <<p.schema, p.relation, <<p.part>>, i>>
<1> DEFINE r == <<p.schema, p.relation>>
<1>1. NodeIs(k, n, p) /\ p.kind \notin {"root", "data"}
  BY ListedNode
<1>2. CASE p.kind = "schema"
  BY <1>1, <1>2 DEF NodeIs, SchemaInfo, FileInfo, SchemaPath
<1>3. CASE p.kind = "relation"
  <2>1. n = RelationInfo(r, k.relations[r].kind)
    BY <1>1, <1>3 DEF NodeIs
  <2> QED
    BY <1>1, <1>3, <2>1 DEF RelationInfo, FileInfo, RelationPath
<1>4. CASE p.kind = "facet"
  <2>1. n = FacetDir(r, p.part)
    BY <1>1, <1>4 DEF NodeIs
  <2> QED
    BY <1>1, <1>4, <2>1 DEF FacetDir, FileInfo, FacetPath
<1>5. CASE p.kind = "definition"
  <2>1. n = ViewDefinitionFile(r)
    BY <1>1, <1>5 DEF NodeIs
  <2> QED
    BY <1>1, <1>5, <2>1 DEF ViewDefinitionFile, FileInfo, ViewDefinitionPath
<1>6. CASE p.kind = "item"
  <2>1. n \in ItemNodes(k, r, p.part) /\ p.part \in Facets
    BY <1>1, <1>6 DEF NodeIs
  <2>2. \E i : n.path = FacetItemPath(r[1], r[2], p.part, i)
    BY <2>1, ItemPaths
  <2> QED
    BY <1>1, <1>6, <2>2 DEF FacetItemPath
<1>7. p.kind \in {"schema", "relation", "facet", "definition", "item"}
  BY <1>1 DEF NodeIs
<1> QED
  BY <1>1, <1>2, <1>3, <1>4, <1>5, <1>6, <1>7

\* What a directory holds.
LEMMA ChildrenOfRoot ==
    ASSUME NEW k, IsCatalog(k)
    PROVE  Children(k, RootPath) = { SchemaInfo(s) : s \in k.schemas }
<1>1. ASSUME NEW n \in Children(k, RootPath)
      PROVE  \E s \in k.schemas : n = SchemaInfo(s)
  <2>1. n \in Listed(k) /\ Len(n.path) = 1
    BY DEF Children, RootPath
  <2>2. PICK p : p = Parts(n.path)
    OBVIOUS
  <2>3. NodeIs(k, n, p) /\ p.kind = "schema"
    BY <2>1, <2>2, ListedPath
  <2> QED
    BY <2>3 DEF NodeIs
<1>2. ASSUME NEW s \in k.schemas
      PROVE  SchemaInfo(s) \in Children(k, RootPath)
  <2>1. SchemaInfo(s) \in Listed(k)
    BY DEF Listed
  <2>2. SchemaInfo(s).path = <<s>>
    BY DEF SchemaInfo, FileInfo, SchemaPath
  <2>3. SubSeq(<<s>>, 1, 0) = << >>
    BY SubSeqEmpty
  <2> QED
    BY <2>1, <2>2, <2>3 DEF Children, RootPath
<1> QED
  BY <1>1, <1>2

\* A schema has the relations in it.
LEMMA ChildrenOfSchema ==
    ASSUME NEW k, IsCatalog(k), NEW s
    PROVE  Children(k, SchemaPath(s)) =
             { RelationInfo(r, k.relations[r].kind) : r \in { x \in DOMAIN k.relations : x[1] = s } }
<1> DEFINE path == SchemaPath(s)
<1>1. ASSUME NEW n \in Children(k, path)
      PROVE  \E r \in DOMAIN k.relations : r[1] = s /\ n = RelationInfo(r, k.relations[r].kind)
  <2>1. n \in Listed(k) /\ Len(n.path) = 2 /\ SubSeq(n.path, 1, 1) = <<s>>
    BY DEF Children, SchemaPath
  <2>2. PICK p : p = Parts(n.path)
    OBVIOUS
  <2>3. NodeIs(k, n, p) /\ p.kind = "relation" /\ n.path = <<p.schema, p.relation>>
    BY <2>1, <2>2, ListedPath
  <2>4. p.schema = s
    BY <2>1, <2>3, Prefixes
  <2>5. Exists(k, <<s, p.relation>>)
        /\ n = RelationInfo(<<s, p.relation>>, k.relations[<<s, p.relation>>].kind)
    BY <2>3, <2>4 DEF NodeIs
  <2> QED
    BY <2>5 DEF Exists
<1>2. ASSUME NEW r \in DOMAIN k.relations, r[1] = s
      PROVE  RelationInfo(r, k.relations[r].kind) \in Children(k, path)
  <2>1. RelationInfo(r, k.relations[r].kind) \in Listed(k)
    BY ListedNodes DEF Exists
  <2>2. RelationInfo(r, k.relations[r].kind).path = <<s, r[2]>>
    BY <1>2 DEF RelationInfo, FileInfo, RelationPath
  <2> QED
    BY <2>1, <2>2, Prefixes DEF Children, SchemaPath
<1> QED
  BY <1>1, <1>2

\* A relation has its facets, and a view its definition.
LEMMA ChildrenOfRelation ==
    ASSUME NEW k, IsCatalog(k), NEW s, NEW name, NEW r, r = <<s, name>>
    PROVE  Children(k, RelationPath(s, name)) =
             IF Exists(k, r) THEN RelationEntries(r, k.relations[r].kind) ELSE {}
<1> DEFINE path == RelationPath(s, name)
<1>1. ASSUME NEW n \in Children(k, path)
      PROVE  Exists(k, r) /\ n \in RelationEntries(r, k.relations[r].kind)
  <2>1. n \in Listed(k) /\ Len(n.path) = 3 /\ SubSeq(n.path, 1, 2) = <<s, name>>
    BY DEF Children, RelationPath
  <2>2. PICK p : p = Parts(n.path)
    OBVIOUS
  <2>3. /\ NodeIs(k, n, p)
        /\ \/ p.kind = "facet" /\ n.path = <<p.schema, p.relation, <<p.part>>>>
           \/ p.kind = "definition" /\ n.path = <<p.schema, p.relation, DefinitionName>>
    BY <2>1, <2>2, ListedPath
  <2>4. <<p.schema, p.relation>> = r
    BY <2>1, <2>3, Prefixes
  <2>5. /\ Exists(k, r)
        /\ \/ /\ n = FacetDir(r, p.part) /\ p.part \in Facets
              /\ p.part = "depends_on" => k.relations[r].kind = "view"
           \/ n = ViewDefinitionFile(r) /\ k.relations[r].kind = "view"
    BY <2>3, <2>4 DEF NodeIs
  <2> QED
    BY <2>5 DEF RelationEntries
<1>2. ASSUME Exists(k, r), NEW n \in RelationEntries(r, k.relations[r].kind)
      PROVE  n \in Children(k, path)
  <2>1. n \in Listed(k)
    BY <1>2, ListedNodes
  <2>2. (\E facet : n = FacetDir(r, facet)) \/ n = ViewDefinitionFile(r)
    BY <1>2 DEF RelationEntries
  <2>3. \E x : n.path = <<s, name, x>>
    BY <2>2 DEF FacetDir, ViewDefinitionFile, FileInfo, FacetPath, ViewDefinitionPath
  <2> QED
    BY <2>1, <2>3, Prefixes DEF Children, RelationPath
<1> QED
  BY <1>1, <1>2

\* A facet has its items.
LEMMA ChildrenOfFacet ==
    ASSUME NEW k, IsCatalog(k), NEW s, NEW name, NEW facet \in Facets
    PROVE  Children(k, FacetPath(s, name, facet)) = ItemNodes(k, <<s, name>>, facet)
<1> DEFINE path == FacetPath(s, name, facet)
           r == <<s, name>>
<1>1. ASSUME NEW n \in Children(k, path)
      PROVE  n \in ItemNodes(k, r, facet)
  <2>1. n \in Listed(k) /\ Len(n.path) = 4 /\ SubSeq(n.path, 1, 3) = <<s, name, <<facet>>>>
    BY DEF Children, FacetPath
  <2>2. PICK p : p = Parts(n.path)
    OBVIOUS
  <2>3. /\ NodeIs(k, n, p) /\ p.kind = "item"
        /\ \E i : n.path = <<p.schema, p.relation, <<p.part>>, i>>
    BY <2>1, <2>2, ListedPath
  <2>4. p.schema = s /\ p.relation = name /\ p.part = facet
    <3>1. <<p.schema, p.relation, <<p.part>>>> = <<s, name, <<facet>>>>
      BY <2>1, <2>3, Prefixes
    <3>2. <<p.part>> = <<facet>>
      BY <3>1
    <3> QED
      BY <3>1, <3>2
  <2> QED
    BY <2>3, <2>4 DEF NodeIs
<1>2. ASSUME NEW n \in ItemNodes(k, r, facet)
      PROVE  n \in Children(k, path)
  <2>1. PICK i : n.path = FacetItemPath(r[1], r[2], facet, i) /\ Exists(k, r)
    BY ItemPaths
  <2>2. n \in Listed(k)
    BY <2>1, ListedNodes
  <2>3. n.path = <<s, name, <<facet>>, i>>
    BY <2>1 DEF FacetItemPath
  <2> QED
    BY <2>2, <2>3, Prefixes DEF Children, FacetPath
<1> QED
  BY <1>1, <1>2

\* What an operation serves is what its path says.
LEMMA Served ==
    ASSUME NEW k, IsCatalog(k), NEW op, NEW path, NEW n \in Serves(k, op, path), NEW p, p = Parts(path)
    PROVE  NodeIs(k, n, p) /\ n \in Nodes(k)
<1>1. n \in Nodes(k) /\ n.path = path
  BY DEF Serves, Nodes
<1> QED
  BY <1>1, NodeOfCatalog

\* The items of a facet are those of the statements that it needs, each of
\* which has its own.
LEMMA NeededItems ==
    ASSUME NEW k, NEW r, NEW facet \in Facets, NEW n
    PROVE  n \in ItemNodes(k, r, facet) <=> \E s \in Needed(facet) : n \in FacetNodes(k, r, s)
<1>1. CASE facet = "constraints"
  <2>1. FacetNodes(k, r, "constraints") = FacetNodes(k, r, "keys") \cup FacetNodes(k, r, "references")
    BY DEF FacetNodes, FacetItems
  <2> QED
    BY <1>1, <2>1 DEF ItemNodes, Needed
<1>2. CASE facet # "constraints"
  BY <1>2 DEF ItemNodes, Needed
<1> QED
  BY <1>1, <1>2

\* What two statements of a facet find is told apart by its kind.
LEMMA NeededApart ==
    ASSUME NEW k1, NEW k2, NEW r, NEW facet \in Facets, NEW s \in Needed(facet),
           NEW n \in FacetNodes(k1, r, s), n \in ItemNodes(k2, r, facet)
    PROVE  n \in FacetNodes(k2, r, s)
<1>1. PICK s2 \in Needed(facet) : n \in FacetNodes(k2, r, s2)
  BY NeededItems
<1>2. CASE s = s2
  BY <1>1, <1>2
<1>3. CASE s # s2
  <2>1. {s, s2} = {"keys", "references"}
    BY <1>1, <1>3 DEF Needed
  <2>2. \A k, n2 : n2 \in FacetNodes(k, r, "keys") => n2.kind = "primary_key"
    BY DEF FacetNodes, FacetItems, ItemInfo, FileInfo
  <2>3. \A k, n2 : n2 \in FacetNodes(k, r, "references") => n2.kind = "foreign_key"
    BY DEF FacetNodes, FacetItems, ItemInfo, FileInfo
  <2> QED
    BY <1>1, <2>1, <2>2, <2>3
<1> QED
  BY <1>2, <1>3

-----------------------------------------------------------------------------
(***************************************************************************)
(* Answers                                                                 *)
(***************************************************************************)

\* A success keeps what the call is about.
LEMMA OkIs ==
    ASSUME NEW c, CallTyped(c), NEW entries, NEW a, a = Ok(c, entries)
    PROVE  /\ a.op = c.op /\ a.path = c.path /\ a.todo = c.todo /\ a.kind = c.kind
           /\ a.data = c.data /\ a.result = "ok" /\ a.entries = entries
           /\ CallTyped(a)
<1>1. c = [f \in Fields |-> c[f]]
  BY DEF CallTyped
<1>2. /\ a.op = c.op /\ a.path = c.path /\ a.todo = c.todo /\ a.kind = c.kind /\ a.latest = c.latest
      /\ a.data = c.data /\ a.result = "ok" /\ a.entries = entries /\ DOMAIN a = Fields
      /\ a = [f \in Fields |-> a[f]]
  BY <1>1 DEF Ok, Fields
<1> QED
  BY <1>2 DEF CallTyped

\* So does a failure.
LEMMA FailedIs ==
    ASSUME NEW c, CallTyped(c), NEW error, NEW a, a = Failed(c, error)
    PROVE  /\ a.op = c.op /\ a.path = c.path /\ a.todo = << >> /\ a.kind = c.kind
           /\ a.data = c.data /\ a.result = error /\ a.entries = {}
           /\ CallTyped(a)
<1>1. c = [f \in Fields |-> c[f]]
  BY DEF CallTyped
<1>2. /\ a.op = c.op /\ a.path = c.path /\ a.todo = << >> /\ a.kind = c.kind /\ a.latest = c.latest
      /\ a.data = c.data /\ a.result = error /\ a.entries = {} /\ DOMAIN a = Fields
      /\ a = [f \in Fields |-> a[f]]
  BY <1>1 DEF Failed, Fields
<1>3. << >> \in Seq(Steps)
  BY EmptySeq
<1> QED
  BY <1>2, <1>3 DEF CallTyped

\* A new call has the type of one.
IsNew(c, op, path, todo, kind) ==
    /\ c.op = op /\ c.path = path /\ c.todo = todo /\ c.kind = kind /\ c.entries = {}
    /\ c.latest = "" /\ c.data = NoData /\ c.result = "none"
    /\ CallTyped(c)

\* A call that begins is one of no findings.
LEMMA NewIs ==
    ASSUME NEW op, NEW path \in Seq(Seq(STRING)), NEW todo \in Seq(Steps),
           NEW kind \in {"", "table", "view"}
    PROVE  IsNew(NewCall(op, path, todo, kind), op, path, todo, kind)
<1>c. PICK c : c = NewCall(op, path, todo, kind)
  OBVIOUS
<1>1. /\ c.op = op /\ c.path = path /\ c.todo = todo /\ c.kind = kind /\ c.entries = {}
      /\ c.data = NoData /\ c.result = "none" /\ c.latest = ""
      /\ c = [f \in Fields |-> c[f]]
  BY <1>c DEF NewCall, Fields
<1>2. NoData = [f \in {"columns", "mentions", "rows"} |-> NoData[f]]
  BY DEF NoData
<1> QED
  BY <1>c, <1>1, <1>2 DEF CallTyped, IsNew

\* A failure is sound if what was asked for was missing.
LEMMA FailureSound ==
    ASSUME NEW c, CallTyped(c), c.op \in Reading, NEW error \in Results \ {"none", "ok"}, Unserved(c)
    PROVE  Sound(Failed(c, error))
<1>1. PICK a : a = Failed(c, error)
  OBVIOUS
<1>2. /\ a.op = c.op /\ a.path = c.path /\ a.todo = << >> /\ a.result = error
      /\ CallTyped(a)
  BY <1>1, FailedIs
<1>3. Unserved(a)
  BY <1>2 DEF Unserved
<1>4. Listing(a) /\ Answered(a)
  BY <1>2 DEF Listing, Answered
<1> QED
  BY <1>1, <1>2, <1>3, <1>4 DEF Sound, Reading

\* So is it if there is nothing there at a moment of the call.
LEMMA MissingNow ==
    ASSUME NEW c, NEW k \in span, Serves(k, c.op, Normalize(c.path)) = {}
    PROVE  Unserved(c)
  BY DEF Unserved

\* A list of a moment is a good one.
LEMMA ListsAMoment ==
    ASSUME NEW a, NEW k \in span, a.entries = Children(k, Normalize(a.path))
    PROVE  Listing(a)
  BY DEF Listing

\* The path of a typed call is one, and says what the call is about.
LEMMA PathOf ==
    ASSUME NEW c, CallTyped(c)
    PROVE  Normalize(c.path) \in Seq(Seq(STRING)) /\ Where(c) = Parts(Normalize(c.path))
                                                  /\ Where(c) = Parse(c.path)
  BY NormalIsPath DEF CallTyped, Where, Parse

\* The end of ls_db.
LEMMA LsAnswerSound ==
    ASSUME Catalogued, NEW c, CallTyped(c), c.op = "ls", c.result = "none", c.todo = << >>, Underway(c),
           NEW a, a = Answer(c)
    PROVE  a.result = "ok" /\ Listing(a)
<1>1. PICK path, p : path = Normalize(c.path) /\ p = Where(c)
  OBVIOUS
<1>2. path \in Seq(Seq(STRING)) /\ p = Parts(path) /\ p = Parse(c.path)
  BY <1>1, PathOf
<1>3. a = LsAnswer(c, p)
  BY <1>2 DEF Answer
<1>4. a.path = c.path /\ a.result = "ok"
      /\ a.entries = IF p.kind = "relation"
                     THEN RelationEntries(<<p.schema, p.relation>>, c.kind) ELSE c.entries
  BY <1>3, OkIs DEF LsAnswer
<1>5. p.kind \in {"root", "schema", "relation", "facet"}
  <2>1. Refusal("ls", p) = "none"
    BY <1>1 DEF Underway
  <2> QED
    BY <1>2, <2>1, PartsOf DEF Refusal
<1>6. \A k \in span : IsCatalog(k)
  BY DEF Catalogued
<1>7. CASE p.kind = "root"
  <2>1. PICK k \in span : c.entries = { SchemaInfo(s) : s \in k.schemas }
    BY <1>1, <1>7 DEF Underway, RootRead
  <2>2. path = RootPath
    BY <1>2, <1>7, PartsOf
  <2>3. a.entries = Children(k, path)
    BY <1>4, <1>6, <1>7, <2>1, <2>2, ChildrenOfRoot
  <2> QED
    BY <1>1, <1>4, <2>3, ListsAMoment
<1>8. CASE p.kind = "schema"
  <2>1. PICK k \in span : c.entries = { RelationInfo(r, k.relations[r].kind) :
                                          r \in { x \in DOMAIN k.relations : x[1] = p.schema } }
    BY <1>1, <1>8 DEF Underway, SchemaRead
  <2>2. path = SchemaPath(p.schema)
    BY <1>2, <1>8, PartsOf
  <2>3. Children(k, path) = { RelationInfo(r, k.relations[r].kind) :
                                r \in { x \in DOMAIN k.relations : x[1] = p.schema } }
    BY <1>6, <2>2, ChildrenOfSchema
  <2>4. a.entries = c.entries
    BY <1>4, <1>8
  <2> QED
    BY <1>1, <1>4, <2>1, <2>3, <2>4, ListsAMoment
<1>9. CASE p.kind = "relation"
  <2> DEFINE r == <<p.schema, p.relation>>
  <2>1. KindSeen(c)
    BY <1>1, <1>9 DEF Underway, OfRelation
  <2>2. PICK k \in span : Exists(k, r) /\ k.relations[r].kind = c.kind
    BY <1>1, <2>1 DEF KindSeen, Subject
  <2>3. path = RelationPath(p.schema, p.relation)
    BY <1>2, <1>9, PartsOf
  <2>4. Children(k, path) = RelationEntries(r, k.relations[r].kind)
    BY <1>6, <2>2, <2>3, ChildrenOfRelation
  <2> QED
    BY <1>1, <1>4, <1>9, <2>2, <2>4, ListsAMoment
<1>10. CASE p.kind = "facet"
  <2> DEFINE r == <<p.schema, p.relation>>
  <2>1. path = FacetPath(p.schema, p.relation, p.part) /\ p.part \in Facets
    BY <1>2, <1>10, PartsOf
  <2>2. \A k \in span : Children(k, path) = ItemNodes(k, r, p.part)
    BY <1>6, <2>1, ChildrenOfFacet
  <2>3. FacetRead(c)
    BY <1>1, <1>10 DEF Underway, IsFacet
  <2>4. a.entries = c.entries
    BY <1>4, <1>10
  <2>5. ASSUME NEW n \in c.entries
        PROVE  \E k \in span : n \in Children(k, path)
    <3>1. PICK k \in span, s \in Needed(p.part) : n \in FacetNodes(k, r, s)
      BY <1>1, <2>3 DEF FacetRead, Subject
    <3> QED
      BY <2>1, <2>2, <3>1, NeededItems
  <2>6. ASSUME NEW k0 \in span, NEW n \in Children(k0, path), \A k \in span : n \in Children(k, path)
        PROVE  n \in c.entries
    <3>1. PICK s \in Needed(p.part) : n \in FacetNodes(k0, r, s)
      BY <2>1, <2>2, <2>6, NeededItems
    <3>2. \A k \in span : n \in FacetNodes(k, r, s)
      BY <2>1, <2>2, <2>6, <3>1, NeededApart
    <3>3. \A k \in span : \A n2 \in FacetNodes(k, r, s) :
             (\A k2 \in span : n2 \in FacetNodes(k2, r, s)) => n2 \in c.entries
      BY <1>1, <2>3 DEF FacetRead, Subject
    <3> QED
      BY <3>1, <3>2, <3>3
  <2> QED
    BY <1>1, <1>4, <2>4, <2>5, <2>6 DEF Listing
<1> QED
  BY <1>4, <1>5, <1>7, <1>8, <1>9, <1>10

\* The end of info_db and open_db, when they describe what was there.
LEMMA Describes ==
    ASSUME NEW c, CallTyped(c), c.op \in {"info", "open"}, c.result = "none", c.todo = << >>, Underway(c),
           NEW n, NEW a, a = Ok(c, {n}),
           NEW k \in span, n \in Known(k), n.path = Normalize(c.path)
    PROVE  a.result = "ok" /\ Answered(a)
<1>1. /\ a.op = c.op /\ a.path = c.path /\ a.result = "ok" /\ a.entries = {n}
      /\ a.kind = c.kind /\ a.data = c.data
  BY OkIs
<1>2. c.op = "open" => \E k2 \in span : c.data = Content(k2, Normalize(c.path), c.kind)
  BY DEF Underway, IsContent, ContentRead
<1> QED
  BY <1>1, <1>2 DEF Answered

\* An item is an entry of the facet that has its name, if there is one.
LEMMA ItemAnswer ==
    ASSUME Catalogued, NEW c, CallTyped(c), c.op = "info", c.result = "none", c.todo = << >>, Underway(c),
           Where(c).kind = "item", NEW a, a = FacetItemInfo(c, Where(c).item)
    PROVE  \/ a.result = "ok" /\ Answered(a)
           \/ a = Failed(c, "not found") /\ Unserved(c)
<1>1. PICK path, p : path = Normalize(c.path) /\ p = Where(c)
  OBVIOUS
<1>2. path \in Seq(Seq(STRING)) /\ p = Parts(path) /\ p.kind = "item"
  BY <1>1, PathOf
<1>3. path = FacetItemPath(p.schema, p.relation, p.part, p.item) /\ p.part \in Facets
  BY <1>2, PartsOf
<1>4. \A k \in span : IsCatalog(k)
  BY DEF Catalogued
<1>5. PICK r : r = <<p.schema, p.relation>>
  OBVIOUS
<1>6. r = Subject(c) /\ r[1] = p.schema /\ r[2] = p.relation
  BY <1>1, <1>5 DEF Subject
<1>7. FacetRead(c)
  BY <1>1, <1>2 DEF Underway, IsFacet
<1>8. \A n \in c.entries : \E k \in span, s \in Needed(p.part) : n \in FacetNodes(k, r, s)
  BY <1>1, <1>6, <1>7 DEF FacetRead
<1>9. \A s \in Needed(p.part) : \A k \in span : \A n \in FacetNodes(k, r, s) :
         (\A k2 \in span : n \in FacetNodes(k2, r, s)) => n \in c.entries
  BY <1>1, <1>6, <1>7 DEF FacetRead
<1> DEFINE named == { entry \in c.entries : LastName(entry.path) = p.item }
<1>10. CASE named = {}
  <2>1. a = Failed(c, "not found")
    BY <1>1, <1>10 DEF FacetItemInfo
  <2>2. ASSUME NEW k0 \in span, NEW n \in Serves(k0, "info", path),
               \A k \in span : n \in Serves(k, "info", path)
        PROVE  FALSE
    <3>1. \A k \in span : NodeIs(k, n, p)
      BY <1>2, <1>4, <2>2, Served
    <3>2. \A k \in span : n \in ItemNodes(k, r, p.part)
      BY <1>2, <1>5, <3>1 DEF NodeIs
    <3>3. PICK s \in Needed(p.part) : n \in FacetNodes(k0, r, s)
      BY <1>3, <3>2, NeededItems
    <3>4. \A k \in span : n \in FacetNodes(k, r, s)
      BY <1>3, <3>2, <3>3, NeededApart
    <3>5. n \in c.entries
      BY <1>9, <3>3, <3>4
    <3>6. n.path = path
      BY <2>2 DEF Serves
    <3>7. LastName(n.path) = p.item
      BY <1>3, <3>6 DEF LastName, FacetItemPath
    <3> QED
      BY <1>10, <3>5, <3>7
  <2>3. Unserved(c)
    BY <1>1, <2>2 DEF Unserved
  <2> QED
    BY <2>1, <2>3
<1>11. CASE named # {}
  <2>1. PICK n : n = CHOOSE entry \in named : TRUE
    OBVIOUS
  <2>2. n \in c.entries /\ LastName(n.path) = p.item
    BY <1>11, <2>1
  <2>3. a = Ok(c, {n})
    BY <1>1, <1>11, <2>1 DEF FacetItemInfo
  <2>4. PICK k \in span, s \in Needed(p.part) : n \in FacetNodes(k, r, s)
    BY <1>8, <2>2
  <2>5. n \in ItemNodes(k, r, p.part)
    BY <1>3, <2>4, NeededItems
  <2>6. PICK i : n.path = FacetItemPath(r[1], r[2], p.part, i) /\ Exists(k, r)
    BY <1>3, <2>5, ItemPaths
  <2>7. i = p.item
    BY <2>2, <2>6 DEF LastName, FacetItemPath
  <2>8. n.path = path
    BY <1>3, <1>6, <2>6, <2>7
  <2>9. n \in Known(k)
    BY <1>3, <1>4, <2>5, <2>6, ListedNodes DEF Known
  <2> QED
    BY <1>1, <2>3, <2>8, <2>9, Describes
<1> QED
  BY <1>10, <1>11

\* What a call that has found a kind may say of the relation.
LEMMA SeenNodes ==
    ASSUME Catalogued, NEW c, CallTyped(c), c.todo = << >>, KindSeen(c), NEW r, r = Subject(c)
    PROVE  \E k \in span :
             /\ IsCatalog(k) /\ Exists(k, r) /\ k.relations[r].kind = c.kind
             /\ c.kind \in {"table", "view"}
             /\ RelationInfo(r, c.kind) \in Known(k)
             /\ \A facet \in Facets : FacetDir(r, facet) \in Known(k)
             /\ \A f \in Formats : RelationDataFile(r, c.kind, f) \in Known(k)
             /\ c.kind = "view" => ViewDefinitionFile(r) \in Known(k)
<1>1. PICK k \in span : Exists(k, r) /\ k.relations[r].kind = c.kind
  BY DEF KindSeen
<1>2. IsCatalog(k)
  BY DEF Catalogued
<1>3. c.kind \in {"table", "view"}
  BY <1>1, <1>2, RelationTyped
<1>4. /\ RelationInfo(r, c.kind) \in Listed(k)
      /\ RelationEntries(r, c.kind) \subseteq Listed(k)
      /\ \A facet \in Facets : FacetDir(r, facet) \in Known(k)
      /\ \A f \in Formats : RelationDataFile(r, c.kind, f) \in DataFiles(k)
  BY <1>1, <1>2, ListedNodes
<1>5. c.kind = "view" => ViewDefinitionFile(r) \in RelationEntries(r, c.kind)
  BY DEF RelationEntries
<1> QED
  BY <1>1, <1>2, <1>3, <1>4, <1>5 DEF Known

\* The end of info_db and open_db.
LEMMA InfoAnswerSound ==
    ASSUME Catalogued, NEW c, CallTyped(c), c.op \in {"info", "open"}, c.result = "none",
           c.todo = << >>, Underway(c), NEW a, a = Answer(c)
    PROVE  \/ a.result = "ok" /\ Answered(a)
           \/ a = Failed(c, "not found") /\ Unserved(c)
<1>1. PICK path, p : path = Normalize(c.path) /\ p = Where(c)
  OBVIOUS
<1>2. path \in Seq(Seq(STRING)) /\ p = Parts(path) /\ p = Parse(c.path)
  BY <1>1, PathOf
<1>3. a = InfoAnswer(c, p)
  BY <1>2 DEF Answer
<1>4. PICK r : r = <<p.schema, p.relation>>
  OBVIOUS
<1>5. r = Subject(c) /\ r[1] = p.schema /\ r[2] = p.relation
  BY <1>1, <1>4 DEF Subject
<1>6. Refusal(c.op, p) = "none"
  BY <1>1 DEF Underway
<1>7. p.kind \in {"root", "schema", "relation", "facet", "item", "data", "definition"}
  BY <1>2, <1>6, PartsOf DEF Refusal
<1>8. c.op = "open" => p.kind \in {"data", "definition"}
  BY <1>6 DEF Refusal
<1>9. catalog \in span /\ \A k \in span : IsCatalog(k)
  BY DEF Catalogued
<1>10. CASE p.kind = "root"
  <2>1. a = Ok(c, {RootInfo})
    BY <1>3, <1>10 DEF InfoAnswer
  <2>2. RootInfo.path = path
    BY <1>2, <1>10, PartsOf DEF RootInfo, FileInfo
  <2>3. RootInfo \in Known(catalog)
    BY DEF Known
  <2> QED
    BY <1>1, <1>9, <2>1, <2>2, <2>3, Describes
<1>11. CASE p.kind = "schema"
  <2>1. a = Ok(c, {SchemaInfo(p.schema)})
    BY <1>3, <1>11 DEF InfoAnswer
  <2>2. PICK k \in span : p.schema \in k.schemas
    BY <1>1, <1>8, <1>11 DEF Underway, SchemaRead
  <2>3. SchemaInfo(p.schema).path = path
    BY <1>2, <1>11, PartsOf DEF SchemaInfo, FileInfo
  <2>4. SchemaInfo(p.schema) \in Known(k)
    BY <2>2 DEF Known, Listed
  <2> QED
    BY <1>1, <2>1, <2>3, <2>4, Describes
<1>12. ASSUME p.kind \notin {"root", "schema"}
       PROVE  KindSeen(c)
  BY <1>1, <1>7, <1>12 DEF Underway, OfRelation
<1>13. CASE p.kind = "relation"
  <2>1. a = Ok(c, {RelationInfo(r, c.kind)})
    BY <1>3, <1>4, <1>13 DEF InfoAnswer
  <2>2. PICK k \in span : RelationInfo(r, c.kind) \in Known(k)
    BY <1>5, <1>12, <1>13, SeenNodes
  <2>3. RelationInfo(r, c.kind).path = path
    BY <1>2, <1>5, <1>13, PartsOf DEF RelationInfo, FileInfo
  <2> QED
    BY <1>1, <2>1, <2>2, <2>3, Describes
<1>14. CASE p.kind = "facet"
  <2>1. a = Ok(c, {FacetDir(r, p.part)})
    BY <1>3, <1>4, <1>14 DEF InfoAnswer
  <2>2. path = FacetPath(p.schema, p.relation, p.part) /\ p.part \in Facets
    BY <1>2, <1>14, PartsOf
  <2>3. PICK k \in span : FacetDir(r, p.part) \in Known(k)
    BY <1>5, <1>12, <1>14, <2>2, SeenNodes
  <2>4. FacetDir(r, p.part).path = path
    BY <1>5, <2>2 DEF FacetDir, FileInfo
  <2> QED
    BY <1>1, <2>1, <2>3, <2>4, Describes
<1>15. CASE p.kind = "item"
  <2>1. a = FacetItemInfo(c, p.item)
    BY <1>3, <1>15 DEF InfoAnswer
  <2>2. c.op = "info"
    BY <1>8, <1>15
  <2> QED
    BY <1>1, <1>15, <2>1, <2>2, ItemAnswer
<1>16. CASE p.kind = "data"
  <2>1. a = Ok(c, {RelationDataFile(r, c.kind, p.part)})
    BY <1>3, <1>4, <1>16 DEF InfoAnswer
  <2>2. path = RelationDataPath(p.schema, p.relation, p.part) /\ p.part \in Formats
    BY <1>2, <1>16, PartsOf
  <2>3. PICK k \in span : RelationDataFile(r, c.kind, p.part) \in Known(k)
    BY <1>5, <1>12, <1>16, <2>2, SeenNodes
  <2>4. RelationDataFile(r, c.kind, p.part).path = path
    BY <1>5, <2>2 DEF RelationDataFile, FileInfo
  <2> QED
    BY <1>1, <2>1, <2>3, <2>4, Describes
<1>17. CASE p.kind = "definition"
  <2>1. a = Ok(c, {ViewDefinitionFile(r)})
    BY <1>3, <1>4, <1>17 DEF InfoAnswer
  <2>2. c.kind # "table"
    BY <1>1, <1>17 DEF Underway, IsContent, ContentRead
  <2>3. PICK k \in span : ViewDefinitionFile(r) \in Known(k)
    BY <1>5, <1>12, <1>17, <2>2, SeenNodes
  <2>4. ViewDefinitionFile(r).path = path
    BY <1>2, <1>5, <1>17, PartsOf DEF ViewDefinitionFile, FileInfo
  <2> QED
    BY <1>1, <2>1, <2>3, <2>4, Describes
<1> QED
  BY <1>7, <1>10, <1>11, <1>13, <1>14, <1>15, <1>16, <1>17

\* The end of open_write_db, which takes tables only.
LEMMA WriteAnswerSound ==
    ASSUME Catalogued, NEW c, CallTyped(c), c.op = "write", c.result = "none",
           c.todo = << >>, Underway(c), NEW a, a = Answer(c)
    PROVE  \/ a.result = "ok" /\ Answered(a)
           \/ a = Failed(c, "not supported") /\ Unserved(c)
<1>1. PICK path, p : path = Normalize(c.path) /\ p = Where(c)
  OBVIOUS
<1>2. path \in Seq(Seq(STRING)) /\ p = Parts(path) /\ p = Parse(c.path)
  BY <1>1, PathOf
<1>3. a = WriteAnswer(c, p)
  BY <1>2 DEF Answer
<1>4. PICK r : r = <<p.schema, p.relation>>
  OBVIOUS
<1>5. r = Subject(c) /\ r[1] = p.schema /\ r[2] = p.relation
  BY <1>1, <1>4 DEF Subject
<1>6. p.kind = "data" /\ p.part # "sql"
  <2>1. Refusal("write", p) = "none"
    BY <1>1 DEF Underway
  <2> QED
    BY <2>1 DEF Refusal
<1>7. KindSeen(c)
  BY <1>1, <1>6 DEF Underway, OfRelation
<1>8. PICK k \in span : /\ IsCatalog(k) /\ Exists(k, r) /\ k.relations[r].kind = c.kind
                        /\ c.kind \in {"table", "view"}
  BY <1>5, <1>7, SeenNodes
<1>9. path = RelationDataPath(p.schema, p.relation, p.part) /\ p.part \in Formats
  BY <1>2, <1>6, PartsOf
<1>10. CASE c.kind = "table"
  <2>1. a = Ok(c, {})
    BY <1>3, <1>10 DEF WriteAnswer
  <2>2. PICK n : n = RelationDataFile(r, "table", p.part)
    OBVIOUS
  <2>3. n \in DataFiles(k)
    BY <1>8, <1>9, <1>10, <2>2, ListedNodes
  <2>4. n.path = path /\ n.kind = "table"
    BY <1>5, <1>9, <2>2 DEF RelationDataFile, FileInfo
  <2>5. n \in Serves(k, "write", path)
    BY <1>2, <1>6, <2>3, <2>4 DEF Serves, ReadsRelation
  <2>6. a.op = "write" /\ a.path = c.path /\ a.result = "ok"
    BY <2>1, OkIs
  <2> QED
    BY <1>1, <2>5, <2>6 DEF Answered
<1>11. CASE c.kind = "view"
  <2>1. a = Failed(c, "not supported")
    BY <1>3, <1>11 DEF WriteAnswer
  <2>2. ASSUME NEW n \in Serves(k, "write", path)
        PROVE  FALSE
    <3>1. NodeIs(k, n, p) /\ n.kind = "table"
      BY <1>2, <1>8, <2>2, Served DEF Serves
    <3>2. n = RelationDataFile(r, "view", p.part)
      BY <1>4, <1>6, <1>8, <1>11, <3>1 DEF NodeIs
    <3> QED
      BY <3>1, <3>2 DEF RelationDataFile, FileInfo
  <2>3. Unserved(c)
    BY <1>1, <2>2, MissingNow
  <2> QED
    BY <2>1, <2>3
<1> QED
  BY <1>8, <1>10, <1>11

\* An answer is one of these.
LEMMA AnswerShape ==
    ASSUME NEW c, CallTyped(c), c.op \in Reading, Refusal(c.op, Where(c)) = "none"
    PROVE  \/ \E entries : Answer(c) = Ok(c, entries)
           \/ \E error : Answer(c) = Failed(c, error)
<1>1. PICK p : p = Where(c)
  OBVIOUS
<1>2. p = Parse(c.path) /\ p = Parts(Normalize(c.path)) /\ Normalize(c.path) \in Seq(Seq(STRING))
  BY <1>1, PathOf
<1>3. CASE c.op = "ls"
  BY <1>2, <1>3 DEF Answer, LsAnswer
<1>4. CASE c.op \in {"info", "open"}
  <2>1. p.kind \in {"root", "schema", "relation", "facet", "item", "data", "definition"}
    BY <1>1, <1>2, PartsOf DEF Refusal
  <2>2. Answer(c) = InfoAnswer(c, p)
    BY <1>2, <1>4 DEF Answer
  <2> QED
    BY <2>1, <2>2 DEF InfoAnswer, FacetItemInfo
<1>5. CASE c.op = "write"
  BY <1>2, <1>5 DEF Answer, WriteAnswer
<1> QED
  BY <1>3, <1>4, <1>5 DEF Reading

\* So it is sound.
LEMMA AnswerSound ==
    ASSUME Catalogued, NEW c, CallTyped(c), c.op \in Reading, c.result = "none",
           c.todo = << >>, Underway(c)
    PROVE  Sound(Answer(c))
<1>1. PICK a : a = Answer(c)
  OBVIOUS
<1> SUFFICES Sound(a)
  BY <1>1
<1>2. Refusal(c.op, Where(c)) = "none"
  BY DEF Underway
<1>3. (\E entries : a = Ok(c, entries)) \/ (\E error : a = Failed(c, error))
  BY <1>1, <1>2, AnswerShape
<1>4. a.op = c.op /\ a.todo = << >> /\ CallTyped(a)
  BY <1>3, OkIs, FailedIs
<1>5. \/ a.result = "ok" /\ Listing(a) /\ Answered(a)
      \/ \E error \in Results \ {"none", "ok"} : a = Failed(c, error) /\ Unserved(c)
  <2>1. CASE c.op = "ls"
    BY <1>1, <1>4, <2>1, LsAnswerSound DEF Answered
  <2>2. CASE c.op \in {"info", "open"}
    BY <1>1, <1>4, <2>2, InfoAnswerSound DEF Listing, Results
  <2>3. CASE c.op = "write"
    BY <1>1, <1>4, <2>3, WriteAnswerSound DEF Listing, Results
  <2> QED
    BY <2>1, <2>2, <2>3 DEF Reading
<1>6. CASE a.result = "ok" /\ Listing(a) /\ Answered(a)
  BY <1>4, <1>6 DEF Sound, Reading, Results
<1>7. CASE \E error \in Results \ {"none", "ok"} : a = Failed(c, error) /\ Unserved(c)
  BY <1>7, FailureSound
<1> QED
  BY <1>5, <1>6, <1>7

\* A call that reads is sound after a statement if it was under way.
LEMMA ContinueSound ==
    ASSUME Catalogued, NEW c, CallTyped(c), c.op \in Reading, c.result = "none", Underway(c)
    PROVE  Sound(Continue(c))
<1>1. CASE c.todo = << >>
  BY <1>1, AnswerSound DEF Continue
<1>2. CASE c.todo # << >>
  BY <1>2 DEF Continue, Sound, Reading, Results
<1> QED
  BY <1>1, <1>2

-----------------------------------------------------------------------------
(***************************************************************************)
(* Statements                                                              *)
(***************************************************************************)

\* What is left of a plan after its first statement.
LEMMA TailOf ==
    ASSUME NEW todo \in Seq(Steps), todo # << >>, NEW rest, rest = Tail(todo)
    PROVE  /\ rest \in Seq(Steps) /\ Head(todo) = todo[1]
           /\ \A i \in DOMAIN rest : i + 1 \in DOMAIN todo /\ rest[i] = todo[i + 1]
           /\ \A i \in 1 .. Len(rest) - 1 : i + 1 \in 1 .. Len(todo) - 1 /\ rest[i] = todo[i + 1]
           /\ rest # << >> => Last(rest) = Last(todo) /\ 1 \in 1 .. Len(todo) - 1
           /\ rest = << >> => Last(todo) = Head(todo)
           /\ 1 \in DOMAIN todo
<1>1. /\ rest \in Seq(Steps) /\ Len(rest) = Len(todo) - 1 /\ Head(todo) = todo[1]
      /\ \A i \in 1 .. Len(rest) : rest[i] = todo[i + 1]
      /\ Len(todo) \in Nat \ {0}
  <2>1. Tail(todo) \in Seq(Steps) /\ Len(Tail(todo)) = Len(todo) - 1
        /\ \A i \in 1 .. Len(Tail(todo)) : Tail(todo)[i] = todo[i + 1]
    BY HeadTailProperties
  <2>2. Len(todo) \in Nat \ {0}
    BY EmptySeq
  <2> QED
    BY <2>1, <2>2
<1>2. DOMAIN todo = 1 .. Len(todo) /\ DOMAIN rest = 1 .. Len(rest) /\ Len(rest) \in Nat
  BY <1>1
<1>3. rest = << >> <=> Len(rest) = 0
  BY <1>1, EmptySeq
<1>4. rest # << >> => Last(rest) = Last(todo) /\ 1 \in 1 .. Len(todo) - 1
  BY <1>1, <1>2, <1>3 DEF Last
<1>5. rest = << >> => Last(todo) = Head(todo)
  BY <1>1, <1>3 DEF Last
<1> QED
  BY <1>1, <1>2, <1>4, <1>5

\* A step is the next one or among those after it.
LEMMA TailHas ==
    ASSUME NEW todo \in Seq(Steps), todo # << >>, NEW rest, rest = Tail(todo), NEW i \in DOMAIN todo
    PROVE  todo[i] = Head(todo) \/ (\E j \in DOMAIN rest : rest[j] = todo[i])
<1>1. /\ rest \in Seq(Steps) /\ Len(rest) = Len(todo) - 1 /\ Head(todo) = todo[1]
      /\ \A j \in 1 .. Len(rest) : rest[j] = todo[j + 1]
      /\ Len(todo) \in Nat \ {0}
  <2>1. Tail(todo) \in Seq(Steps) /\ Len(Tail(todo)) = Len(todo) - 1
        /\ \A j \in 1 .. Len(Tail(todo)) : Tail(todo)[j] = todo[j + 1]
    BY HeadTailProperties
  <2>2. Len(todo) \in Nat \ {0}
    BY EmptySeq
  <2> QED
    BY <2>1, <2>2
<1>2. DOMAIN todo = 1 .. Len(todo) /\ DOMAIN rest = 1 .. Len(rest)
  BY <1>1
<1>3. CASE i # 1
  <2>1. i - 1 \in DOMAIN rest /\ rest[i - 1] = todo[i]
    BY <1>1, <1>2, <1>3
  <2> QED
    BY <2>1
<1> QED
  BY <1>1, <1>3

\* A call looks for a relation, reads a facet, or reads a content.
LEMMA Groups ==
    ASSUME NEW c, CallTyped(c), c.op \in Reading, Refusal(c.op, Where(c)) = "none",
           NEW p, p = Where(c)
    PROVE  /\ p.kind \in {"root", "schema", "relation", "facet", "item", "data", "definition"}
           /\ OfRelation(c) <=> p.kind \notin {"root", "schema"}
           /\ ~OfRelation(c) =>
                c.op \in {"ls", "info"} /\ ~IsLookup(c) /\ ~IsFacet(c) /\ ~IsContent(c)
           /\ OfRelation(c) => IsLookup(c) \/ IsFacet(c) \/ IsContent(c)
           /\ IsLookup(c) => OfRelation(c) /\ ~IsFacet(c) /\ ~IsContent(c)
           /\ IsFacet(c) => /\ OfRelation(c) /\ ~IsContent(c) /\ p.part \in Facets
                            /\ p.kind \in {"facet", "item"}
           /\ IsContent(c) =>
                /\ OfRelation(c) /\ p.kind \in {"data", "definition"}
                /\ p.kind = "data" => c.op = "open" /\ p.part \in Formats
                /\ p.kind = "definition" => p.part = NoPart
<1>1. PICK path : path = Normalize(c.path)
  OBVIOUS
<1>2. path \in Seq(Seq(STRING)) /\ p = Parts(path)
  BY <1>1, PathOf
<1>3. /\ p.kind \in {"root", "schema", "relation", "facet", "item", "data", "definition", "invalid"}
      /\ p.kind \in {"facet", "item"} => p.part \in Facets
      /\ p.kind = "data" => p.part \in Formats
      /\ p.kind = "definition" => p.part = NoPart
  BY <1>2, PartsOf
<1>4. /\ p.kind # "invalid"
      /\ c.op = "ls" => p.kind \notin {"item", "data", "definition"}
      /\ c.op = "open" => p.kind \in {"data", "definition"}
      /\ c.op = "write" => p.kind = "data"
  BY DEF Refusal
<1>5. c.op \in {"ls", "info", "open", "write"}
  BY DEF Reading
<1> QED
  BY <1>3, <1>4, <1>5 DEF OfRelation, IsLookup, IsFacet, IsContent

\* A call under way is one that has read what its path asks for.
LEMMA UnderwayBy ==
    ASSUME NEW c, Refusal(c.op, Where(c)) = "none", NEW d, d.op = c.op, d.path = c.path,
           OfRelation(c) => KindSeen(d),
           Where(c).kind = "root" => RootRead(d), Where(c).kind = "schema" => SchemaRead(d),
           IsLookup(c) => LookupRead(d), IsFacet(c) => FacetRead(d), IsContent(c) => ContentRead(d)
    PROVE  Underway(d)
<1>1. Where(d) = Where(c)
  BY DEF Where
<1> QED
  BY <1>1 DEF Underway, OfRelation, IsLookup, IsFacet, IsContent

\* No operation serves what is in no relation of the catalog.
LEMMA Gone ==
    ASSUME Catalogued, NEW c, CallTyped(c), OfRelation(c), ~Exists(catalog, Subject(c))
    PROVE  Unserved(c)
<1>1. PICK path, p : path = Normalize(c.path) /\ p = Where(c)
  OBVIOUS
<1>2. path \in Seq(Seq(STRING)) /\ p = Parts(path)
  BY <1>1, PathOf
<1>3. catalog \in span /\ IsCatalog(catalog)
  BY DEF Catalogued
<1>4. ASSUME NEW n \in Serves(catalog, c.op, path)
      PROVE  FALSE
  <2>1. NodeIs(catalog, n, p)
    BY <1>2, <1>3, <1>4, Served
  <2> QED
    BY <1>1, <2>1 DEF NodeIs, OfRelation, Subject
<1> QED
  BY <1>1, <1>3, <1>4, MissingNow

\* Nor what is of views only when the relation is none, or was another.
LEMMA NoView ==
    ASSUME Catalogued, NEW c, CallTyped(c), OfRelation(c), KindSeen(c),
           ~Exists(catalog, Subject(c)) \/ catalog.relations[Subject(c)].kind # "view",
           NEW p, p = Where(c),
           \/ p.kind = "definition"
           \/ p.kind \in {"facet", "item"} /\ p.part = "depends_on"
           \/ p.kind = "data" /\ c.kind = "view"
    PROVE  Unserved(c)
<1>1. PICK path, r : path = Normalize(c.path) /\ r = Subject(c)
  OBVIOUS
<1>2. path \in Seq(Seq(STRING)) /\ p = Parts(path) /\ r = <<p.schema, p.relation>>
  BY <1>1, PathOf DEF Subject
<1>3. catalog \in span /\ \A k \in span : IsCatalog(k)
  BY DEF Catalogued
<1>4. CASE ~Exists(catalog, r)
  BY <1>1, <1>4, Gone
<1>5. CASE Exists(catalog, r)
  <2>1. catalog.relations[r].kind = "table" /\ catalog.relations[r].reads = {}
    BY <1>1, <1>3, <1>5, RelationTyped
  <2>2. CASE p.kind # "data"
    <3>1. ASSUME NEW n \in Serves(catalog, c.op, path)
          PROVE  FALSE
      <4>1. NodeIs(catalog, n, p)
        BY <1>2, <1>3, <3>1, Served
      <4>2. CASE p.kind = "item"
        <5>1. n \in ItemNodes(catalog, r, "depends_on")
          BY <1>2, <4>1, <4>2 DEF NodeIs
        <5>2. ItemNodes(catalog, r, "depends_on")
                = { DependsOnEntry(r, read) : read \in catalog.relations[r].reads }
          BY <1>5 DEF ItemNodes, FacetNodes
        <5> QED
          BY <2>1, <5>1, <5>2
      <4>3. CASE p.kind # "item"
        BY <1>2, <2>1, <2>2, <4>1, <4>3 DEF NodeIs
      <4> QED
        BY <4>2, <4>3
    <3> QED
      BY <1>1, <1>3, <3>1, MissingNow
  <2>3. CASE p.kind = "data"
    <3>1. PICK k \in span : Exists(k, r) /\ k.relations[r].kind = "view"
      BY <1>1, <2>3 DEF KindSeen
    <3>2. ASSUME NEW n \in Serves(catalog, c.op, path), n \in Serves(k, c.op, path)
          PROVE  FALSE
      <4>1. NodeIs(catalog, n, p) /\ NodeIs(k, n, p)
        BY <1>2, <1>3, <3>2, Served
      <4>2. n = RelationDataFile(r, "table", p.part) /\ n = RelationDataFile(r, "view", p.part)
        BY <1>2, <2>1, <2>3, <3>1, <4>1 DEF NodeIs
      <4> QED
        BY <4>2 DEF RelationDataFile, FileInfo
    <3> QED
      BY <1>1, <1>3, <3>2 DEF Unserved
  <2> QED
    BY <2>2, <2>3
<1> QED
  BY <1>4, <1>5

\* What can be read is there, and a table can be.
LEMMA TablesWork ==
    ASSUME NEW k, IsCatalog(k), NEW r
    PROVE  /\ Works(k, r) => Exists(k, r)
           /\ Exists(k, r) /\ k.relations[r].kind = "table" => Works(k, r)
<1>1. ASSUME Works(k, r)
      PROVE  Exists(k, r)
  <2>1. PICK all : all = DOMAIN k.relations
    OBVIOUS
  <2>2. all \in SUBSET DOMAIN k.relations
    BY <2>1
  <2>3. r \in all
    BY <1>1, <2>1, <2>2 DEF Works
  <2> QED
    BY <2>1, <2>3 DEF Exists
<1>2. ASSUME Exists(k, r), k.relations[r].kind = "table"
      PROVE  Works(k, r)
  <2>1. k.relations[r].reads = {} /\ r \in DOMAIN k.relations
    BY <1>2, RelationTyped DEF Exists
  <2> QED
    BY <2>1 DEF Works
<1> QED
  BY <1>1, <1>2

\* What cannot be read now is not served if it is read, nor, being a view,
\* what was a table's at another moment.
LEMMA Broken ==
    ASSUME Catalogued, NEW c, CallTyped(c), OfRelation(c), ~Works(catalog, Subject(c)),
           NEW p, p = Where(c),
           \/ ReadsRelation(c.op, p)
           \/ /\ \E k \in span : Exists(k, Subject(c)) /\ k.relations[Subject(c)].kind = "table"
              /\ p.kind \in {"facet", "item"} => sqlite
    PROVE  Unserved(c)
<1>1. PICK path, r : path = Normalize(c.path) /\ r = Subject(c)
  OBVIOUS
<1>2. path \in Seq(Seq(STRING)) /\ p = Parts(path) /\ r = <<p.schema, p.relation>>
  BY <1>1, PathOf DEF Subject
<1>3. catalog \in span /\ \A k \in span : IsCatalog(k)
  BY DEF Catalogued
<1>4. CASE ~Exists(catalog, r)
  BY <1>1, <1>4, Gone
<1>5. CASE ReadsRelation(c.op, p)
  <2>1. ASSUME NEW n \in Serves(catalog, c.op, path)
        PROVE  FALSE
    BY <1>1, <1>2, <1>5, <2>1 DEF Serves
  <2> QED
    BY <1>1, <1>3, <2>1, MissingNow
<1>6. CASE Exists(catalog, r) /\ ~ReadsRelation(c.op, p)
  <2>1. catalog.relations[r].kind = "view"
    BY <1>1, <1>3, <1>6, RelationTyped, TablesWork
  <2>2. PICK k \in span : Exists(k, r) /\ k.relations[r].kind = "table"
    BY <1>1, <1>6
  <2>3. k.relations[r].reads = {}
    BY <1>3, <2>2, RelationTyped
  <2>4. p.kind \in {"facet", "item"} => p.part = "depends_on"
    BY <1>6 DEF ReadsRelation
  <2>5. ASSUME NEW n \in Serves(catalog, c.op, path), n \in Serves(k, c.op, path)
        PROVE  FALSE
    <3>1. NodeIs(catalog, n, p) /\ NodeIs(k, n, p)
      BY <1>2, <1>3, <2>5, Served
    <3>2. CASE p.kind = "item"
      <4>1. n \in ItemNodes(k, r, "depends_on")
        BY <1>2, <2>4, <3>1, <3>2 DEF NodeIs
      <4>2. ItemNodes(k, r, "depends_on") = { DependsOnEntry(r, read) : read \in k.relations[r].reads }
        BY <2>2 DEF ItemNodes, FacetNodes
      <4> QED
        BY <2>3, <4>1, <4>2
    <3>3. CASE p.kind \in {"facet", "definition"}
      BY <1>2, <2>2, <2>4, <3>1, <3>3 DEF NodeIs
    <3>4. CASE p.kind = "relation"
      <4>1. n = RelationInfo(r, "view") /\ n = RelationInfo(r, "table")
        BY <1>2, <2>1, <2>2, <3>1, <3>4 DEF NodeIs
      <4> QED
        BY <4>1 DEF RelationInfo, FileInfo
    <3>5. CASE p.kind = "data"
      <4>1. n = RelationDataFile(r, "view", p.part) /\ n = RelationDataFile(r, "table", p.part)
        BY <1>2, <2>1, <2>2, <3>1, <3>5 DEF NodeIs
      <4> QED
        BY <4>1 DEF RelationDataFile, FileInfo
    <3>6. p.kind \notin {"root", "schema", "invalid"}
      BY DEF OfRelation
    <3> QED
      BY <3>1, <3>2, <3>3, <3>4, <3>5, <3>6 DEF NodeIs
  <2> QED
    BY <1>1, <1>3, <2>5 DEF Unserved
<1> QED
  BY <1>4, <1>5, <1>6

\* What a call may do next.
LEMMA HeadOf ==
    ASSUME NEW c, CallTyped(c), c.op \in Reading, c.todo # << >>, Underway(c), NEW p, p = Where(c),
           NEW s, s = Head(c.todo)
    PROVE  /\ OfRelation(c) => s \notin {"schemas", "relations"}
           /\ ~OfRelation(c) => s \in {"schemas", "relations"}
           /\ IsLookup(c) => s \in LookupSteps
           /\ IsFacet(c) =>
                s \in LookupSteps \cup Needed(p.part) \cup IF p.part = "depends_on" THEN ViewSteps ELSE {}
           /\ IsContent(c) => /\ s \in Before(c) \cup Final(c)
                              /\ s \notin Before(c) => Tail(c.todo) = << >>
                              /\ s \notin Final(c) => Tail(c.todo) # << >>
<1>1. PICK todo, rest : todo = c.todo /\ rest = Tail(c.todo)
  OBVIOUS
<1>2. /\ todo \in Seq(Steps) /\ s = todo[1] /\ 1 \in DOMAIN todo
      /\ rest # << >> => 1 \in 1 .. Len(todo) - 1
      /\ rest = << >> => Last(todo) = s
  BY <1>1, TailOf DEF CallTyped
<1>3. Refusal(c.op, p) = "none"
  BY DEF Underway
<1>4. IsLookup(c) => s \in LookupSteps
  BY <1>1, <1>2 DEF Underway, LookupRead
<1>5. ASSUME IsFacet(c)
      PROVE  /\ s \in LookupSteps \cup Needed(p.part)
                        \cup IF p.part = "depends_on" THEN ViewSteps ELSE {}
             /\ s \notin {"schemas", "relations"}
  <2>1. FacetRead(c) /\ p.part \in Facets
    BY <1>3, <1>5, Groups DEF Underway
  <2>2. s \in LookupSteps \cup Needed(p.part) \cup IF p.part = "depends_on" THEN ViewSteps ELSE {}
    BY <1>1, <1>2, <2>1 DEF FacetRead
  <2>3. {"schemas", "relations"} \cap
           (LookupSteps \cup Needed(p.part) \cup IF p.part = "depends_on" THEN ViewSteps ELSE {}) = {}
    BY <2>1 DEF LookupSteps, Needed, ViewSteps, Facets
  <2> QED
    BY <2>2, <2>3
<1>6. ASSUME IsContent(c)
      PROVE  /\ s \in Before(c) \cup Final(c)
             /\ s \notin Before(c) => rest = << >>
             /\ s \notin Final(c) => rest # << >>
             /\ s \notin {"schemas", "relations"}
  <2>1. Last(todo) \in Final(c) /\ \A i \in 1 .. Len(todo) - 1 : todo[i] \in Before(c)
    BY <1>1, <1>6 DEF Underway, ContentRead
  <2>2. CASE rest = << >>
    BY <1>2, <2>1, <2>2 DEF Final
  <2>3. CASE rest # << >>
    BY <1>2, <2>1, <2>3 DEF Before, LookupSteps
  <2> QED
    BY <2>2, <2>3
<1>7. CASE OfRelation(c)
  BY <1>1, <1>3, <1>4, <1>5, <1>6, <1>7, Groups DEF LookupSteps
<1>8. CASE ~OfRelation(c)
  <2>1. /\ p.kind \in {"root", "schema"} /\ c.op \in {"ls", "info"}
        /\ ~IsLookup(c) /\ ~IsFacet(c) /\ ~IsContent(c)
    BY <1>3, <1>8, Groups
  <2>2. todo \in {<<"schemas">>, <<"relations">>, <<"schemas", "relations">>}
    BY <1>1, <2>1 DEF Underway, RootRead, SchemaRead
  <2>3. s \in {"schemas", "relations"}
    BY <1>2, <2>2
  <2> QED
    BY <1>8, <2>1, <2>3
<1> QED
  BY <1>7, <1>8

\* A call that makes a statement of reading reads.
LEMMA Reads ==
    ASSUME NEW c, Sound(c), c.result = "none", Head(c.todo) \notin LookupSteps \cup {"drop"}
    PROVE  c.op \in Reading
<1>1. c.op \in Reading \cup {"rm"} /\ c.todo # << >> /\ CallTyped(c)
  BY DEF Sound
<1>2. CASE c.op = "rm"
  <2>1. Removing(c)
    BY <1>2 DEF Sound
  <2>2. PICK todo, rest : todo = c.todo /\ rest = Tail(c.todo)
    OBVIOUS
  <2>3. /\ Head(todo) = todo[1] /\ (rest # << >> => 1 \in 1 .. Len(todo) - 1)
        /\ rest = << >> => Last(todo) = Head(todo)
    BY <1>1, <2>2, TailOf DEF CallTyped
  <2>4. Last(todo) = "drop" /\ \A i \in 1 .. Len(todo) - 1 : todo[i] \in LookupSteps
    BY <2>1, <2>2 DEF Removing
  <2> QED
    BY <2>2, <2>3, <2>4
<1> QED
  BY <1>1, <1>2

\* So this is what is known of it.
LEMMA Reader ==
    ASSUME NEW c, Sound(c), c.result = "none", c.op \in Reading
    PROVE  /\ CallTyped(c) /\ c.todo # << >> /\ Underway(c) /\ Refusal(c.op, Where(c)) = "none"
           /\ c.path \in Seq(Seq(STRING)) /\ c.todo \in Seq(Steps)
           /\ c = [f \in Fields |-> c[f]]
           /\ c.data = [f \in {"columns", "mentions", "rows"} |-> c.data[f]]
  BY DEF Sound, Underway, CallTyped

\* Only a lookup finds the kind.
LEMMA KindKnown ==
    ASSUME NEW c, KindSeen(c), Head(c.todo) \notin {"relation", "view"},
           NEW d, d.kind = c.kind, d.latest = c.latest, d.path = c.path
    PROVE  c.kind # "" /\ c.latest # "" /\ KindSeen(d)
  BY DEF KindSeen, Subject, Where

\* After the schemas come the relations, or nothing.
LEMMA AfterSchemas ==
    /\ \A q : q \in {<<"schemas", "relations">>, <<"relations">>} /\ Head(q) = "schemas"
               => Tail(q) = <<"relations">>
    /\ Tail(<<"schemas">>) = << >>
<1>1. Tail(<<"schemas">>) = << >>
  OBVIOUS
<1>2. Tail(<<"schemas", "relations">>) = <<"relations">>
  OBVIOUS
<1>3. Head(<<"relations">>) = "relations"
  OBVIOUS
<1> QED
  BY <1>1, <1>2, <1>3

\* Listing the schemas.
LEMMA ListSchemasSound ==
    ASSUME Catalogued, NEW c, Sound(c), c.result = "none", Head(c.todo) = "schemas",
           NEW p, p = Where(c), NEW d,
           d = IF p.kind = "root" \/ p.schema \in catalog.schemas
               THEN [c EXCEPT !.entries = IF p.kind = "root"
                                          THEN { SchemaInfo(s) : s \in catalog.schemas } ELSE {},
                              !.todo = Tail(@)]
               ELSE Failed(c, "not found")
    PROVE  IF p.kind = "root" \/ p.schema \in catalog.schemas THEN Sound(Continue(d)) ELSE Sound(d)
<1>1. c.op \in Reading
  BY Reads DEF LookupSteps
<1>2. /\ CallTyped(c) /\ c.todo # << >> /\ Underway(c) /\ Refusal(c.op, p) = "none"
      /\ c = [f \in Fields |-> c[f]]
  BY <1>1, Reader
<1>3. /\ p.kind \in {"root", "schema"} /\ c.op \in {"ls", "info"} /\ ~OfRelation(c)
      /\ ~IsLookup(c) /\ ~IsFacet(c) /\ ~IsContent(c)
  BY <1>1, <1>2, HeadOf, Groups
<1>4. catalog \in span /\ IsCatalog(catalog)
  BY DEF Catalogued
<1>5. CASE p.kind = "root" \/ p.schema \in catalog.schemas
  <2>1. d = [c EXCEPT !.entries = IF p.kind = "root"
                                  THEN { SchemaInfo(s) : s \in catalog.schemas } ELSE {},
                      !.todo = Tail(@)]
    BY <1>5
  <2>2. /\ d = [f \in Fields |-> d[f]]
        /\ d.op = c.op /\ d.path = c.path /\ d.kind = c.kind /\ d.latest = c.latest
        /\ d.data = c.data /\ d.result = "none" /\ d.todo = Tail(c.todo)
        /\ d.entries = IF p.kind = "root" THEN { SchemaInfo(s) : s \in catalog.schemas } ELSE {}
    BY <1>2, <2>1 DEF Fields
  <2>3. d.todo \in Seq(Steps)
    BY <1>2, <2>2, TailOf DEF CallTyped
  <2>4. CallTyped(d)
    <3>1. /\ d = [f \in Fields |-> d[f]]
          /\ d.path = c.path /\ d.kind = c.kind /\ d.latest = c.latest /\ d.data = c.data
      BY <2>2
    <3> QED
      BY <1>2, <2>3, <3>1 DEF CallTyped
  <2>5. Where(d) = p
    BY <2>2 DEF Where
  <2>6. CASE p.kind = "root"
    <3>1. c.op = "ls" /\ c.todo = <<"schemas">>
      BY <1>2, <1>3, <2>6 DEF Underway, RootRead
    <3>2. RootRead(d)
      BY <1>4, <2>2, <2>6, <3>1 DEF RootRead
    <3>3. Underway(d)
      BY <1>2, <1>3, <2>2, <2>6, <3>2, UnderwayBy
    <3> QED
      BY <1>1, <1>5, <2>2, <2>4, <3>3, ContinueSound
  <2>7. CASE p.kind = "schema"
    <3>1. SchemaRead(c)
      BY <1>2, <2>7 DEF Underway
    <3>2. /\ c.op = "ls" => c.todo \in {<<"schemas", "relations">>, <<"relations">>}
          /\ c.op = "info" => c.todo = <<"schemas">>
      BY <1>2, <3>1, Zenon DEF SchemaRead
    <3>3. /\ d.op = "ls" => d.todo = <<"relations">>
          /\ d.op = "info" => d.todo = << >>
      <4>1. PICK todo : todo = c.todo
        OBVIOUS
      <4>2. Head(todo) = "schemas" /\ d.op = c.op /\ d.todo = Tail(todo)
        BY <2>2, <4>1
      <4> QED
        BY <3>2, <4>1, <4>2, AfterSchemas, Zenon
    <3>4. p.schema \in catalog.schemas
      BY <1>5, <2>7
    <3>5. SchemaRead(d)
      BY <1>4, <2>5, <3>3, <3>4 DEF SchemaRead
    <3>6. Underway(d)
      BY <1>2, <1>3, <2>2, <2>7, <3>5, UnderwayBy
    <3> QED
      BY <1>1, <1>5, <2>2, <2>4, <3>6, ContinueSound
  <2> QED
    BY <1>3, <2>6, <2>7
<1>6. CASE p.kind = "schema" /\ p.schema \notin catalog.schemas
  <2>1. PICK path : path = Normalize(c.path)
    OBVIOUS
  <2>2. path \in Seq(Seq(STRING)) /\ p = Parts(path)
    BY <1>2, <2>1, PathOf
  <2>3. ASSUME NEW n \in Serves(catalog, c.op, path)
        PROVE  FALSE
    <3>1. NodeIs(catalog, n, p)
      BY <1>4, <2>2, <2>3, Served
    <3> QED
      BY <1>6, <3>1 DEF NodeIs
  <2>4. Unserved(c)
    BY <1>4, <2>1, <2>3, MissingNow
  <2> QED
    BY <1>1, <1>2, <1>6, <2>4, FailureSound DEF Results
<1> QED
  BY <1>3, <1>5, <1>6

\* Listing the relations of a schema.
LEMMA ListRelationsSound ==
    ASSUME Catalogued, NEW c, Sound(c), c.result = "none", Head(c.todo) = "relations", NEW d,
           d = [c EXCEPT !.entries = { RelationInfo(r, catalog.relations[r].kind) :
                    r \in { x \in DOMAIN catalog.relations : x[1] = Where(c).schema } },
                  !.todo = Tail(@)]
    PROVE  Sound(Continue(d))
<1>1. c.op \in Reading
  BY Reads DEF LookupSteps
<1>2. /\ CallTyped(c) /\ c.todo # << >> /\ Underway(c) /\ Refusal(c.op, Where(c)) = "none"
      /\ c = [f \in Fields |-> c[f]]
  BY <1>1, Reader
<1>3. /\ Where(c).kind \in {"root", "schema"} /\ c.op \in {"ls", "info"} /\ ~OfRelation(c)
      /\ ~IsLookup(c) /\ ~IsFacet(c) /\ ~IsContent(c)
  BY <1>1, <1>2, HeadOf, Groups
<1>4. catalog \in span
  BY DEF Catalogued
<1>5. /\ d = [f \in Fields |-> d[f]]
      /\ d.op = c.op /\ d.path = c.path /\ d.kind = c.kind /\ d.latest = c.latest
      /\ d.data = c.data /\ d.result = "none" /\ d.todo = Tail(c.todo)
      /\ d.entries = { RelationInfo(r, catalog.relations[r].kind) :
                    r \in { x \in DOMAIN catalog.relations : x[1] = Where(c).schema } }
  BY <1>2 DEF Fields
<1>6. d.todo \in Seq(Steps)
  BY <1>2, <1>5, TailOf DEF CallTyped
<1>7. CallTyped(d)
  BY <1>2, <1>5, <1>6 DEF CallTyped
<1>8. Where(d) = Where(c)
  BY <1>5 DEF Where
<1>9. Where(c).kind = "schema" /\ c.op = "ls" /\ c.todo = <<"relations">>
  <2>1. Where(c).kind # "root"
    BY <1>2, <1>3 DEF Underway, RootRead
  <2>2. SchemaRead(c)
    BY <1>2, <1>3, <2>1 DEF Underway
  <2> QED
    BY <1>2, <1>3, <2>1, <2>2 DEF SchemaRead
<1>10. SchemaRead(d)
  <2>1. d.todo = << >> /\ d.op # "info"
    BY <1>5, <1>9
  <2>2. d.entries = { RelationInfo(r, catalog.relations[r].kind) :
                    r \in { x \in DOMAIN catalog.relations : x[1] = Where(d).schema } }
    BY <1>5, <1>8
  <2> QED
    BY <1>4, <2>1, <2>2, Zenon DEF SchemaRead
<1>11. Underway(d)
  BY <1>2, <1>3, <1>5, <1>9, <1>10, UnderwayBy
<1> QED
  BY <1>1, <1>5, <1>7, <1>11, ContinueSound

\* A call after a statement of it.
Follows(d, c) ==
    /\ d = [f \in Fields |-> d[f]]
    /\ d.op = c.op /\ d.path = c.path /\ d.result = c.result
    /\ d.todo = Tail(c.todo)

\* Such a call is typed if what it found is.
LEMMA FollowsTyped ==
    ASSUME NEW c, CallTyped(c), c.todo # << >>, NEW d, Follows(d, c),
           {d.kind, d.latest} \subseteq {"", "table", "view"},
           d.data = [f \in {"columns", "mentions", "rows"} |-> d.data[f]]
    PROVE  CallTyped(d)
<1>1. d.todo \in Seq(Steps)
  BY TailOf DEF CallTyped, Follows
<1> QED
  BY <1>1 DEF CallTyped, Follows

\* What one statement leaves of a call that it does not read for.
LEMMA Skipped ==
    ASSUME NEW c, CallTyped(c), c.op \in Reading, c.todo # << >>, Underway(c),
           NEW s, s = Head(c.todo), s \in LookupSteps \cup {"view", "if view"},
           NEW d, d.op = c.op, d.path = c.path, d.todo = Tail(c.todo), d.entries = c.entries,
           d.data = c.data, d.kind = c.kind \/ c.kind = "", KindSeen(d),
           Where(c).kind = "definition" => d.kind # "table"
    PROVE  Underway(d)
<1>1. PICK p, todo, rest : p = Where(c) /\ todo = c.todo /\ rest = Tail(c.todo)
  OBVIOUS
<1>2. /\ \A i \in DOMAIN rest : i + 1 \in DOMAIN todo /\ rest[i] = todo[i + 1]
      /\ \A i \in DOMAIN todo : todo[i] = s \/ (\E j \in DOMAIN rest : rest[j] = todo[i])
      /\ \A i \in 1 .. Len(rest) - 1 : i + 1 \in 1 .. Len(todo) - 1 /\ rest[i] = todo[i + 1]
      /\ rest # << >> => Last(rest) = Last(todo)
  <2>1. todo \in Seq(Steps) /\ todo # << >> /\ rest = Tail(todo) /\ s = Head(todo)
    BY <1>1 DEF CallTyped
  <2>2. \A i \in DOMAIN todo : todo[i] = Head(todo) \/ (\E j \in DOMAIN rest : rest[j] = todo[i])
    BY <2>1, TailHas, Zenon
  <2>3. /\ \A i \in DOMAIN rest : i + 1 \in DOMAIN todo /\ rest[i] = todo[i + 1]
        /\ \A i \in 1 .. Len(rest) - 1 : i + 1 \in 1 .. Len(todo) - 1 /\ rest[i] = todo[i + 1]
        /\ rest # << >> => Last(rest) = Last(todo)
    BY <2>1, TailOf, Zenon
  <2> QED
    BY <2>1, <2>2, <2>3, Zenon
<1>3. Refusal(c.op, p) = "none" /\ d.todo = rest /\ Where(d) = p /\ Subject(d) = Subject(c)
  BY <1>1 DEF Underway, Where, Subject
<1>4. OfRelation(c) /\ p.kind \notin {"root", "schema"}
  <2>1. OfRelation(c)
    BY HeadOf DEF LookupSteps
  <2> QED
    BY <1>1, <2>1 DEF OfRelation
<1>5. ASSUME IsLookup(c)
      PROVE  LookupRead(d)
  <2>1. \A i \in DOMAIN todo : todo[i] \in LookupSteps
    BY <1>1, <1>5 DEF Underway, LookupRead
  <2>2. \A i \in DOMAIN rest : rest[i] \in LookupSteps
    BY <1>2, <2>1
  <2> QED
    BY <1>3, <2>2, Zenon DEF LookupRead
<1>6. ASSUME IsFacet(c)
      PROVE  FacetRead(d)
  <2>1. FacetRead(c) /\ p.part \in Facets
    BY <1>1, <1>3, <1>6, Groups DEF Underway
  <2>2. s \notin Needed(p.part)
    BY <2>1 DEF Needed, Facets, LookupSteps
  <2>3. \A i \in DOMAIN rest : rest[i] \in LookupSteps \cup Needed(p.part)
                          \cup IF p.part = "depends_on" THEN ViewSteps ELSE {}
    BY <1>1, <1>2, <2>1 DEF FacetRead
  <2>4. \A n \in c.entries : \E k \in span, s2 \in Needed(p.part) : n \in FacetNodes(k, Subject(c), s2)
    BY <1>1, <2>1 DEF FacetRead
  <2>5. \A s2 \in Needed(p.part) :
          \/ \E i \in DOMAIN rest : rest[i] = s2
          \/ \A k \in span : \A n \in FacetNodes(k, Subject(c), s2) :
                (\A k2 \in span : n \in FacetNodes(k2, Subject(c), s2)) => n \in c.entries
    <3>1. \A s2 \in Needed(p.part) :
            \/ \E i \in DOMAIN todo : todo[i] = s2
            \/ \A k \in span : \A n \in FacetNodes(k, Subject(c), s2) :
                  (\A k2 \in span : n \in FacetNodes(k2, Subject(c), s2)) => n \in c.entries
      BY <1>1, <2>1, Zenon DEF FacetRead
    <3>2. \A s2 \in Needed(p.part) : (\E i \in DOMAIN todo : todo[i] = s2)
                                       => \E i \in DOMAIN rest : rest[i] = s2
      BY <1>2, <2>2
    <3> QED
      BY <3>1, <3>2, Zenon
  <2> QED
    BY <1>3, <2>3, <2>4, <2>5 DEF FacetRead
<1>7. ASSUME IsContent(c)
      PROVE  ContentRead(d)
  <2>1. /\ c.op = "open" => c.data = NoData
        /\ Last(todo) \in Final(c)
        /\ \A i \in 1 .. Len(todo) - 1 : todo[i] \in Before(c)
    BY <1>1, <1>7 DEF Underway, ContentRead
  <2>2. s \notin Final(c)
    BY DEF Final, LookupSteps
  <2>3. rest # << >>
    BY <1>1, <1>7, <2>2, HeadOf
  <2>4. Final(c) \subseteq Final(d) /\ Before(c) \subseteq Before(d)
    BY <1>1, <1>3 DEF Final, Before
  <2>5. /\ Last(rest) \in Final(d)
        /\ \A i \in 1 .. Len(rest) - 1 : rest[i] \in Before(d)
    BY <1>2, <2>1, <2>3, <2>4
  <2> QED
    BY <1>1, <1>3, <2>1, <2>3, <2>5 DEF ContentRead
<1> QED
  BY <1>1, <1>3, <1>4, <1>5, <1>6, <1>7, UnderwayBy

\* What is read of views only.
LEMMA ViewsOnly ==
    ASSUME NEW c, CallTyped(c), c.op \in Reading, c.todo # << >>, Underway(c),
           Head(c.todo) \in ViewSteps, NEW p, p = Where(c)
    PROVE  /\ OfRelation(c) /\ KindSeen(c)
           /\ \/ p.kind = "definition"
              \/ p.kind \in {"facet", "item"} /\ p.part = "depends_on"
              \/ p.kind = "data" /\ c.kind = "view"
<1>1. Refusal(c.op, p) = "none"
  BY DEF Underway
<1>2. OfRelation(c)
  BY HeadOf DEF ViewSteps
<1>3. KindSeen(c)
  BY <1>2 DEF Underway
<1>4. ~IsLookup(c)
  BY HeadOf DEF ViewSteps, LookupSteps
<1>5. CASE IsFacet(c)
  <2>1. p.part \in Facets /\ p.kind \in {"facet", "item"}
    BY <1>1, <1>5, Groups
  <2>2. Head(c.todo) \in LookupSteps \cup Needed(p.part)
                          \cup IF p.part = "depends_on" THEN ViewSteps ELSE {}
    BY <1>5, HeadOf
  <2>3. p.part = "depends_on"
    BY <2>1, <2>2 DEF Needed, LookupSteps, ViewSteps, Facets
  <2> QED
    BY <1>2, <1>3, <2>1, <2>3
<1>6. CASE IsContent(c)
  <2>1. p.kind \in {"data", "definition"}
    BY <1>1, <1>6, Groups
  <2>2. Head(c.todo) \in Before(c) \cup Final(c)
    BY <1>6, HeadOf
  <2>3. p.kind = "data" => c.kind = "view"
    BY <2>2 DEF Before, Final, LookupSteps, ViewSteps
  <2> QED
    BY <1>2, <1>3, <2>1, <2>3
<1> QED
  BY <1>1, <1>2, <1>4, <1>5, <1>6, Groups

\* A removal that has looked for the kind goes on, or fails.
LEMMA RemovalGoesOn ==
    ASSUME NEW c, Sound(c), c.result = "none", c.op = "rm", Head(c.todo) \in LookupSteps,
           NEW d, CallTyped(d), d.op = c.op, d.path = c.path, d.todo = Tail(c.todo), d.kind # "",
           d.result = "none"
    PROVE  Sound(Continue(d))
<1>1. CallTyped(c) /\ c.todo # << >> /\ Removing(c)
  BY DEF Sound
<1>2. PICK todo, rest : todo = c.todo /\ rest = Tail(c.todo)
  OBVIOUS
<1>3. /\ \A i \in 1 .. Len(rest) - 1 : i + 1 \in 1 .. Len(todo) - 1 /\ rest[i] = todo[i + 1]
      /\ rest # << >> => Last(rest) = Last(todo)
      /\ rest = << >> => Last(todo) = Head(todo)
  <2>1. todo \in Seq(Steps) /\ todo # << >> /\ rest = Tail(todo)
    BY <1>1, <1>2 DEF CallTyped
  <2> QED
    BY <2>1, TailOf, Zenon
<1>4. Last(todo) = "drop" /\ \A i \in 1 .. Len(todo) - 1 : todo[i] \in LookupSteps
  BY <1>1, <1>2 DEF Removing
<1>5. rest # << >>
  BY <1>2, <1>3, <1>4 DEF LookupSteps
<1>6. Removing(d)
  BY <1>1, <1>2, <1>3, <1>4, <1>5 DEF Removing
<1>7. Continue(d) = d
  BY <1>2, <1>5 DEF Continue
<1> QED
  BY <1>2, <1>5, <1>6, <1>7 DEF Sound, Reading, Results

\* It may fail at any statement.
LEMMA RemovalFails ==
    ASSUME NEW c, Sound(c), c.result = "none", c.op = "rm", NEW error \in Results \ {"none", "ok"}
    PROVE  Sound(Failed(c, error))
<1>1. PICK d : d = Failed(c, error)
  OBVIOUS
<1>2. CallTyped(c)
  BY DEF Sound
<1>3. d.op = "rm" /\ d.todo = << >> /\ d.result = error /\ CallTyped(d)
  BY <1>1, <1>2, FailedIs
<1> QED
  BY <1>1, <1>3 DEF Sound, Reading

\* A lookup fails if the relation is not there.
LEMMA LookupFails ==
    ASSUME Catalogued, NEW c, Sound(c), c.result = "none", Head(c.todo) \notin {"schemas", "relations"},
           ~Exists(catalog, Subject(c)), NEW error \in Results \ {"none", "ok"}
    PROVE  Sound(Failed(c, error))
<1>1. c.op \in Reading \cup {"rm"} /\ CallTyped(c)
  BY DEF Sound
<1>2. CASE c.op = "rm"
  BY <1>2, RemovalFails
<1>3. CASE c.op \in Reading
  <2>1. OfRelation(c)
    BY <1>3, Reader, HeadOf
  <2> QED
    BY <1>1, <1>3, <2>1, Gone, FailureSound
<1> QED
  BY <1>1, <1>2, <1>3

\* relation_info that has found the relation.
LEMMA FoundSound ==
    ASSUME Catalogued, NEW c, Sound(c), c.result = "none", NEW s, s = Head(c.todo),
           s \in {"relation", "view", "if view"},
           NEW r, r = Subject(c), Exists(catalog, r), NEW kind, kind = catalog.relations[r].kind,
           kind = "view" \/ s = "relation",
           NEW d, Follows(d, c), d.kind = (IF c.kind = "" THEN kind ELSE c.kind), d.latest = kind,
           d.entries = c.entries, d.data = c.data
    PROVE  Sound(Continue(d))
<1>1. CallTyped(c) /\ c.todo # << >> /\ c.op \in Reading \cup {"rm"}
  BY DEF Sound
<1>2. catalog \in span /\ kind \in {"table", "view"}
  BY RelationTyped DEF Catalogued
<1>3. d.op = c.op /\ d.path = c.path /\ d.todo = Tail(c.todo) /\ d.result = "none"
  BY DEF Follows
<1>4. CallTyped(d)
  <2>1. d.kind \in {"", "table", "view"} /\ d.latest \in {"", "table", "view"}
    BY <1>1, <1>2 DEF CallTyped
  <2>2. d.data = [f \in {"columns", "mentions", "rows"} |-> d.data[f]]
    BY <1>1 DEF CallTyped
  <2> QED
    BY <1>1, <2>1, <2>2, FollowsTyped
<1>5. CASE c.op = "rm"
  <2>1. s = "relation"
    BY <1>5, Reads DEF LookupSteps, Reading
  <2>2. d.kind # ""
    BY <1>2, <1>3
  <2> QED
    BY <1>3, <1>4, <1>5, <2>1, <2>2, RemovalGoesOn DEF LookupSteps
<1>6. CASE c.op \in Reading
  <2>1. Underway(c) /\ Refusal(c.op, Where(c)) = "none"
    BY <1>6, Reader
  <2>2. OfRelation(c) /\ KindSeen(c)
    <3>1. OfRelation(c)
      BY <1>1, <1>6, <2>1, HeadOf
    <3> QED
      BY <2>1, <3>1 DEF Underway
  <2>3. Subject(d) = r /\ d.kind # ""
    BY <1>2, <1>3 DEF Subject, Where
  <2>4. \A seen \in {d.kind, d.latest} :
           seen # "" /\ \E k \in span : Exists(k, r) /\ k.relations[r].kind = seen
    BY <1>2, <1>3, <2>2 DEF KindSeen
  <2>5. KindSeen(d)
    BY <2>3, <2>4 DEF KindSeen
  <2>6. ASSUME Where(c).kind = "definition"
        PROVE  d.kind # "table"
    <3>1. IsContent(c)
      BY <2>6 DEF IsContent
    <3>2. c.kind # "table"
      BY <2>1, <2>6, <3>1 DEF Underway, ContentRead
    <3>3. s # "relation"
      <4>1. s \in Before(c) \cup Final(c)
        BY <1>1, <1>6, <2>1, <3>1, HeadOf
      <4> QED
        BY <2>6, <4>1 DEF Before, Final
    <3> QED
      BY <1>3, <3>2, <3>3
  <2>7. s \in LookupSteps \cup {"view", "if view"}
    BY DEF LookupSteps
  <2>8. Underway(d)
    BY <1>1, <1>3, <1>6, <2>1, <2>5, <2>6, <2>7, Skipped
  <2> QED
    BY <1>3, <1>4, <1>6, <2>8, ContinueSound
<1> QED
  BY <1>1, <1>5, <1>6

\* What a view only has is not to be had of anything else.
LEMMA NotAViewFails ==
    ASSUME Catalogued, NEW c, Sound(c), c.result = "none", Head(c.todo) \in ViewSteps,
           NEW r, r = Subject(c), ~Exists(catalog, r) \/ catalog.relations[r].kind # "view",
           NEW error \in Results \ {"none", "ok"}
    PROVE  Sound(Failed(c, error))
<1>1. c.op \in Reading
  BY Reads DEF ViewSteps, LookupSteps
<1>2. CallTyped(c) /\ c.todo # << >> /\ Underway(c)
  BY <1>1, Reader
<1>3. PICK p : p = Where(c)
  OBVIOUS
<1>4. /\ OfRelation(c) /\ KindSeen(c)
      /\ \/ p.kind = "definition"
         \/ p.kind \in {"facet", "item"} /\ p.part = "depends_on"
         \/ p.kind = "data" /\ c.kind = "view"
  BY <1>1, <1>2, <1>3, ViewsOnly
<1>5. Unserved(c)
  BY <1>2, <1>3, <1>4, NoView
<1> QED
  BY <1>1, <1>2, <1>5, FailureSound

\* Of no statements there is none.
LEMMA NoSteps == \A i \in DOMAIN << >> : FALSE
<1>1. << >> \in Seq(Steps) /\ Len(<< >>) = 0
  BY EmptySeq
<1>2. PICK none : none = << >>
  OBVIOUS
<1>3. none \in Seq(Steps) /\ Len(none) = 0
  BY <1>1, <1>2
<1>4. \A i \in DOMAIN none : FALSE
  BY <1>3
<1> QED
  BY <1>2, <1>4

\* A single step as a plan.
LEMMA OneStep ==
    ASSUME NEW s \in Steps, NEW plan, plan = <<s>>
    PROVE  /\ plan \in Seq(Steps) /\ plan # << >> /\ Len(plan) = 1 /\ plan[1] = s /\ 1 \in DOMAIN plan
           /\ Head(plan) = s
           /\ \A i \in DOMAIN plan : plan[i] = s
<1>1. plan \in Seq(Steps) /\ Len(plan) = 1 /\ plan[1] = s
  OBVIOUS
<1>2. DOMAIN plan = 1 .. 1
  BY <1>1
<1>3. plan # << >> /\ Head(plan) = s
  BY <1>1
<1> QED
  BY <1>1, <1>2, <1>3

\* The count alone.
LEMMA CountAlone ==
    ASSUME NEW todo, todo = <<"count">>
    PROVE  \A i \in DOMAIN todo : todo[i] = "count"
<1>1. "count" \in Steps
  BY DEF Steps
<1> QED
  BY <1>1, OneStep, Zenon

\* A table depends on nothing.
LEMMA NotIfViewSound ==
    ASSUME Catalogued, NEW c, Sound(c), c.result = "none", Head(c.todo) = "if view",
           NEW r, r = Subject(c), Exists(catalog, r), catalog.relations[r].kind # "view",
           NEW d, CallTyped(d), d.op = c.op, d.path = c.path, d.result = "none", d.kind = c.kind,
           d.latest = catalog.relations[r].kind, d.entries = c.entries,
           d.todo = IF sqlite THEN <<"count">> ELSE << >>
    PROVE  c.kind # "" /\ Sound(Continue(d))
<1>1. c.op \in Reading
  BY Reads DEF LookupSteps
<1>2. CallTyped(c) /\ c.todo # << >> /\ Underway(c) /\ Refusal(c.op, Where(c)) = "none"
  BY <1>1, Reader
<1>3. PICK p : p = Where(c)
  OBVIOUS
<1>4. OfRelation(c) /\ IsFacet(c) /\ ~IsLookup(c) /\ ~IsContent(c)
  <2>1. OfRelation(c) /\ ~IsLookup(c)
    BY <1>1, <1>2, HeadOf DEF LookupSteps
  <2>2. ~IsContent(c)
    <3>1. "if view" \notin Before(c) \cup Final(c)
      BY DEF Before, Final, LookupSteps
    <3> QED
      BY <1>1, <1>2, <3>1, HeadOf
  <2> QED
    BY <1>1, <1>2, <2>1, <2>2, Groups
<1>5. KindSeen(c) /\ FacetRead(c)
  BY <1>2, <1>4 DEF Underway
<1>6. c.kind # "" /\ KindSeen(d)
  <2>1. c.kind # "" /\ \E k \in span : Exists(k, r) /\ k.relations[r].kind = c.kind
    BY <1>5 DEF KindSeen
  <2>2. catalog \in span /\ IsCatalog(catalog)
    BY DEF Catalogued
  <2>3. d.latest \in {"table", "view"} /\ Subject(d) = r
    <3>1. catalog.relations[r].kind \in {"table", "view"}
      BY <2>2, RelationTyped
    <3>2. Subject(d) = Subject(c)
      BY DEF Subject, Where
    <3> QED
      BY <3>1, <3>2
  <2>4. \A seen \in {d.kind, d.latest} :
           seen # "" /\ \E k \in span : Exists(k, r) /\ k.relations[r].kind = seen
    <3>1. d.latest # "" /\ \E k \in span : Exists(k, r) /\ k.relations[r].kind = d.latest
      BY <2>2, <2>3
    <3> QED
      BY <2>1, <3>1
  <2> QED
    BY <2>1, <2>3, <2>4, Zenon DEF KindSeen
<1>7. p.part = "depends_on"
  <2>1. p.part \in Facets
    BY <1>1, <1>2, <1>3, <1>4, Groups
  <2>2. "if view" \in LookupSteps \cup Needed(p.part)
                        \cup IF p.part = "depends_on" THEN ViewSteps ELSE {}
    BY <1>1, <1>2, <1>3, <1>4, HeadOf
  <2> QED
    BY <2>1, <2>2 DEF Needed, LookupSteps, Facets
<1>8. FacetRead(d)
  <2>1. Where(d) = p /\ Subject(d) = r
    BY <1>3 DEF Where, Subject
  <2>2. catalog \in span /\ FacetNodes(catalog, r, "definition") = {}
    <3>1. catalog \in span /\ catalog.relations[r].reads = {}
      BY RelationTyped DEF Catalogued
    <3> QED
      BY <3>1 DEF FacetNodes
  <2>3. Needed(p.part) = {"definition"}
    BY <1>7 DEF Needed
  <2>4. \A n \in d.entries : \E k \in span, s \in Needed(p.part) : n \in FacetNodes(k, r, s)
    BY <1>3, <1>5 DEF FacetRead
  <2>5. \A s \in Needed(p.part) : \A k \in span : \A n \in FacetNodes(k, r, s) :
           (\A k2 \in span : n \in FacetNodes(k2, r, s)) => n \in d.entries
    BY <2>2, <2>3
  <2>6. \A i \in DOMAIN d.todo : d.todo[i] \in LookupSteps
    <3>1. CASE sqlite
      <4>1. PICK todo : todo = <<"count">>
        OBVIOUS
      <4>2. d.todo = todo
        BY <3>1, <4>1, Zenon
      <4>3. \A i \in DOMAIN todo : todo[i] = "count"
        BY <4>1, CountAlone, Zenon
      <4>4. "count" \in LookupSteps
        BY <3>1 DEF LookupSteps
      <4>5. \A i \in DOMAIN todo : todo[i] \in LookupSteps
        BY <4>3, <4>4
      <4> QED
        BY <4>2, <4>5, Zenon
    <3>2. CASE ~sqlite
      <4>1. d.todo = << >>
        BY <3>2
      <4> QED
        BY <4>1, NoSteps, Zenon
    <3> QED
      BY <3>1, <3>2
  <2> QED
    BY <2>1, <2>4, <2>5, <2>6 DEF FacetRead
<1>9. Where(c).kind \notin {"root", "schema"}
  BY <1>4 DEF OfRelation
<1>10. Underway(d)
  BY <1>2, <1>4, <1>6, <1>8, <1>9, UnderwayBy
<1> QED
  BY <1>1, <1>6, <1>10, ContinueSound

\* Only SQLite's relation_info counts rows.
LEMMA CountsInSQLite ==
    ASSUME NEW c, Sound(c), c.result = "none", Head(c.todo) = "count"
    PROVE  sqlite
<1> SUFFICES ASSUME ~sqlite PROVE FALSE
  OBVIOUS
<1>1. LookupSteps = {"relation"}
  BY DEF LookupSteps
<1>2. c.op \in Reading
  BY <1>1, Reads
<1>3. CallTyped(c) /\ c.todo # << >> /\ Underway(c) /\ Refusal(c.op, Where(c)) = "none"
  BY <1>2, Reader
<1>4. OfRelation(c) /\ ~IsLookup(c)
  BY <1>1, <1>2, <1>3, HeadOf
<1>5. ~IsContent(c)
  <2>1. "count" \notin Before(c) \cup Final(c)
    BY <1>1 DEF Before, Final
  <2> QED
    BY <1>2, <1>3, <2>1, HeadOf
<1>6. IsFacet(c)
  BY <1>2, <1>3, <1>4, <1>5, Groups
<1>7. PICK p : p = Where(c)
  OBVIOUS
<1>8. p.part \in Facets
  BY <1>2, <1>3, <1>6, <1>7, Groups
<1>9. "count" \in LookupSteps \cup Needed(p.part) \cup IF p.part = "depends_on" THEN ViewSteps ELSE {}
  BY <1>2, <1>3, <1>6, <1>7, HeadOf
<1> QED
  BY <1>1, <1>8, <1>9 DEF Needed, ViewSteps, Facets

\* relation_info whose rows are counted.
LEMMA CountedSound ==
    ASSUME Catalogued, NEW c, Sound(c), c.result = "none", Head(c.todo) = "count",
           NEW d, Follows(d, c), d.kind = c.kind, d.latest = c.latest,
           d.entries = c.entries, d.data = c.data
    PROVE  Sound(Continue(d))
<1>1. CallTyped(c) /\ c.todo # << >> /\ c.op \in Reading \cup {"rm"}
  BY DEF Sound
<1>2. d.op = c.op /\ d.path = c.path /\ d.todo = Tail(c.todo) /\ d.result = "none"
      /\ "count" \in LookupSteps
  BY CountsInSQLite DEF Follows, LookupSteps
<1>3. CallTyped(d)
  <2>1. d.kind \in {"", "table", "view"} /\ d.latest \in {"", "table", "view"}
    BY <1>1 DEF CallTyped
  <2>2. d.data = [f \in {"columns", "mentions", "rows"} |-> d.data[f]]
    BY <1>1 DEF CallTyped
  <2> QED
    BY <1>1, <2>1, <2>2, FollowsTyped
<1>4. CASE c.op = "rm"
  <2>1. c.kind # ""
    BY <1>4 DEF Sound, Removing
  <2> QED
    BY <1>2, <1>3, <1>4, <2>1, RemovalGoesOn
<1>5. CASE c.op \in Reading
  <2>1. Underway(c)
    BY <1>5, Reader
  <2>2. OfRelation(c)
    BY <1>1, <1>5, <2>1, HeadOf
  <2>3. KindSeen(c)
    BY <2>1, <2>2 DEF Underway
  <2>4. KindSeen(d)
    BY <1>2, <2>3, KindKnown
  <2>5. ASSUME Where(c).kind = "definition"
        PROVE  d.kind # "table"
    BY <2>1, <2>5 DEF Underway, IsContent, ContentRead
  <2>6. Underway(d)
    BY <1>1, <1>2, <1>5, <2>1, <2>4, <2>5, Skipped
  <2> QED
    BY <1>2, <1>3, <1>5, <2>6, ContinueSound
<1> QED
  BY <1>1, <1>4, <1>5

\* The rows of what was a table are not counted if it cannot be read now.
LEMMA CountFails ==
    ASSUME Catalogued, NEW c, Sound(c), c.result = "none", Head(c.todo) = "count",
           c.latest # "view", ~Works(catalog, Subject(c)), NEW error \in Results \ {"none", "ok"}
    PROVE  Sound(Failed(c, error))
<1>1. c.op \in Reading \cup {"rm"} /\ CallTyped(c)
  BY DEF Sound
<1>2. CASE c.op = "rm"
  BY <1>2, RemovalFails
<1>3. CASE c.op \in Reading
  <2>1. Underway(c) /\ OfRelation(c)
    BY <1>3, Reader, HeadOf
  <2>2. \E k \in span : Exists(k, Subject(c)) /\ k.relations[Subject(c)].kind = "table"
    <3>1. KindSeen(c) /\ c.latest \in {"", "table", "view"}
      BY <1>1, <2>1 DEF Underway, CallTyped
    <3> QED
      BY <3>1 DEF KindSeen
  <2>3. PICK p : p = Where(c)
    OBVIOUS
  <2>4. Unserved(c)
    BY <1>1, <2>1, <2>2, <2>3, CountsInSQLite, Broken
  <2> QED
    BY <1>1, <1>3, <2>4, FailureSound
<1> QED
  BY <1>1, <1>2, <1>3

\* SQLite cannot tell the columns of a view that cannot be read.
LEMMA ColumnsFail ==
    ASSUME Catalogued, NEW c, Sound(c), c.result = "none", NeedsColumns(Head(c.todo)),
           ~Works(catalog, Subject(c)), NEW error \in Results \ {"none", "ok"}
    PROVE  Sound(Failed(c, error))
<1>1. sqlite /\ Head(c.todo) \in {"columns", "keys"}
  BY DEF NeedsColumns
<1>2. c.op \in Reading
  BY <1>1, Reads DEF LookupSteps
<1>3. CallTyped(c) /\ c.todo # << >> /\ Underway(c) /\ Refusal(c.op, Where(c)) = "none"
  BY <1>2, Reader
<1>4. PICK p, s : p = Where(c) /\ s = Head(c.todo)
  OBVIOUS
<1>5. OfRelation(c) /\ ~IsLookup(c)
  BY <1>1, <1>2, <1>3, HeadOf DEF LookupSteps
<1>6. CASE IsFacet(c)
  <2>1. p.part \in Facets /\ p.kind \in {"facet", "item"}
    BY <1>2, <1>3, <1>4, <1>6, Groups
  <2>2. s \in LookupSteps \cup Needed(p.part) \cup IF p.part = "depends_on" THEN ViewSteps ELSE {}
    BY <1>2, <1>3, <1>4, <1>6, HeadOf
  <2>3. p.part # "depends_on"
    BY <1>1, <1>4, <2>2 DEF LookupSteps, Needed, ViewSteps
  <2>4. ReadsRelation(c.op, p)
    BY <1>1, <2>1, <2>3 DEF ReadsRelation
  <2>5. Unserved(c)
    BY <1>3, <1>4, <1>5, <2>4, Broken
  <2> QED
    BY <1>2, <1>3, <2>5, FailureSound
<1>7. CASE IsContent(c)
  <2>1. s \notin Before(c) /\ s \in Before(c) \cup Final(c)
    BY <1>1, <1>2, <1>3, <1>4, <1>7, HeadOf DEF Before, LookupSteps
  <2>2. c.kind = "table"
    BY <1>1, <1>4, <2>1 DEF Final
  <2>3. \E k \in span : Exists(k, Subject(c)) /\ k.relations[Subject(c)].kind = "table"
    BY <1>3, <1>5, <2>2 DEF Underway, KindSeen
  <2>4. Unserved(c)
    BY <1>1, <1>3, <1>4, <1>5, <2>3, Broken
  <2> QED
    BY <1>2, <1>3, <2>4, FailureSound
<1> QED
  BY <1>2, <1>3, <1>5, <1>6, <1>7, Groups

\* A statement that reads a facet of the relation, the last one or not.
LEMMA FacetFollows ==
    ASSUME Catalogued, NEW c, CallTyped(c), c.op \in Reading, c.todo # << >>, Underway(c), IsFacet(c),
           NEW p, p = Where(c), NEW r, r = Subject(c), NEW s, s = Head(c.todo), s \in Needed(p.part),
           NEW d, d.path = c.path, d.todo = Tail(c.todo),
           \/ d.entries = c.entries \cup FacetNodes(catalog, r, s)
           \/ d.entries = FacetNodes(catalog, r, s) /\ Needed(p.part) = {s}
    PROVE  FacetRead(d)
<1>1. PICK todo, rest : todo = c.todo /\ rest = Tail(c.todo)
  OBVIOUS
<1>2. todo \in Seq(Steps) /\ todo # << >> /\ rest = Tail(todo) /\ s = Head(todo)
  BY <1>1 DEF CallTyped
<1>3. \A i \in DOMAIN todo : todo[i] = s \/ (\E j \in DOMAIN rest : rest[j] = todo[i])
  <2>1. ASSUME NEW i \in DOMAIN todo
        PROVE  todo[i] = Head(todo) \/ (\E j \in DOMAIN rest : rest[j] = todo[i])
    BY <1>2, TailHas
  <2> QED
    BY <1>2, <2>1, Zenon
<1>4. \A i \in DOMAIN rest : \E j \in DOMAIN todo : rest[i] = todo[j]
  <2>1. \A i \in DOMAIN rest : i + 1 \in DOMAIN todo /\ rest[i] = todo[i + 1]
    BY <1>2, TailOf, Zenon
  <2> QED
    BY <2>1, Zenon
<1>5. FacetRead(c)
  BY DEF Underway
<1>6. Where(d) = p /\ Subject(d) = r /\ catalog \in span
  BY DEF Where, Subject, Catalogued
<1>7. \A i \in DOMAIN rest : rest[i] \in LookupSteps \cup Needed(p.part)
                          \cup IF p.part = "depends_on" THEN ViewSteps ELSE {}
  BY <1>1, <1>4, <1>5 DEF FacetRead
<1>8. \A n \in d.entries : \E k \in span, s2 \in Needed(p.part) : n \in FacetNodes(k, r, s2)
  <2>1. \A n \in c.entries : \E k \in span, s2 \in Needed(p.part) : n \in FacetNodes(k, r, s2)
    BY <1>5 DEF FacetRead
  <2>2. \A n \in d.entries : n \in c.entries \/ n \in FacetNodes(catalog, r, s)
    OBVIOUS
  <2> QED
    BY <1>6, <2>1, <2>2
<1>9. ASSUME NEW s2 \in Needed(p.part)
      PROVE  \/ \E i \in DOMAIN rest : rest[i] = s2
             \/ \A k \in span : \A n \in FacetNodes(k, r, s2) :
                   (\A k2 \in span : n \in FacetNodes(k2, r, s2)) => n \in d.entries
  <2>1. CASE s2 = s
    BY <1>6, <2>1
  <2>2. CASE s2 # s
    <3>1. \/ \E i \in DOMAIN todo : todo[i] = s2
          \/ \A k \in span : \A n \in FacetNodes(k, r, s2) :
                (\A k2 \in span : n \in FacetNodes(k2, r, s2)) => n \in c.entries
      BY <1>1, <1>5, Zenon DEF FacetRead
    <3>2. c.entries \subseteq d.entries
      BY <2>2
    <3> QED
      BY <1>3, <2>2, <3>1, <3>2
  <2> QED
    BY <2>1, <2>2
<1> QED
  BY <1>1, <1>6, <1>7, <1>8, <1>9 DEF FacetRead

\* A statement that reads the content is the last of its call.
LEMMA ContentFollows ==
    ASSUME NEW c, CallTyped(c), c.op \in Reading, c.todo # << >>, Underway(c), IsContent(c),
           NEW s, s = Head(c.todo), s \notin Before(c)
    PROVE  /\ s \in Final(c) /\ Tail(c.todo) = << >>
           /\ c.op = "open" => c.data = NoData
           /\ Where(c).kind = "definition" => c.kind # "table"
           /\ \A d : d.op = c.op /\ d.path = c.path /\ d.kind = c.kind /\ d.todo = Tail(c.todo)
                       /\ (c.op = "open" => \E k \in span : d.data = Content(k, Normalize(c.path), c.kind))
                       => ContentRead(d)
<1>1. s \in Final(c) /\ Tail(c.todo) = << >>
  BY HeadOf
<1>2. /\ c.op = "open" => c.data = NoData
      /\ Where(c).kind = "definition" => c.kind # "table"
  BY DEF Underway, ContentRead
<1>3. ASSUME NEW d, d.op = c.op, d.path = c.path, d.kind = c.kind, d.todo = Tail(c.todo),
             c.op = "open" => \E k \in span : d.data = Content(k, Normalize(c.path), c.kind)
      PROVE  ContentRead(d)
  <2>1. Where(d) = Where(c) /\ d.todo = << >>
    BY <1>1, <1>3 DEF Where
  <2> QED
    BY <1>2, <1>3, <2>1 DEF ContentRead
<1> QED
  BY <1>1, <1>2, <1>3

\* A statement that reads what the call is for.
LEMMA ReadSound ==
    ASSUME Catalogued, NEW c, Sound(c), c.result = "none", NEW s, s = Head(c.todo),
           s \notin LookupSteps \cup {"schemas", "relations", "view", "drop"},
           NEW d, Follows(d, c), d.kind = c.kind, d.latest = c.latest,
           d.data = [f \in {"columns", "mentions", "rows"} |-> d.data[f]],
           IsFacet(c) => FacetRead(d), IsContent(c) => ContentRead(d)
    PROVE  Sound(Continue(d))
<1>1. c.op \in Reading
  BY Reads
<1>2. CallTyped(c) /\ c.todo # << >> /\ Underway(c) /\ Refusal(c.op, Where(c)) = "none"
  BY <1>1, Reader
<1>3. d.op = c.op /\ d.path = c.path /\ d.result = "none"
  BY DEF Follows
<1>4. CallTyped(d)
  <2>1. d.kind \in {"", "table", "view"} /\ d.latest \in {"", "table", "view"}
    BY <1>2 DEF CallTyped
  <2> QED
    BY <1>2, <2>1, FollowsTyped
<1>5. OfRelation(c) /\ ~IsLookup(c)
  BY <1>1, <1>2, HeadOf
<1>6. Where(c).kind \notin {"root", "schema"}
  BY <1>5 DEF OfRelation
<1>7. KindSeen(c)
  BY <1>2, <1>5 DEF Underway
<1>8. KindSeen(d)
  BY <1>3, <1>7, KindKnown DEF LookupSteps
<1>9. Underway(d)
  BY <1>2, <1>3, <1>5, <1>6, <1>8, UnderwayBy
<1> QED
  BY <1>1, <1>3, <1>4, <1>9, ContinueSound

\* One of the statements of a facet; of the columns also when open_db asks
\* for the SQL of a table.
LEMMA ReadFacetSound ==
    ASSUME Catalogued, NEW c, Sound(c), c.result = "none", NEW s, s = Head(c.todo),
           s \in {"columns", "indexes", "keys", "references", "constraints"},
           NEW r, r = Subject(c), NEW d, Follows(d, c), d.kind = c.kind, d.latest = c.latest,
           d.entries = c.entries \cup FacetNodes(catalog, r, s),
           d.data = IF Exists(catalog, r)
                    THEN [c.data EXCEPT !.columns = catalog.relations[r].columns] ELSE c.data
    PROVE  Sound(Continue(d))
<1>1. c.op \in Reading
  BY Reads DEF LookupSteps
<1>2. /\ CallTyped(c) /\ c.todo # << >> /\ Underway(c) /\ Refusal(c.op, Where(c)) = "none"
      /\ c.data = [f \in {"columns", "mentions", "rows"} |-> c.data[f]]
  BY <1>1, Reader
<1>3. d.data = [f \in {"columns", "mentions", "rows"} |-> d.data[f]]
  BY <1>2
<1>4. PICK p : p = Where(c)
  OBVIOUS
<1>5. /\ d.op = c.op /\ d.path = c.path /\ d.todo = Tail(c.todo)
      /\ catalog \in span
  BY DEF Follows, Catalogued
<1>6. ASSUME IsFacet(c)
      PROVE  FacetRead(d)
  <2>1. s \in LookupSteps \cup Needed(p.part)
                \cup IF p.part = "depends_on" THEN ViewSteps ELSE {}
    BY <1>1, <1>2, <1>4, <1>6, HeadOf
  <2>2. s \in Needed(p.part)
    BY <2>1 DEF LookupSteps, ViewSteps
  <2> QED
    BY <1>1, <1>2, <1>4, <1>5, <1>6, <2>2, FacetFollows
<1>7. ASSUME IsContent(c)
      PROVE  ContentRead(d)
  <2>1. s \notin Before(c)
    BY DEF Before, LookupSteps
  <2>2. /\ s \in Final(c)
        /\ c.op = "open" => c.data = NoData
    BY <1>1, <1>2, <1>7, <2>1, ContentFollows
  <2>3. p.kind # "definition" /\ p.part = "sql" /\ c.kind = "table"
    BY <1>4, <2>2 DEF Final
  <2>4. ASSUME c.op = "open"
        PROVE  d.data = Content(catalog, Normalize(c.path), c.kind)
    <3>1. PICK path : path = Normalize(c.path)
      OBVIOUS
    <3>2. p = Parts(path) /\ r = <<p.schema, p.relation>>
      BY <1>2, <1>4, <3>1, PathOf DEF Subject
    <3>3. Content(catalog, path, c.kind) =
            IF ~Exists(catalog, r) THEN NoData
            ELSE [NoData EXCEPT !.columns = catalog.relations[r].columns]
      BY <2>3, <3>2 DEF Content
    <3> QED
      BY <2>2, <2>4, <3>1, <3>3
  <2> QED
    BY <1>1, <1>2, <1>5, <1>7, <2>1, <2>4, ContentFollows
<1> QED
  BY <1>3, <1>6, <1>7, ReadSound DEF LookupSteps

\* The entries of depends_on as a definition gives them.
Dependents(r, mentions) == { DependsOnEntry(r, read) : read \in Dependencies(r, mentions) }

\* The definition of a view.
LEMMA ReadDefinitionSound ==
    ASSUME Catalogued, NEW c, Sound(c), c.result = "none", Head(c.todo) = "definition",
           NEW r, r = Subject(c), Exists(catalog, r), catalog.relations[r].kind = "view",
           NEW mentions, mentions = Mentions(r, catalog.relations[r]),
           NEW d, Follows(d, c), d.kind = c.kind, d.latest = c.latest,
           d.entries = Dependents(r, mentions),
           d.data = [c.data EXCEPT !.mentions = mentions]
    PROVE  Sound(Continue(d))
<1>1. c.op \in Reading
  BY Reads DEF LookupSteps
<1>2. /\ CallTyped(c) /\ c.todo # << >> /\ Underway(c) /\ Refusal(c.op, Where(c)) = "none"
      /\ c.data = [f \in {"columns", "mentions", "rows"} |-> c.data[f]]
  BY <1>1, Reader
<1>3. d.data = [f \in {"columns", "mentions", "rows"} |-> d.data[f]]
  BY <1>2
<1>4. PICK p : p = Where(c)
  OBVIOUS
<1>5. /\ d.op = c.op /\ d.path = c.path /\ d.todo = Tail(c.todo)
      /\ catalog \in span /\ IsCatalog(catalog)
  BY DEF Follows, Catalogued
<1>6. /\ \/ p.kind = "definition"
         \/ p.kind \in {"facet", "item"} /\ p.part = "depends_on"
         \/ p.kind = "data" /\ c.kind = "view"
  BY <1>1, <1>2, <1>4, ViewsOnly DEF ViewSteps
<1>7. ASSUME IsFacet(c)
      PROVE  FacetRead(d)
  <2>1. p.kind \in {"facet", "item"}
    BY <1>1, <1>2, <1>4, <1>7, Groups
  <2>2. Needed(p.part) = {"definition"}
    BY <1>6, <2>1 DEF Needed
  <2>3. Dependencies(r, mentions) = catalog.relations[r].reads
    <3>1. \A read \in catalog.relations[r].reads : read[2] # r[2]
      BY <1>5, RelationTyped
    <3> QED
      BY <3>1 DEF Dependencies, Mentions
  <2>4. d.entries = FacetNodes(catalog, r, "definition")
    BY <2>3 DEF FacetNodes, Dependents
  <2> QED
    BY <1>1, <1>2, <1>4, <1>5, <1>7, <2>2, <2>4, FacetFollows
<1>8. ASSUME IsContent(c)
      PROVE  ContentRead(d)
  <2>1. "definition" \notin Before(c)
    BY DEF Before, LookupSteps
  <2>2. /\ "definition" \in Final(c)
        /\ c.op = "open" => c.data = NoData
        /\ p.kind = "definition" => c.kind # "table"
    BY <1>1, <1>2, <1>4, <1>8, <2>1, ContentFollows
  <2>3. /\ p.kind \in {"data", "definition"}
        /\ p.kind = "definition" => p.part = NoPart
    BY <1>1, <1>2, <1>4, <1>8, Groups
  <2>4. c.kind # "table" /\ p.part \in {"", "sql"}
    BY <1>4, <1>6, <2>2, <2>3 DEF Final, NoPart
  <2>5. ASSUME c.op = "open"
        PROVE  d.data = Content(catalog, Normalize(c.path), c.kind)
    <3>1. PICK path : path = Normalize(c.path)
      OBVIOUS
    <3>2. p = Parts(path) /\ r = <<p.schema, p.relation>>
      BY <1>2, <1>4, <3>1, PathOf DEF Subject
    <3>3. Content(catalog, path, c.kind) = [NoData EXCEPT !.mentions = mentions]
      BY <2>4, <3>2 DEF Content
    <3> QED
      BY <2>2, <2>5, <3>1, <3>3
  <2> QED
    BY <1>1, <1>2, <1>5, <1>8, <2>1, <2>5, ContentFollows
<1> QED
  BY <1>3, <1>7, <1>8, ReadSound DEF LookupSteps

\* The rows of a relation.
LEMMA QueryRowsSound ==
    ASSUME Catalogued, NEW c, Sound(c), c.result = "none", Head(c.todo) = "query",
           NEW r, r = Subject(c), Exists(catalog, r),
           NEW d, Follows(d, c), d.kind = c.kind, d.latest = c.latest, d.entries = c.entries,
           d.data = [c.data EXCEPT !.rows = catalog.relations[r].rows]
    PROVE  Sound(Continue(d))
<1>1. c.op \in Reading
  BY Reads DEF LookupSteps
<1>2. /\ CallTyped(c) /\ c.todo # << >> /\ Underway(c) /\ Refusal(c.op, Where(c)) = "none"
      /\ c.data = [f \in {"columns", "mentions", "rows"} |-> c.data[f]]
  BY <1>1, Reader
<1>3. d.data = [f \in {"columns", "mentions", "rows"} |-> d.data[f]]
  BY <1>2
<1>4. PICK p : p = Where(c)
  OBVIOUS
<1>5. /\ d.op = c.op /\ d.path = c.path /\ d.todo = Tail(c.todo)
      /\ catalog \in span
  BY DEF Follows, Catalogued
<1>6. ~IsFacet(c)
  <2>1. SUFFICES ASSUME IsFacet(c) PROVE FALSE
    OBVIOUS
  <2>2. p.part \in Facets
    BY <1>1, <1>2, <1>4, <2>1, Groups
  <2>3. "query" \in LookupSteps \cup Needed(p.part)
                \cup IF p.part = "depends_on" THEN ViewSteps ELSE {}
    BY <1>1, <1>2, <1>4, <2>1, HeadOf
  <2> QED
    BY <2>2, <2>3 DEF LookupSteps, ViewSteps, Needed, Facets
<1>7. ASSUME IsContent(c)
      PROVE  ContentRead(d)
  <2>1. "query" \notin Before(c)
    BY DEF Before, LookupSteps
  <2>2. /\ "query" \in Final(c)
        /\ c.op = "open" => c.data = NoData
    BY <1>1, <1>2, <1>7, <2>1, ContentFollows
  <2>3. p.kind = "data" /\ p.part \in Formats \ {"sql"}
    <3>1. /\ p.kind \in {"data", "definition"}
          /\ p.kind = "data" => p.part \in Formats
      BY <1>1, <1>2, <1>4, <1>7, Groups
    <3> QED
      BY <1>4, <2>2, <3>1 DEF Final
  <2>4. ASSUME c.op = "open"
        PROVE  d.data = Content(catalog, Normalize(c.path), c.kind)
    <3>1. PICK path : path = Normalize(c.path)
      OBVIOUS
    <3>2. p = Parts(path) /\ r = <<p.schema, p.relation>>
      BY <1>2, <1>4, <3>1, PathOf DEF Subject
    <3>3. p.part \notin {"", "sql"}
      BY <2>3 DEF Formats
    <3>4. Content(catalog, path, c.kind) = [NoData EXCEPT !.rows = catalog.relations[r].rows]
      BY <3>2, <3>3 DEF Content
    <3> QED
      BY <2>2, <2>4, <3>1, <3>4
  <2> QED
    BY <1>1, <1>2, <1>5, <1>7, <2>1, <2>4, ContentFollows
<1> QED
  BY <1>3, <1>6, <1>7, ReadSound DEF LookupSteps

\* Nor the rows of what cannot be read.
LEMMA QueryFails ==
    ASSUME Catalogued, NEW c, Sound(c), c.result = "none", Head(c.todo) = "query",
           ~Works(catalog, Subject(c)), NEW error \in Results \ {"none", "ok"}
    PROVE  Sound(Failed(c, error))
<1>1. c.op \in Reading
  BY Reads DEF LookupSteps
<1>2. CallTyped(c) /\ c.todo # << >> /\ Underway(c) /\ Refusal(c.op, Where(c)) = "none"
  BY <1>1, Reader
<1>3. PICK p : p = Where(c)
  OBVIOUS
<1>4. OfRelation(c) /\ ~IsLookup(c)
  BY <1>1, <1>2, HeadOf DEF LookupSteps
<1>5. ~IsFacet(c)
  <2>1. SUFFICES ASSUME IsFacet(c) PROVE FALSE
    OBVIOUS
  <2>2. p.part \in Facets
    BY <1>1, <1>2, <1>3, <2>1, Groups
  <2>3. "query" \in LookupSteps \cup Needed(p.part)
                \cup IF p.part = "depends_on" THEN ViewSteps ELSE {}
    BY <1>1, <1>2, <1>3, <2>1, HeadOf
  <2> QED
    BY <2>2, <2>3 DEF LookupSteps, ViewSteps, Needed, Facets
<1>6. IsContent(c)
  BY <1>1, <1>2, <1>4, <1>5, Groups
<1>7. "query" \in Final(c)
  BY <1>1, <1>2, <1>6, HeadOf DEF Before, LookupSteps
<1>8. p.kind = "data" /\ c.op = "open" /\ p.part # "sql"
  BY <1>1, <1>2, <1>3, <1>6, <1>7, Groups DEF Final
<1>9. Unserved(c)
  BY <1>2, <1>3, <1>4, <1>8, Broken DEF ReadsRelation
<1> QED
  BY <1>1, <1>2, <1>9, FailureSound

\* The statements for the SQL of a view, and of a table.
LEMMA SqlPlans ==
    /\ ViewDefinition \in Seq(Steps) /\ ViewDefinition # << >> /\ Last(ViewDefinition) = "definition"
    /\ \A i \in 1 .. Len(ViewDefinition) - 1 : ViewDefinition[i] = "view"
    /\ Items("columns") \in Seq(Steps) /\ Items("columns") # << >> /\ Last(Items("columns")) = "columns"
    /\ \A i \in 1 .. Len(Items("columns")) - 1 : Items("columns")[i] \in LookupSteps
<1>1. /\ ViewDefinition \in Seq(Steps) /\ ViewDefinition # << >> /\ Last(ViewDefinition) = "definition"
      /\ \A i \in 1 .. Len(ViewDefinition) - 1 : ViewDefinition[i] = "view"
  BY DEF ViewDefinition, Last, Steps
<1>2. Items("columns") = Lookup \o <<"columns">>
  BY DEF Items
<1>3. CASE sqlite
  <2>1. PICK plan : plan = <<"relation", "count", "columns">>
    OBVIOUS
  <2>2. plan = Items("columns")
    BY <1>2, <1>3, <2>1 DEF Lookup
  <2>3. /\ plan \in Seq(Steps) /\ plan # << >> /\ Last(plan) = "columns"
        /\ \A i \in 1 .. Len(plan) - 1 : plan[i] \in LookupSteps
    BY <1>3, <2>1 DEF Last, Steps, LookupSteps
  <2> QED
    BY <1>1, <2>2, <2>3, Zenon
<1>4. CASE ~sqlite
  <2>1. PICK plan : plan = <<"relation", "columns">>
    OBVIOUS
  <2>2. plan = Items("columns")
    BY <1>2, <1>4, <2>1 DEF Lookup
  <2>3. /\ plan \in Seq(Steps) /\ plan # << >> /\ Last(plan) = "columns"
        /\ \A i \in 1 .. Len(plan) - 1 : plan[i] \in LookupSteps
    BY <2>1 DEF Last, Steps, LookupSteps
  <2> QED
    BY <1>1, <2>2, <2>3, Zenon
<1> QED
  BY <1>3, <1>4

\* ddl_sql, which goes on with the statements of a view or of a table.
LEMMA DdlSqlSound ==
    ASSUME Catalogued, NEW c, Sound(c), c.result = "none", Head(c.todo) = "ddl",
           NEW d, d = [f \in Fields |-> d[f]], d.op = c.op, d.path = c.path, d.result = "none",
           d.kind = c.kind, d.latest = c.latest, d.entries = c.entries, d.data = c.data,
           d.todo = IF c.kind = "view" THEN ViewDefinition ELSE Items("columns")
    PROVE  Sound(d)
<1>1. c.op \in Reading
  BY Reads DEF LookupSteps
<1>2. /\ CallTyped(c) /\ c.todo # << >> /\ Underway(c) /\ Refusal(c.op, Where(c)) = "none"
      /\ c.data = [f \in {"columns", "mentions", "rows"} |-> c.data[f]]
  BY <1>1, Reader
<1>3. PICK p : p = Where(c)
  OBVIOUS
<1>4. OfRelation(c) /\ ~IsLookup(c) /\ ~IsFacet(c) /\ IsContent(c)
  <2>1. OfRelation(c) /\ ~IsLookup(c)
    BY <1>1, <1>2, HeadOf DEF LookupSteps
  <2>2. ~IsFacet(c)
    <3>1. SUFFICES ASSUME IsFacet(c) PROVE FALSE
      OBVIOUS
    <3>2. p.part \in Facets
      BY <1>1, <1>2, <1>3, <3>1, Groups
    <3>3. "ddl" \in LookupSteps \cup Needed(p.part)
                  \cup IF p.part = "depends_on" THEN ViewSteps ELSE {}
      BY <1>1, <1>2, <1>3, <3>1, HeadOf
    <3> QED
      BY <3>2, <3>3 DEF LookupSteps, ViewSteps, Needed, Facets
  <2> QED
    BY <1>1, <1>2, <2>1, <2>2, Groups
<1>5. "ddl" \notin Before(c)
  BY DEF Before, LookupSteps
<1>6. "ddl" \in Final(c) /\ (c.op = "open" => c.data = NoData)
  BY <1>1, <1>2, <1>4, <1>5, ContentFollows
<1>7. p.kind # "definition" /\ p.part = "sql"
  BY <1>3, <1>6 DEF Final
<1>8. c.kind # "" /\ KindSeen(d)
  <2>1. KindSeen(c)
    BY <1>2, <1>4 DEF Underway
  <2> QED
    BY <2>1, KindKnown
<1>9. c.kind \in {"table", "view"}
  BY <1>2, <1>8 DEF CallTyped
<1>10. Where(d) = p
  BY <1>3 DEF Where
<1>11. /\ d.todo \in Seq(Steps) /\ d.todo # << >> /\ Last(d.todo) \in Final(d)
       /\ \A i \in 1 .. Len(d.todo) - 1 : d.todo[i] \in Before(d)
  <2>1. CASE c.kind = "view"
    <3>1. d.todo = ViewDefinition
      BY <2>1
    <3>2. "definition" \in Final(d) /\ "view" \in Before(d)
      BY <1>7, <1>10, <2>1 DEF Final, Before
    <3> QED
      BY <3>1, <3>2, SqlPlans, Zenon
  <2>2. CASE c.kind = "table"
    <3>1. d.todo = Items("columns")
      BY <2>2
    <3>2. "columns" \in Final(d) /\ LookupSteps \subseteq Before(d)
      BY <1>7, <1>10, <2>2 DEF Final, Before
    <3> QED
      BY <3>1, <3>2, SqlPlans, Zenon
  <2> QED
    BY <1>9, <2>1, <2>2
<1>12. CallTyped(d)
  BY <1>2, <1>11 DEF CallTyped
<1>13. ContentRead(d)
  BY <1>6, <1>7, <1>10, <1>11 DEF ContentRead
<1>14. p.kind \notin {"root", "schema"}
  BY <1>3, <1>4 DEF OfRelation
<1>15. Underway(d)
  BY <1>2, <1>3, <1>4, <1>8, <1>13, <1>14, UnderwayBy
<1>16. Continue(d) = d
  BY <1>11 DEF Continue
<1> QED
  BY <1>1, <1>12, <1>15, <1>16, ContinueSound

-----------------------------------------------------------------------------
(***************************************************************************)
(* What stays so                                                           *)
(***************************************************************************)

\* What a file holds is for its path and the catalog to say, and Needed for
\* the database.
LEMMA ContentKept ==
    ASSUME sqlite' = sqlite, NEW k, NEW path, NEW kind
    PROVE  Content(k, path, kind)' = Content(k, path, kind)
  BY DEF Content, Mentions

\* The statements of a facet do not change.
LEMMA NeededKept ==
    ASSUME sqlite' = sqlite, NEW facet
    PROVE  Needed(facet)' = Needed(facet)
  BY DEF Needed

\* Nor those of a lookup.
LEMMA LookupKept ==
    ASSUME sqlite' = sqlite
    PROVE  LookupSteps' = LookupSteps
  BY DEF LookupSteps

\* What has been seen has been seen when another connection changes the
\* catalog, too.
LEMMA FacetKept ==
    ASSUME NEW c, FacetRead(c), sqlite' = sqlite, span \subseteq span', NEW k0 \in span
    PROVE  FacetRead(c)'
<1>1. PICK p, r : p = Where(c) /\ r = Subject(c)
  OBVIOUS
<1>2. PICK needed : needed = Needed(p.part) /\ needed = Needed(p.part)'
  BY NeededKept
<1>3. /\ \A i \in DOMAIN c.todo :
            c.todo[i] \in LookupSteps \cup needed \cup IF p.part = "depends_on" THEN ViewSteps ELSE {}
      /\ \A n \in c.entries : \E k \in span, s \in needed : n \in FacetNodes(k, r, s)
      /\ \A s \in needed :
            \/ \E i \in DOMAIN c.todo : c.todo[i] = s
            \/ \A k \in span : \A n \in FacetNodes(k, r, s) :
                  (\A k2 \in span : n \in FacetNodes(k2, r, s)) => n \in c.entries
  BY <1>1, <1>2 DEF FacetRead
<1>4. \A n \in c.entries : \E k \in span', s \in needed : n \in FacetNodes(k, r, s)
  BY <1>3
<1>5. ASSUME NEW s \in needed
      PROVE  \/ \E i \in DOMAIN c.todo : c.todo[i] = s
             \/ \A k \in span' : \A n \in FacetNodes(k, r, s) :
                   (\A k2 \in span' : n \in FacetNodes(k2, r, s)) => n \in c.entries
  <2>1. ASSUME NEW n, \A k2 \in span' : n \in FacetNodes(k2, r, s),
               \A k \in span : \A n2 \in FacetNodes(k, r, s) :
                  (\A k2 \in span : n2 \in FacetNodes(k2, r, s)) => n2 \in c.entries
        PROVE  n \in c.entries
    BY <2>1
  <2> QED
    BY <1>3, <2>1
<1> QED
  BY <1>1, <1>2, <1>3, <1>4, <1>5, LookupKept DEF FacetRead

\* The same for a content.
LEMMA ContentReadKept ==
    ASSUME NEW c, ContentRead(c), sqlite' = sqlite, span \subseteq span'
    PROVE  ContentRead(c)'
<1>1. ASSUME c.op = "open", c.todo = << >>
      PROVE  \E k \in span' : c.data = Content(k, Normalize(c.path), c.kind)'
  <2>1. PICK k \in span : c.data = Content(k, Normalize(c.path), c.kind)
    BY <1>1 DEF ContentRead
  <2> QED
    BY <2>1, ContentKept
<1>2. /\ c.todo # << >> =>
          /\ c.op = "open" => c.data = NoData
          /\ Last(c.todo) \in Final(c)
          /\ \A i \in 1 .. Len(c.todo) - 1 : c.todo[i] \in Before(c)
      /\ Where(c).kind = "definition" => c.kind # "table"
  BY DEF ContentRead
<1>3. Before(c)' = Before(c)
  BY LookupKept DEF Before
<1> QED
  BY <1>1, <1>2, <1>3 DEF ContentRead

\* So what a call has done stays right.
LEMMA UnderwayKept ==
    ASSUME NEW c, Underway(c), sqlite' = sqlite, span \subseteq span', NEW k0 \in span
    PROVE  Underway(c)'
<1>1. OfRelation(c) => KindSeen(c)'
  BY DEF Underway, KindSeen
<1>2. Where(c).kind = "root" => RootRead(c)'
  <2>1. SUFFICES ASSUME RootRead(c) PROVE RootRead(c)'
    BY DEF Underway
  <2>2. ASSUME NEW k \in span, c.entries = { SchemaInfo(s) : s \in k.schemas }
        PROVE  \E k2 \in span' : c.entries = { SchemaInfo(s) : s \in k2.schemas }
    BY <2>2
  <2> QED
    BY <2>1, <2>2 DEF RootRead
<1>3. Where(c).kind = "schema" => SchemaRead(c)'
  <2>1. SUFFICES ASSUME SchemaRead(c) PROVE SchemaRead(c)'
    BY DEF Underway
  <2> DEFINE InSchema(k) == { RelationInfo(r, k.relations[r].kind) :
                                r \in { x \in DOMAIN k.relations : x[1] = Where(c).schema } }
  <2>2. ASSUME NEW k \in span, c.entries = InSchema(k)
        PROVE  \E k2 \in span' : c.entries = InSchema(k2)
    BY <2>2, Zenon
  <2>3. ASSUME NEW k \in span, Where(c).schema \in k.schemas
        PROVE  \E k2 \in span' : Where(c).schema \in k2.schemas
    BY <2>3
  <2> QED
    BY <2>1, <2>2, <2>3, Zenon DEF SchemaRead
<1>4. IsLookup(c) => LookupRead(c)'
  BY LookupKept DEF Underway, LookupRead
<1>5. IsFacet(c) => FacetRead(c)'
  BY FacetKept DEF Underway
<1>6. IsContent(c) => ContentRead(c)'
  BY ContentReadKept DEF Underway
<1>7. Refusal(c.op, Where(c)) = "none"
  BY DEF Underway
<1> QED
  BY <1>1, <1>2, <1>3, <1>4, <1>5, <1>6, <1>7 DEF Underway

\* And an answer stays what it is until the caller takes it.
LEMMA AnsweredKept ==
    ASSUME NEW c, Answered(c), sqlite' = sqlite, span' = span
    PROVE  Answered(c)'
<1>1. ASSUME c.result = "ok", c.op = "open"
      PROVE  \E k \in span' : c.data = Content(k, Normalize(c.path), c.kind)'
  <2>1. PICK k \in span : c.data = Content(k, Normalize(c.path), c.kind)
    BY <1>1 DEF Answered
  <2> QED
    BY <2>1, ContentKept
<1> QED
  BY <1>1 DEF Answered, Serves, ReadsRelation

\* A list, an answer and a failure stay right while no catalog comes.
LEMMA ListingKept ==
    ASSUME NEW c, Listing(c), span' = span
    PROVE  Listing(c)'
  BY DEF Listing

\* Failures as well.
LEMMA UnservedKept ==
    ASSUME NEW c, Unserved(c), sqlite' = sqlite, span' = span
    PROVE  Unserved(c)'
  BY DEF Unserved, Serves, ReadsRelation

\* So a call stays sound that another connection does not see, and no other
\* changes the catalog but during a call.
LEMMA SoundKept ==
    ASSUME Catalogued, NEW c, Sound(c), sqlite' = sqlite, span \subseteq span',
           c.op = "rm" /\ c.result = "none" => changes' <= MaxChanges,
           span' = span \/ c.result = "none" \/ c.op \notin Reading
    PROVE  Sound(c)'
<1>1. catalog \in span
  BY DEF Catalogued
<1>2. CallTyped(c) /\ c.op \in Reading \cup {"none", "mkdir", "mv", "rm"}
      /\ c.result \in Results /\ (c.result = "none" <=> c.todo # << >>)
      /\ (c.op \in {"none", "mkdir", "mv"} => c.result # "none")
  BY DEF Sound
<1>3. c.op \in Reading /\ c.result = "none" => Underway(c)'
  BY <1>1, UnderwayKept DEF Sound
<1>4. c.op = "rm" /\ c.result = "none" => Removing(c)'
  BY LookupKept DEF Sound, Removing
<1>5. ASSUME c.op \in Reading, c.result # "none"
      PROVE  Listing(c)' /\ Answered(c)' /\ (c.result # "ok" => Unserved(c)')
  <2>1. Listing(c) /\ Answered(c) /\ (c.result # "ok" => Unserved(c))
    BY <1>5 DEF Sound
  <2>2. span' = span
    BY <1>5
  <2> QED
    BY <2>1, <2>2, ListingKept, AnsweredKept, UnservedKept
<1> QED
  BY <1>2, <1>3, <1>4, <1>5 DEF Sound

-----------------------------------------------------------------------------
(***************************************************************************)
(* Changes of a catalog                                                    *)
(***************************************************************************)

\* What a relation of a catalog may be; its rows may be gone.
IsBody(b) == \E body \in Bodies : b = [body EXCEPT !.rows = b.rows]

\* What is created is such a body.
LEMMA BodyIsBody ==
    ASSUME NEW body \in Bodies
    PROVE  IsBody(body)
<1>1. body \in [kind : {"table", "view"}, columns : SUBSET Seq(STRING),
                indexes : SUBSET Seq(STRING), keys : SUBSET Seq(STRING),
                references : SUBSET Seq(STRING), reads : SUBSET Relations, rows : BOOLEAN]
  BY BodiesAssumption
<1>2. body = [body EXCEPT !.rows = body.rows]
  BY <1>1
<1> QED
  BY <1>2 DEF IsBody

\* So is a relation without its rows.
LEMMA EmptiedBody ==
    ASSUME NEW k, IsCatalog(k), NEW r, Exists(k, r), NEW b, b = [k.relations[r] EXCEPT !.rows = FALSE]
    PROVE  IsBody(b) /\ Fits(r, b)
<1>1. PICK body \in Bodies : k.relations[r] = [body EXCEPT !.rows = k.relations[r].rows]
  BY DEF IsCatalog, Exists
<1>2. body \in [kind : {"table", "view"}, columns : SUBSET Seq(STRING),
                indexes : SUBSET Seq(STRING), keys : SUBSET Seq(STRING),
                references : SUBSET Seq(STRING), reads : SUBSET Relations, rows : BOOLEAN]
  BY BodiesAssumption
<1>3. b = [body EXCEPT !.rows = FALSE] /\ b.rows = FALSE /\ b.reads = k.relations[r].reads
  <2>1. PICK old : old = k.relations[r]
    OBVIOUS
  <2>2. PICK rows : rows = old.rows
    OBVIOUS
  <2>3. old = [body EXCEPT !.rows = rows] /\ b = [old EXCEPT !.rows = FALSE]
    BY <1>1, <2>1, <2>2
  <2> QED
    BY <1>2, <2>1, <2>3
<1>4. Fits(r, k.relations[r])
  BY DEF IsCatalog, Exists
<1> QED
  BY <1>3, <1>4 DEF IsBody, Fits

\* What a catalog is, from what it has.
LEMMA CatalogOf ==
    ASSUME NEW k, k = [schemas |-> k.schemas, relations |-> k.relations],
           k.schemas \subseteq Schemas,
           k.relations = [r \in DOMAIN k.relations |-> k.relations[r]],
           \A r \in DOMAIN k.relations :
              r \in k.schemas \X Names /\ Fits(r, k.relations[r]) /\ IsBody(k.relations[r])
    PROVE  IsCatalog(k)
  BY DEF IsCatalog, IsBody

\* And the other way round.
LEMMA CatalogHas ==
    ASSUME NEW k, IsCatalog(k)
    PROVE  /\ k = [schemas |-> k.schemas, relations |-> k.relations]
           /\ k.schemas \subseteq Schemas
           /\ k.relations = [r \in DOMAIN k.relations |-> k.relations[r]]
           /\ \A r \in DOMAIN k.relations :
                r \in k.schemas \X Names /\ Fits(r, k.relations[r]) /\ IsBody(k.relations[r])
  BY DEF IsCatalog, IsBody

\* A catalog stays one when a relation is put into it.
LEMMA PutIsCatalog ==
    ASSUME NEW k, IsCatalog(k), NEW r, r \in k.schemas \X Names, NEW b, IsBody(b), Fits(r, b),
           NEW new, new = Put(k, r, b)
    PROVE  /\ IsCatalog(new) /\ new.schemas = k.schemas
           /\ DOMAIN new.relations = DOMAIN k.relations \cup {r}
           /\ new.relations[r] = b
<1>1. PICK schemas, relations : schemas = k.schemas /\ relations = k.relations
  OBVIOUS
<1>2. /\ k = [schemas |-> schemas, relations |-> relations] /\ schemas \subseteq Schemas
      /\ \A x \in DOMAIN relations :
            x \in schemas \X Names /\ Fits(x, relations[x]) /\ IsBody(relations[x])
  BY <1>1, CatalogHas
<1>3. PICK more : more = [x \in DOMAIN relations \cup {r} |-> IF x = r THEN b ELSE relations[x]]
  OBVIOUS
<1>4. new = [schemas |-> schemas, relations |-> more]
  BY <1>2, <1>3 DEF Put
<1>5. new.schemas = schemas /\ new.relations = more
  BY <1>4
<1>6. /\ DOMAIN more = DOMAIN relations \cup {r} /\ more[r] = b
      /\ \A x \in DOMAIN more : more[x] = IF x = r THEN b ELSE relations[x]
      /\ more = [x \in DOMAIN more |-> more[x]]
  BY <1>3
<1>7. \A x \in DOMAIN more : x \in schemas \X Names /\ Fits(x, more[x]) /\ IsBody(more[x])
  BY <1>1, <1>2, <1>6
<1>8. IsCatalog(new)
  BY <1>2, <1>4, <1>5, <1>6, <1>7, CatalogOf
<1> QED
  BY <1>1, <1>5, <1>6, <1>8

\* And when relations are dropped.
LEMMA WithoutIsCatalog ==
    ASSUME NEW k, IsCatalog(k), NEW gone, NEW new, new = Without(k, gone)
    PROVE  /\ IsCatalog(new) /\ new.schemas = k.schemas
           /\ DOMAIN new.relations = DOMAIN k.relations \ gone
<1>1. PICK schemas, relations : schemas = k.schemas /\ relations = k.relations
  OBVIOUS
<1>2. /\ k = [schemas |-> schemas, relations |-> relations] /\ schemas \subseteq Schemas
      /\ \A x \in DOMAIN relations :
            x \in schemas \X Names /\ Fits(x, relations[x]) /\ IsBody(relations[x])
  BY <1>1, CatalogHas
<1>3. PICK fewer : fewer = [x \in DOMAIN relations \ gone |-> relations[x]]
  OBVIOUS
<1>4. new = [schemas |-> schemas, relations |-> fewer]
  BY <1>2, <1>3 DEF Without
<1>5. new.schemas = schemas /\ new.relations = fewer
  BY <1>4
<1>6. /\ DOMAIN fewer = DOMAIN relations \ gone
      /\ \A x \in DOMAIN fewer : fewer[x] = relations[x]
      /\ fewer = [x \in DOMAIN fewer |-> fewer[x]]
  BY <1>3
<1>7. \A x \in DOMAIN fewer : x \in schemas \X Names /\ Fits(x, fewer[x]) /\ IsBody(fewer[x])
  BY <1>2, <1>6
<1>8. IsCatalog(new)
  BY <1>2, <1>4, <1>5, <1>6, <1>7, CatalogOf
<1> QED
  BY <1>1, <1>5, <1>6, <1>8

\* A schema may come, or go if nothing is left in it.
LEMMA SchemasIsCatalog ==
    ASSUME NEW k, IsCatalog(k), NEW schemas \in SUBSET Schemas,
           \A r \in DOMAIN k.relations : r \in schemas \X Names,
           NEW new, new = [k EXCEPT !.schemas = schemas]
    PROVE  IsCatalog(new)
<1>1. PICK old, relations : old = k.schemas /\ relations = k.relations
  OBVIOUS
<1>2. /\ k = [schemas |-> old, relations |-> relations]
      /\ relations = [x \in DOMAIN relations |-> relations[x]]
      /\ \A x \in DOMAIN relations : Fits(x, relations[x]) /\ IsBody(relations[x])
  BY <1>1, CatalogHas
<1>3. new = [schemas |-> schemas, relations |-> relations]
  BY <1>2
<1>4. new.schemas = schemas /\ new.relations = relations
  BY <1>3
<1> QED
  BY <1>1, <1>2, <1>3, <1>4, CatalogOf

\* What another connection makes of a catalog is one.
LEMMA ChangedIsCatalog ==
    ASSUME Catalogued, Change
    PROVE  /\ IsCatalog(catalog') /\ catalog' \in span' /\ catalog' \in past'
           /\ span' \subseteq span \cup {catalog'} /\ past' = past \cup {catalog'}
           /\ changes' = changes + 1 /\ changes < MaxChanges
           /\ span' = (IF Idle THEN {catalog'} ELSE span \cup {catalog'})
           /\ foreign' = TRUE /\ sqlite' = sqlite /\ call' = call /\ (Idle \/ ~Done)
<1>1. IsCatalog(catalog) /\ catalog.schemas \subseteq Schemas
      /\ (\A r \in DOMAIN catalog.relations : r \in catalog.schemas \X Names)
  BY CatalogHas DEF Catalogued
<1>2. PICK new : Becomes(new) /\ IsCatalog(new)
  <2>1. CASE \E r \in Relations, body \in Bodies :
               r[1] \in catalog.schemas /\ Fits(r, body) /\ Becomes(Put(catalog, r, body))
    <3>1. PICK r \in Relations, body \in Bodies :
             r[1] \in catalog.schemas /\ Fits(r, body) /\ Becomes(Put(catalog, r, body))
      BY <2>1
    <3>2. r \in catalog.schemas \X Names
      BY <3>1 DEF Relations
    <3>3. IsBody(body)
      BY BodyIsBody
    <3> QED
      BY <1>1, <3>1, <3>2, <3>3, PutIsCatalog
  <2>2. CASE \E r \in DOMAIN catalog.relations : Becomes(Without(catalog, {r}))
    BY <1>1, <2>2, WithoutIsCatalog
  <2>3. CASE \E s \in Schemas : Becomes([catalog EXCEPT !.schemas = @ \cup {s}])
    <3>1. PICK s \in Schemas : Becomes([catalog EXCEPT !.schemas = @ \cup {s}])
      BY <2>3
    <3>2. PICK schemas : schemas = catalog.schemas \cup {s}
      OBVIOUS
    <3>3. Becomes([catalog EXCEPT !.schemas = schemas])
      BY <3>1, <3>2
    <3>4. schemas \in SUBSET Schemas /\ \A r \in DOMAIN catalog.relations : r \in schemas \X Names
      BY <1>1, <3>2
    <3> QED
      BY <1>1, <3>3, <3>4, SchemasIsCatalog
  <2>4. CASE \E s \in catalog.schemas :
               Becomes([Without(catalog, {s} \X Names) EXCEPT !.schemas = @ \ {s}])
    <3>1. PICK s \in catalog.schemas :
               Becomes([Without(catalog, {s} \X Names) EXCEPT !.schemas = @ \ {s}])
      BY <2>4
    <3>2. PICK rest : rest = Without(catalog, {s} \X Names)
      OBVIOUS
    <3>3. /\ IsCatalog(rest) /\ rest.schemas = catalog.schemas
          /\ DOMAIN rest.relations = DOMAIN catalog.relations \ ({s} \X Names)
      BY <1>1, <3>2, WithoutIsCatalog
    <3>4. PICK schemas : schemas = rest.schemas \ {s}
      OBVIOUS
    <3>5. Becomes([rest EXCEPT !.schemas = schemas])
      BY <3>1, <3>2, <3>4
    <3>6. schemas \in SUBSET Schemas /\ \A r \in DOMAIN rest.relations : r \in schemas \X Names
      BY <1>1, <3>3, <3>4
    <3> QED
      BY <3>3, <3>5, <3>6, SchemasIsCatalog
  <2> QED
    BY <2>1, <2>2, <2>3, <2>4 DEF Change
<1>3. /\ catalog' = new /\ changes' = changes + 1
      /\ span' = IF Idle THEN {new} ELSE span \cup {new}
  BY <1>2 DEF Becomes
<1>4. /\ changes < MaxChanges /\ (Idle \/ ~Done) /\ past' = past \cup {catalog'} /\ foreign' = TRUE
      /\ sqlite' = sqlite /\ call' = call
  BY DEF Change
<1> QED
  BY <1>2, <1>3, <1>4

-----------------------------------------------------------------------------
(***************************************************************************)
(* Calls                                                                   *)
(***************************************************************************)

\* One plan after another.
Joins(plan, first, second) ==
    /\ plan \in Seq(Steps) /\ plan # << >> /\ Head(plan) = Head(first)
    /\ \A i \in DOMAIN plan : \/ \E j \in DOMAIN first : plan[i] = first[j]
                              \/ \E j \in DOMAIN second : plan[i] = second[j]
    /\ \A j \in DOMAIN second : \E i \in DOMAIN plan : plan[i] = second[j]
    /\ Len(second) = 1 =>
         /\ Last(plan) = second[1]
         /\ \A i \in 1 .. Len(plan) - 1 : i \in DOMAIN first /\ plan[i] = first[i]

\* Its first step is that of the first, and its steps are those of both.
LEMMA Joined ==
    ASSUME NEW first \in Seq(Steps), first # << >>, NEW second \in Seq(Steps)
    PROVE  Joins(first \o second, first, second)
<1>p. PICK plan : plan = first \o second
  OBVIOUS
<1>1. /\ plan \in Seq(Steps) /\ Len(plan) = Len(first) + Len(second)
      /\ Len(first) \in Nat \ {0} /\ Len(second) \in Nat
      /\ \A i \in 1 .. Len(plan) : plan[i] = IF i <= Len(first) THEN first[i] ELSE second[i - Len(first)]
  <2>1. /\ first \o second \in Seq(Steps) /\ Len(first \o second) = Len(first) + Len(second)
        /\ \A i \in 1 .. Len(first) + Len(second) :
              (first \o second)[i] = IF i <= Len(first) THEN first[i] ELSE second[i - Len(first)]
    BY ConcatProperties
  <2>2. Len(first) \in Nat \ {0} /\ Len(second) \in Nat
    BY EmptySeq
  <2> QED
    BY <1>p, <2>1, <2>2
<1>2. /\ DOMAIN plan = 1 .. Len(plan) /\ DOMAIN first = 1 .. Len(first)
      /\ DOMAIN second = 1 .. Len(second)
  BY <1>1
<1>3. plan # << >> /\ Head(plan) = plan[1] /\ Head(first) = first[1]
  BY <1>1
<1>4. ASSUME NEW i \in DOMAIN plan
      PROVE  \/ \E j \in DOMAIN first : plan[i] = first[j]
             \/ \E j \in DOMAIN second : plan[i] = second[j]
  <2>1. CASE i <= Len(first)
    BY <1>1, <1>2, <2>1
  <2>2. CASE ~ (i <= Len(first))
    <3>1. i - Len(first) \in DOMAIN second /\ plan[i] = second[i - Len(first)]
      BY <1>1, <1>2, <2>2
    <3> QED
      BY <3>1
  <2> QED
    BY <2>1, <2>2
<1>5. ASSUME NEW j \in DOMAIN second
      PROVE  \E i \in DOMAIN plan : plan[i] = second[j]
  <2>1. Len(first) + j \in DOMAIN plan /\ plan[Len(first) + j] = second[j]
    BY <1>1, <1>2
  <2> QED
    BY <2>1
<1>6. ASSUME Len(second) = 1
      PROVE  /\ Last(plan) = second[1]
             /\ \A i \in 1 .. Len(plan) - 1 : i \in DOMAIN first /\ plan[i] = first[i]
  BY <1>1, <1>2, <1>6 DEF Last
<1>7. Head(plan) = Head(first)
  BY <1>1, <1>3
<1>8. Joins(plan, first, second)
  BY <1>1, <1>3, <1>4, <1>5, <1>6, <1>7, Zenon DEF Joins
<1> QED
  BY <1>p, <1>8

\* The statements of a lookup, of a definition, and of a content.
LEMMA ShortPlans ==
    /\ Lookup \in Seq(Steps) /\ Lookup # << >> /\ Head(Lookup) = "relation"
    /\ \A i \in DOMAIN Lookup : Lookup[i] \in LookupSteps
    /\ Head(ViewDefinition) = "view"
    /\ \A s \in {"ddl", "query", "drop"} :
          /\ Lookup \o <<s>> \in Seq(Steps) /\ Lookup \o <<s>> # << >>
          /\ Head(Lookup \o <<s>>) = "relation" /\ Last(Lookup \o <<s>>) = s
          /\ \A i \in 1 .. Len(Lookup \o <<s>>) - 1 : (Lookup \o <<s>>)[i] \in LookupSteps
<1>1. Head(ViewDefinition) = "view"
  BY DEF ViewDefinition
<1>2. Lookup \in Seq(Steps) /\ Lookup # << >> /\ Head(Lookup) = "relation"
      /\ \A i \in DOMAIN Lookup : Lookup[i] \in LookupSteps
  <2>1. CASE sqlite
    <3>1. PICK plan : plan = <<"relation", "count">>
      OBVIOUS
    <3>2. plan = Lookup
      BY <2>1, <3>1 DEF Lookup
    <3>3. plan \in Seq(Steps) /\ plan # << >> /\ Head(plan) = "relation"
          /\ \A i \in DOMAIN plan : plan[i] \in LookupSteps
      BY <2>1, <3>1 DEF Steps, LookupSteps
    <3> QED
      BY <3>2, <3>3, Zenon
  <2>2. CASE ~sqlite
    <3>1. PICK plan : plan = <<"relation">>
      OBVIOUS
    <3>2. plan = Lookup
      BY <2>2, <3>1 DEF Lookup
    <3>3. plan \in Seq(Steps) /\ plan # << >> /\ Head(plan) = "relation"
          /\ \A i \in DOMAIN plan : plan[i] \in LookupSteps
      BY <3>1 DEF Steps, LookupSteps
    <3> QED
      BY <3>2, <3>3, Zenon
  <2> QED
    BY <2>1, <2>2
<1>3. ASSUME NEW s \in {"ddl", "query", "drop"}
      PROVE  /\ Lookup \o <<s>> \in Seq(Steps) /\ Lookup \o <<s>> # << >>
             /\ Head(Lookup \o <<s>>) = "relation" /\ Last(Lookup \o <<s>>) = s
             /\ \A i \in 1 .. Len(Lookup \o <<s>>) - 1 : (Lookup \o <<s>>)[i] \in LookupSteps
  <2>1. PICK plan, second : second = <<s>> /\ plan = Lookup \o second
    OBVIOUS
  <2>2. second \in Seq(Steps) /\ Len(second) = 1 /\ second[1] = s
    <3>1. s \in Steps
      BY DEF Steps
    <3> QED
      BY <2>1, <3>1, OneStep, Zenon
  <2>3. /\ plan \in Seq(Steps) /\ plan # << >> /\ Head(plan) = "relation" /\ Last(plan) = s
        /\ \A i \in 1 .. Len(plan) - 1 : i \in DOMAIN Lookup /\ plan[i] = Lookup[i]
    <3>1. /\ plan \in Seq(Steps) /\ plan # << >> /\ Head(plan) = Head(Lookup)
          /\ Len(second) = 1 =>
                /\ Last(plan) = second[1]
                /\ \A i \in 1 .. Len(plan) - 1 : i \in DOMAIN Lookup /\ plan[i] = Lookup[i]
      <4>1. Lookup \in Seq(Steps) /\ Lookup # << >> /\ second \in Seq(Steps) /\ plan = Lookup \o second
        BY <1>2, <2>1, <2>2, Zenon
      <4>2. Joins(plan, Lookup, second)
        BY <4>1, Joined
      <4> QED
        BY <4>2, Zenon DEF Joins
    <3> QED
      BY <1>2, <2>2, <3>1, Zenon
  <2>4. \A i \in 1 .. Len(plan) - 1 : plan[i] \in LookupSteps
    BY <1>2, <2>3
  <2> QED
    BY <2>1, <2>3, <2>4, Zenon
<1> QED
  BY <1>1, <1>2, <1>3

\* Those of a facet: each is one that it needs, or takes to find the
\* relation, and it makes all that it needs.
FacetPlan(plan, facet) ==
    /\ plan \in Seq(Steps) /\ plan # << >>
    /\ \A i \in DOMAIN plan :
          plan[i] \in LookupSteps \cup Needed(facet) \cup IF facet = "depends_on" THEN ViewSteps ELSE {}
    /\ \A s \in Needed(facet) : \E i \in DOMAIN plan : plan[i] = s

\* After the lookup it is still one.
LEMMA LookupFirst ==
    ASSUME NEW facet, NEW second, FacetPlan(second, facet), NEW plan, plan = Lookup \o second
    PROVE  FacetPlan(plan, facet) /\ Head(plan) = "relation"
<1>1. second \in Seq(Steps)
  BY DEF FacetPlan
<1>2. Lookup \in Seq(Steps) /\ Lookup # << >> /\ Head(Lookup) = "relation"
      /\ \A i \in DOMAIN Lookup : Lookup[i] \in LookupSteps
  BY ShortPlans
<1>3. /\ plan \in Seq(Steps) /\ plan # << >> /\ Head(plan) = Head(Lookup)
      /\ \A i \in DOMAIN plan : \/ \E j \in DOMAIN Lookup : plan[i] = Lookup[j]
                                \/ \E j \in DOMAIN second : plan[i] = second[j]
      /\ \A j \in DOMAIN second : \E i \in DOMAIN plan : plan[i] = second[j]
  <2>1. Lookup \in Seq(Steps) /\ Lookup # << >>
    BY <1>2
  <2>2. Joins(plan, Lookup, second)
    BY <1>1, <2>1, Joined
  <2> QED
    BY <2>2, Zenon DEF Joins
<1>4. PICK also : also = IF facet = "depends_on" THEN ViewSteps ELSE {}
  OBVIOUS
<1>5. /\ \A i \in DOMAIN second : second[i] \in LookupSteps \cup Needed(facet) \cup also
      /\ \A s \in Needed(facet) : \E i \in DOMAIN second : second[i] = s
  BY <1>4 DEF FacetPlan
<1>6. ASSUME NEW i \in DOMAIN plan
      PROVE  plan[i] \in LookupSteps \cup Needed(facet) \cup also
  <2>1. ASSUME NEW j \in DOMAIN Lookup, plan[i] = Lookup[j]
        PROVE  plan[i] \in LookupSteps
    BY <1>2, <2>1, Zenon
  <2>2. ASSUME NEW j \in DOMAIN second, plan[i] = second[j]
        PROVE  plan[i] \in LookupSteps \cup Needed(facet) \cup also
    BY <1>5, <2>2, Zenon
  <2> QED
    BY <1>3, <1>6, <2>1, <2>2, Zenon
<1>7. ASSUME NEW s \in Needed(facet)
      PROVE  \E i \in DOMAIN plan : plan[i] = s
  <2>1. PICK j \in DOMAIN second : second[j] = s
    BY <1>5, <1>7, Zenon
  <2> QED
    BY <1>3, <2>1, Zenon
<1>8. FacetPlan(plan, facet)
  BY <1>3, <1>4, <1>6, <1>7, Zenon DEF FacetPlan
<1> QED
  BY <1>2, <1>3, <1>8, Zenon

\* The statements of every facet begin with its relation and are those it needs.
LEMMA FacetPlans ==
    ASSUME NEW facet \in Facets
    PROVE  FacetPlan(FacetEntries(facet), facet) /\ Head(FacetEntries(facet)) = "relation"
<1>1. facet \in {"columns", "indexes", "constraints", "depends_on"}
  BY DEF Facets
<1>2. CASE facet = "depends_on"
  <2>1. PICK first, plan : first = <<"if view">> /\ plan = first \o ViewDefinition
    OBVIOUS
  <2>2. first \in Seq(Steps) /\ first # << >> /\ \A i \in DOMAIN first : first[i] = "if view"
    <3>1. "if view" \in Steps
      BY DEF Steps
    <3> QED
      BY <2>1, <3>1, OneStep, Zenon
  <2>3. /\ ViewDefinition \in Seq(Steps)
        /\ \A i \in DOMAIN ViewDefinition : ViewDefinition[i] \in {"view", "definition"}
        /\ \E i \in DOMAIN ViewDefinition : ViewDefinition[i] = "definition"
    <3>1. PICK second : second = <<"view", "definition">>
      OBVIOUS
    <3>2. second = ViewDefinition
      BY <3>1 DEF ViewDefinition
    <3>3. second \in Seq(Steps) /\ \A i \in DOMAIN second : second[i] \in {"view", "definition"}
      BY <3>1 DEF Steps
    <3>4. 2 \in DOMAIN second /\ second[2] = "definition"
      BY <3>1
    <3> QED
      BY <3>2, <3>3, <3>4, Zenon
  <2>4. /\ plan \in Seq(Steps) /\ plan # << >>
        /\ \A i \in DOMAIN plan : \/ \E j \in DOMAIN first : plan[i] = first[j]
                                  \/ \E j \in DOMAIN ViewDefinition : plan[i] = ViewDefinition[j]
        /\ \A j \in DOMAIN ViewDefinition : \E i \in DOMAIN plan : plan[i] = ViewDefinition[j]
    <3>1. first \in Seq(Steps) /\ first # << >> /\ ViewDefinition \in Seq(Steps)
      BY <2>2, <2>3
    <3>2. Joins(plan, first, ViewDefinition)
      BY <2>1, <3>1, Joined
    <3> QED
      BY <3>2, Zenon DEF Joins
  <2>5. Needed(facet) = {"definition"}
    BY <1>2 DEF Needed
  <2>6. \A i \in DOMAIN plan : plan[i] \in {"if view", "view", "definition"}
    BY <2>2, <2>3, <2>4
  <2>7. \E i \in DOMAIN plan : plan[i] = "definition"
    BY <2>3, <2>4
  <2>8. FacetPlan(plan, facet)
    BY <1>2, <2>4, <2>5, <2>6, <2>7 DEF FacetPlan, ViewSteps
  <2>9. FacetEntries(facet) = Lookup \o plan
    BY <1>2, <2>1 DEF FacetEntries
  <2> QED
    BY <2>8, <2>9, LookupFirst
<1>3. CASE facet # "depends_on"
  <2>1. PICK read : read = IF facet = "constraints" /\ sqlite THEN <<"keys", "references">> ELSE <<facet>>
    OBVIOUS
  <2>2. FacetPlan(read, facet)
    <3>1. CASE facet = "constraints" /\ sqlite
      <4>1. read = <<"keys", "references">> /\ Needed(facet) = {"keys", "references"}
        BY <2>1, <3>1 DEF Needed
      <4>2. /\ read \in Seq(Steps) /\ read # << >>
            /\ \A i \in DOMAIN read : read[i] \in {"keys", "references"}
            /\ 1 \in DOMAIN read /\ read[1] = "keys" /\ 2 \in DOMAIN read /\ read[2] = "references"
        BY <4>1 DEF Steps
      <4> QED
        BY <4>1, <4>2 DEF FacetPlan
    <3>2. CASE ~ (facet = "constraints" /\ sqlite)
      <4>1. read = <<facet>> /\ Needed(facet) = {facet}
        BY <1>3, <2>1, <3>2 DEF Needed
      <4>2. facet \in Steps
        BY <1>1, <1>3 DEF Steps
      <4>3. /\ read \in Seq(Steps) /\ read # << >> /\ \A i \in DOMAIN read : read[i] = facet
            /\ 1 \in DOMAIN read
        BY <4>1, <4>2
      <4> QED
        BY <4>1, <4>3 DEF FacetPlan
    <3> QED
      BY <3>1, <3>2
  <2>3. PICK plan : plan = Lookup \o read
    OBVIOUS
  <2>4. FacetPlan(plan, facet)
    BY <2>2, <2>3, LookupFirst
  <2>5. FacetEntries(facet) = Lookup \o plan
    BY <1>3, <2>1, <2>3 DEF FacetEntries, Items
  <2> QED
    BY <2>4, <2>5, LookupFirst
<1> QED
  BY <1>2, <1>3

\* No kind is known at first.
LEMMA KindNames == "" \in {"", "table", "view"}
OBVIOUS

\* What is refused for its path is nothing that the operation serves.
LEMMA RefusalSound ==
    ASSUME Catalogued, NEW op \in Reading, NEW path \in Seq(Seq(STRING)), NEW p, p = Parse(path),
           Refusal(op, p) # "none"
    PROVE  Sound(Failed(NewCall(op, path, << >>, ""), Refusal(op, p)))
<1>1. PICK c, error : c = NewCall(op, path, << >>, "") /\ error = Refusal(op, p)
  OBVIOUS
<1>2. << >> \in Seq(Steps)
  BY EmptySeq
<1>3. c.op = op /\ c.path = path /\ CallTyped(c)
  <2>1. IsNew(c, op, path, << >>, "")
    BY <1>1, <1>2, KindNames, NewIs
  <2> QED
    BY <2>1 DEF IsNew
<1>4. PICK full : full = Normalize(path)
  OBVIOUS
<1>5. full \in Seq(Seq(STRING)) /\ p = Parts(full)
  BY <1>4, NormalIsPath DEF Parse
<1>6. catalog \in span /\ IsCatalog(catalog)
  BY DEF Catalogued
<1>7. ASSUME NEW n \in Serves(catalog, op, full)
      PROVE  FALSE
  <2>1. NodeIs(catalog, n, p)
    BY <1>5, <1>6, <1>7, Served
  <2>2. /\ op = "ls" => n.type = "directory"
        /\ op = "open" => p.kind \in {"data", "definition"}
        /\ op = "write" => p.kind = "data" /\ p.part # "sql"
    BY <1>5, <1>7 DEF Serves
  <2>3. PICK r : r = <<p.schema, p.relation>>
    OBVIOUS
  <2>4. p.kind = "item" => n.type = "file"
    <3>1. ASSUME p.kind = "item"
          PROVE  n \in ItemNodes(catalog, r, p.part) /\ p.part \in Facets
      BY <2>1, <2>3, <3>1 DEF NodeIs
    <3> QED
      BY <3>1, ItemPaths
  <2>5. p.kind = "data" => n.type = "file"
    <3>1. ASSUME p.kind = "data"
          PROVE  n = RelationDataFile(r, catalog.relations[r].kind, p.part)
      BY <2>1, <2>3, <3>1 DEF NodeIs
    <3> QED
      BY <3>1 DEF RelationDataFile, FileInfo
  <2>6. p.kind = "definition" => n.type = "file"
    <3>1. ASSUME p.kind = "definition"
          PROVE  n = ViewDefinitionFile(r)
      BY <2>1, <2>3, <3>1 DEF NodeIs
    <3> QED
      BY <3>1 DEF ViewDefinitionFile, FileInfo
  <2>7. p.kind # "invalid"
    BY <2>1 DEF NodeIs
  <2> QED
    BY <2>2, <2>4, <2>5, <2>6, <2>7 DEF Refusal
<1>8. Unserved(c)
  BY <1>3, <1>4, <1>6, <1>7, MissingNow
<1>9. error \in Results \ {"none", "ok"}
  BY <1>1 DEF Refusal, Results
<1>10. Sound(Failed(c, error))
  BY <1>3, <1>8, <1>9, FailureSound
<1> QED
  BY <1>1, <1>10

\* And what is not begins well.
LEMMA CallSound ==
    ASSUME Catalogued, NEW op \in Reading, NEW path \in Seq(Seq(STRING)), NEW p, p = Parse(path),
           Refusal(op, p) = "none"
    PROVE  Sound(Continue(NewCall(op, path, Plan(op, p), "")))
<1>1. PICK plan, c : plan = Plan(op, p) /\ c = NewCall(op, path, plan, "")
  OBVIOUS
<1>2. PICK full : full = Normalize(path)
  OBVIOUS
<1>3. full \in Seq(Seq(STRING)) /\ p = Parts(full)
  BY <1>2, NormalIsPath DEF Parse
<1>4. /\ p.kind \in {"root", "schema", "relation", "facet", "item", "data", "definition"}
      /\ p.kind \in {"facet", "item"} => p.part \in Facets
      /\ op = "ls" => p.kind \in {"root", "schema", "relation", "facet"}
      /\ op = "open" => p.kind \in {"data", "definition"}
      /\ op = "write" => p.kind = "data"
      /\ op \in {"ls", "info", "open", "write"}
  BY <1>3, PartsOf DEF Refusal, Reading
<1>5. /\ p.kind = "root" =>
            plan = IF op = "ls" THEN <<"schemas">> ELSE << >>
      /\ p.kind = "schema" =>
            plan = IF op = "ls" THEN <<"schemas", "relations">> ELSE <<"schemas">>
      /\ p.kind = "relation" => plan = Lookup
      /\ p.kind = "facet" => plan = IF op = "ls" THEN FacetEntries(p.part) ELSE Lookup
      /\ p.kind = "item" => plan = FacetEntries(p.part)
      /\ p.kind = "data" => plan = IF op # "open" THEN Lookup
                                   ELSE IF p.part = "sql" THEN Lookup \o <<"ddl">> ELSE Lookup \o <<"query">>
      /\ p.kind = "definition" => plan = ViewDefinition
  BY <1>1, <1>4 DEF Plan, LsPlan, InfoPlan, OpenPlan, WritePlan
<1>6. plan \in Seq(Steps)
  <2>1. << >> \in Seq(Steps) /\ <<"schemas">> \in Seq(Steps) /\ <<"schemas", "relations">> \in Seq(Steps)
    BY DEF Steps
  <2>2. p.kind \in {"facet", "item"} => FacetEntries(p.part) \in Seq(Steps)
    BY <1>4, FacetPlans DEF FacetPlan
  <2>3. /\ Lookup \in Seq(Steps) /\ Lookup \o <<"ddl">> \in Seq(Steps) /\ Lookup \o <<"query">> \in Seq(Steps)
        /\ ViewDefinition \in Seq(Steps)
    BY ShortPlans, SqlPlans, Zenon
  <2> QED
    BY <1>4, <1>5, <2>1, <2>2, <2>3
<1>7. /\ c.op = op /\ c.path = path /\ c.todo = plan /\ c.kind = "" /\ c.entries = {}
      /\ c.latest = "" /\ c.data = NoData /\ c.result = "none" /\ CallTyped(c)
  <2>1. IsNew(c, op, path, plan, "")
    BY <1>1, <1>6, KindNames, NewIs
  <2> QED
    BY <2>1 DEF IsNew
<1>8. Where(c) = p
  BY <1>2, <1>3, <1>7 DEF Where
<1>9. OfRelation(c) => KindSeen(c)
  <2>1. ASSUME OfRelation(c)
        PROVE  plan # << >> /\ Head(plan) \in {"relation", "view"}
    <3>1. p.kind \in {"relation", "facet", "item", "data", "definition"}
      BY <1>4, <1>8, <2>1 DEF OfRelation
    <3>2. p.kind \in {"facet", "item"} =>
             FacetEntries(p.part) # << >> /\ Head(FacetEntries(p.part)) = "relation"
      BY <1>4, FacetPlans DEF FacetPlan
    <3>3. \/ p.kind \in {"facet", "item"} /\ plan = FacetEntries(p.part)
          \/ plan = Lookup \/ plan = ViewDefinition
          \/ \E s \in {"ddl", "query", "drop"} : plan = Lookup \o <<s>>
      BY <1>5, <3>1
    <3> QED
      BY <3>2, <3>3, ShortPlans, SqlPlans, Zenon
  <2> QED
    BY <1>7, <2>1 DEF KindSeen
<1>10. p.kind = "root" => RootRead(c)
  BY <1>4, <1>5, <1>7 DEF RootRead
<1>11. p.kind = "schema" => SchemaRead(c)
  BY <1>4, <1>5, <1>7, <1>8 DEF SchemaRead
<1>12. ASSUME IsLookup(c)
       PROVE  LookupRead(c)
  <2>1. plan = Lookup
    BY <1>4, <1>5, <1>7, <1>8, <1>12 DEF IsLookup
  <2> QED
    BY <1>7, <2>1, ShortPlans, Zenon DEF LookupRead
<1>13. ASSUME IsFacet(c)
       PROVE  FacetRead(c)
  <2>1. plan = FacetEntries(p.part) /\ p.part \in Facets
    BY <1>4, <1>5, <1>7, <1>8, <1>13 DEF IsFacet
  <2>2. FacetPlan(plan, p.part)
    BY <2>1, FacetPlans
  <2> QED
    BY <1>7, <1>8, <2>2 DEF FacetRead, FacetPlan
<1>14. ASSUME IsContent(c)
       PROVE  ContentRead(c)
  <2>1. p.kind = "definition" \/ (p.kind = "data" /\ op = "open")
    BY <1>4, <1>7, <1>8, <1>14 DEF IsContent
  <2>2. CASE p.kind = "definition"
    <3>1. plan = ViewDefinition
      BY <1>5, <2>2
    <3>2. "definition" \in Final(c) /\ "view" \in Before(c)
      BY <1>8, <2>2 DEF Final, Before
    <3>3. /\ plan # << >> /\ Last(plan) \in Final(c)
          /\ \A i \in 1 .. Len(plan) - 1 : plan[i] \in Before(c)
      BY <3>1, <3>2, SqlPlans, Zenon
    <3> QED
      BY <1>7, <3>3 DEF ContentRead
  <2>3. CASE p.kind = "data" /\ op = "open"
    <3>1. PICK s \in {"ddl", "query", "drop"} :
             plan = Lookup \o <<s>> /\ s = IF p.part = "sql" THEN "ddl" ELSE "query"
      BY <1>5, <2>3
    <3>2. s \in Final(c) /\ LookupSteps \subseteq Before(c)
      BY <1>8, <2>3, <3>1 DEF Final, Before
    <3>3. /\ plan # << >> /\ Last(plan) = s
          /\ \A i \in 1 .. Len(plan) - 1 : plan[i] \in LookupSteps
      BY <3>1, ShortPlans, Zenon
    <3> QED
      BY <1>7, <3>2, <3>3 DEF ContentRead
  <2> QED
    BY <2>1, <2>2, <2>3
<1>15. Underway(c)
  BY <1>7, <1>8, <1>9, <1>10, <1>11, <1>12, <1>13, <1>14 DEF Underway
<1>16. Sound(Continue(c))
  BY <1>7, <1>15, ContinueSound
<1> QED
  BY <1>1, <1>16

-----------------------------------------------------------------------------
(***************************************************************************)
(* The invariant                                                           *)
(***************************************************************************)

\* A call that has its answer and does not read is sound, now and later.
LEMMA DoneSound ==
    ASSUME NEW c, CallTyped(c), c.op \in {"none", "mkdir", "mv", "rm"}, c.todo = << >>,
           c.result \in Results \ {"none"}
    PROVE  Sound(c) /\ Sound(c)'
<1>1. c.op \notin Reading
  BY DEF Reading
<1>2. CallTyped(c)'
  BY DEF CallTyped
<1> QED
  BY <1>1, <1>2 DEF Sound

\* The answer of a statement that changes the catalog, and its refusal.
Ends(c, op, path, result) ==
    /\ CallTyped(c) /\ c.op = op /\ c.path = path /\ c.todo = << >> /\ c.result = result

\* Both end the call that was made.
LEMMA CallEnds ==
    ASSUME NEW op, NEW path \in Seq(Seq(STRING))
    PROVE  /\ Ends(Ok(NewCall(op, path, << >>, ""), {}), op, path, "ok")
           /\ Ends(Failed(NewCall(op, path, << >>, ""), "refused"), op, path, "refused")
<1>1. PICK n, a, b : n = NewCall(op, path, << >>, "") /\ a = Ok(n, {}) /\ b = Failed(n, "refused")
  OBVIOUS
<1>2. << >> \in Seq(Steps)
  BY EmptySeq
<1>3. IsNew(n, op, path, << >>, "")
  BY <1>1, <1>2, KindNames, NewIs
<1>4. n.op = op /\ n.path = path /\ n.todo = << >> /\ CallTyped(n)
  BY <1>3 DEF IsNew
<1>5. Ends(a, op, path, "ok")
  <2>1. /\ a.op = n.op /\ a.path = n.path /\ a.todo = n.todo /\ a.result = "ok"
        /\ CallTyped(a)
    <3>1. a = Ok(n, {}) /\ CallTyped(n)
      BY <1>1, <1>4
    <3> QED
      BY <3>1, OkIs
  <2> QED
    BY <1>4, <2>1 DEF Ends
<1>6. Ends(b, op, path, "refused")
  <2>1. /\ b.op = n.op /\ b.path = n.path /\ b.todo = << >> /\ b.result = "refused"
        /\ CallTyped(b)
    <3>1. PICK error : error = "refused"
      OBVIOUS
    <3>2. b = Failed(n, error) /\ CallTyped(n)
      BY <1>1, <1>4, <3>1
    <3>3. /\ b.op = n.op /\ b.path = n.path /\ b.todo = << >> /\ b.result = error /\ CallTyped(b)
      BY <3>2, FailedIs
    <3> QED
      BY <3>1, <3>3
  <2> QED
    BY <1>4, <2>1 DEF Ends
<1> QED
  BY <1>1, <1>5, <1>6

\* There is no call: that is sound too.
LEMMA NoCallEnds == Ends(NoCall, "none", RootPath, "ok")
<1>1. RootPath \in Seq(Seq(STRING))
  BY EmptySeq DEF RootPath
<1> QED
  BY <1>1, CallEnds DEF NoCall

\* What is removed by name is the relation that the path stands for.
LEMMA DdlSubject ==
    ASSUME NEW path \in DdlPaths, NamesRelation(path)
    PROVE  /\ path \in Seq(Seq(STRING))
           /\ Parse(path).kind = "relation"
           /\ <<Parse(path).schema, Parse(path).relation>> = DdlTarget(path)
           /\ path = RelationPath(DdlTarget(path)[1], DdlTarget(path)[2])
           /\ DdlTarget(path)[2] \in Names
<1>1. /\ path \in Seq(Seq(STRING)) /\ Len(path) \in {1, 2} /\ Normalize(path) = path
      /\ DdlPath(path).relation \in Names
      /\ Len(path) = 2 => LastWord(path[2]) # NoPart
  BY PathsAssumption, DdlPathsAssumption DEF NamesRelation
<1>2. Len(path) = 2
  BY <1>1 DEF NamesRelation, DdlPath
<1>3. ~ (Len(path[2]) > 1)
  BY <1>1, <1>2 DEF NamesRelation, DdlPath
<1>4. DdlPath(path).schema = path[1] /\ DdlPath(path).relation = path[2]
  BY <1>2, <1>3 DEF DdlPath
<1>5. ~NamesData(path[2])
  BY <1>3 DEF NamesData
<1>6. Parts(path) = DbPath("relation", path[1], path[2], NoPart, NoName)
  BY <1>2, <1>5 DEF Parts
<1>7. Parse(path).kind = "relation" /\ Parse(path).schema = path[1] /\ Parse(path).relation = path[2]
  BY <1>1, <1>6 DEF Parse, DbPath
<1>8. path = <<path[1], path[2]>>
  BY <1>1, <1>2, OfLength
<1>9. DdlTarget(path) = <<path[1], path[2]>>
  BY <1>4 DEF DdlTarget
<1>10. DdlTarget(path)[1] = path[1] /\ DdlTarget(path)[2] = path[2]
  BY <1>9
<1> QED
  BY <1>1, <1>4, <1>7, <1>8, <1>9, <1>10 DEF RelationPath

\* A removal knows the kind that the relation has, if only this filesystem
\* has changed the catalog.
Owns(c) ==
    ~foreign /\ c.op = "rm" /\ c.result = "none" /\ c.kind # "" /\ Exists(catalog, DdlTarget(c.path))
       => c.kind = catalog.relations[DdlTarget(c.path)].kind

\* An action that only reads keeps the invariant if it leaves a sound call.
LEMMA ReadKeeps ==
    ASSUME TreeInv, OnlyReads, NEW e, call' = e, Sound(e), Owns(e)
    PROVE  TreeInv'
<1>1. UNCHANGED <<sqlite, catalog, span, past, foreign, changes>>
  BY DEF OnlyReads
<1>2. Catalogued
  BY DEF TreeInv
<1>3. Catalogued'
  BY <1>1, <1>2 DEF Catalogued
<1>4. e.op = "rm" /\ e.result = "none" => changes' <= MaxChanges
  BY <1>1 DEF Sound, Removing
<1>5. Sound(e)'
  BY <1>1, <1>2, <1>4, SoundKept
<1>6. Sound(call)'
  BY <1>5
<1>7. OwnOnly'
  BY <1>1 DEF TreeInv, OwnOnly, Owns, Done
<1> QED
  BY <1>1, <1>3, <1>6, <1>7 DEF TreeInv

\* So does one statement that changes the catalog and ends the call.
LEMMA StatementKeeps ==
    ASSUME TreeInv, NEW op \in {"mkdir", "mv", "rm"}, NEW path \in Seq(Seq(STRING)), NEW new,
           IsCatalog(new), changes <= MaxChanges, Statement(op, path, new)
    PROVE  TreeInv'
<1>1. PICK e : e = Ok(NewCall(op, path, << >>, ""), {})
  OBVIOUS
<1>2. Ends(e, op, path, "ok")
  BY <1>1, CallEnds
<1>3. e.op = op /\ e.result = "ok" /\ Sound(e)'
  BY <1>2, DoneSound DEF Ends, Results
<1>4. call' = e
  BY <1>1 DEF Statement
<1>5. Sound(call)'
  BY <1>3, <1>4
<1>6. /\ catalog' = new /\ changes' = changes + 1 /\ sqlite' = sqlite /\ past' = {catalog'}
      /\ foreign' = FALSE
      /\ span' = IF Idle THEN {new} ELSE span \cup {new}
  BY DEF Statement, Becomes, InvalidateCache
<1>7. Catalogued'
  BY <1>6 DEF TreeInv, Catalogued
<1>8. OwnOnly'
  BY <1>3, <1>4, <1>6 DEF OwnOnly, Done
<1>9. changes' \in 0 .. MaxChanges + 1
  BY <1>6, BoundAssumption DEF TreeInv
<1> QED
  BY <1>5, <1>6, <1>7, <1>8, <1>9 DEF TreeInv

\* And one that the database refused.
LEMMA RefusedKeeps ==
    ASSUME TreeInv, NEW op \in {"mkdir", "mv", "rm"}, NEW path \in Seq(Seq(STRING)), Refused(op, path)
    PROVE  TreeInv'
<1>1. PICK e : e = Failed(NewCall(op, path, << >>, ""), "refused")
  OBVIOUS
<1>2. Ends(e, op, path, "refused")
  BY <1>1, CallEnds
<1>3. e.op = op /\ e.result = "refused" /\ Sound(e)
  BY <1>2, DoneSound DEF Ends, Results
<1>4. call' = e /\ OnlyReads
  BY <1>1 DEF Refused, OnlyReads
<1>5. Owns(e)
  BY <1>3 DEF Owns
<1> QED
  BY <1>3, <1>4, <1>5, ReadKeeps

\* It holds at the start.
LEMMA InitInv == Init => TreeInv
<1> SUFFICES ASSUME Init PROVE TreeInv
  OBVIOUS
<1>1. IsCatalog(catalog)
  BY CatalogsAssumption DEF Init
<1>2. Catalogued
  BY <1>1 DEF Init, Catalogued
<1>3. PICK e : e = NoCall
  OBVIOUS
<1>4. e.op = "none" /\ e.result = "ok" /\ Sound(e)
  BY <1>3, NoCallEnds, DoneSound DEF Ends, Results
<1>5. Sound(call)
  BY <1>3, <1>4 DEF Init
<1>6. OwnOnly
  BY <1>3, <1>4 DEF Init, OwnOnly
<1>7. changes \in 0 .. MaxChanges + 1
  BY BoundAssumption DEF Init
<1>8. sqlite \in BOOLEAN /\ foreign \in BOOLEAN
  BY DEF Init
<1> QED
  BY <1>2, <1>5, <1>6, <1>7, <1>8 DEF TreeInv

\* A call that is answered is still the same.
LEMMA ContinueOp ==
    ASSUME NEW c, CallTyped(c), c.op \in Reading, Refusal(c.op, Where(c)) = "none",
           NEW d, d = [f \in Fields |-> d[f]], d.op = c.op, d.path = c.path
    PROVE  Continue(d).op = c.op
<1>1. PICK p : p = Where(c)
  OBVIOUS
<1>2. p = Parse(d.path) /\ p = Parts(Normalize(c.path)) /\ Normalize(c.path) \in Seq(Seq(STRING))
  BY <1>1, PathOf
<1>3. (\E entries : Answer(d) = Ok(d, entries)) \/ (\E error : Answer(d) = Failed(d, error))
  <2>1. CASE d.op = "ls"
    BY <1>2, <2>1 DEF Answer, LsAnswer
  <2>2. CASE d.op \in {"info", "open"}
    <3>1. p.kind \in {"root", "schema", "relation", "facet", "item", "data", "definition"}
      BY <1>1, <1>2, PartsOf DEF Refusal
    <3>2. Answer(d) = InfoAnswer(d, p)
      BY <1>2, <2>2 DEF Answer
    <3> QED
      BY <3>1, <3>2 DEF InfoAnswer, FacetItemInfo
  <2>3. CASE d.op = "write"
    BY <1>2, <2>3 DEF Answer, WriteAnswer
  <2> QED
    BY <2>1, <2>2, <2>3 DEF Reading
<1>4. \A entries : Ok(d, entries).op = d.op
  BY DEF Ok, Fields
<1>5. \A error : Failed(d, error).op = d.op
  BY DEF Failed, Fields
<1> QED
  BY <1>3, <1>4, <1>5 DEF Continue

\* One statement of a call keeps the invariant.
LEMMA AdvanceKeeps ==
    ASSUME TreeInv, OnlyReads, NEW c, c = call, c.result = "none",
           NEW d, d = [f \in Fields |-> d[f]], d.op = c.op, d.path = c.path,
           Sound(Continue(d)), call' = Continue(d),
           c.op = "rm" => d.todo # << >> /\ Owns(d)
    PROVE  TreeInv'
<1>1. PICK e : e = Continue(d)
  OBVIOUS
<1>2. Sound(c)
  BY DEF TreeInv
<1>3. Owns(e)
  <2>1. CASE c.op \in Reading
    <3>1. CallTyped(c) /\ Refusal(c.op, Where(c)) = "none"
      BY <1>2, <2>1, Reader
    <3>2. e.op = c.op
      BY <1>1, <2>1, <3>1, ContinueOp
    <3> QED
      BY <2>1, <3>2 DEF Owns, Reading
  <2>2. CASE c.op = "rm"
    <3>1. e = d
      BY <1>1, <2>2 DEF Continue
    <3> QED
      BY <2>2, <3>1
  <2> QED
    BY <1>2, <2>1, <2>2 DEF Sound
<1> QED
  BY <1>1, <1>3, ReadKeeps

\* So does one that fails.
LEMMA FailKeeps ==
    ASSUME TreeInv, OnlyReads, NEW c, c = call, NEW error \in Results \ {"none"}, Sound(Failed(c, error)),
           call' = Failed(c, error)
    PROVE  TreeInv'
<1>1. PICK e : e = Failed(c, error)
  OBVIOUS
<1>2. CallTyped(c)
  BY DEF TreeInv, Sound
<1>3. e.result = error
  BY <1>1, <1>2 DEF Failed, CallTyped, Fields
<1>4. Owns(e)
  BY <1>3 DEF Owns
<1> QED
  BY <1>1, <1>4, ReadKeeps

\* The call that makes a statement.
LEMMA Caller ==
    ASSUME TreeInv, ~Done, NEW c, c = call
    PROVE  /\ Catalogued /\ Sound(c) /\ CallTyped(c) /\ c.result = "none" /\ Owns(c)
           /\ c = [f \in Fields |-> c[f]] /\ c.todo \in Seq(Steps) /\ c.todo # << >>
           /\ c.data = [f \in {"columns", "mentions", "rows"} |-> c.data[f]]
           /\ Where(c) = Parse(c.path) /\ Target = Subject(c)
           /\ c.kind \in {"", "table", "view"} /\ c.latest \in {"", "table", "view"}
<1>1. Catalogued /\ Sound(c) /\ c.result = "none" /\ Owns(c)
  BY DEF TreeInv, OwnOnly, Owns, Done
<1>2. CallTyped(c) /\ c.todo # << >>
  BY <1>1 DEF Sound
<1>3. Where(c) = Parse(c.path)
  BY <1>2, PathOf
<1>4. Target = Subject(c)
  BY <1>3 DEF Target, Subject
<1> QED
  BY <1>1, <1>2, <1>3, <1>4 DEF CallTyped

\* Each action keeps the invariant: list_schemas.
LEMMA ListSchemasKeeps == TreeInv /\ ListSchemas => TreeInv'
<1> SUFFICES ASSUME TreeInv, ListSchemas PROVE TreeInv'
  OBVIOUS
<1>1. PICK c : c = call
  OBVIOUS
<1>2. ~Done /\ Head(c.todo) = "schemas" /\ OnlyReads
  BY <1>1 DEF ListSchemas, Doing
<1>3. /\ Catalogued /\ Sound(c) /\ CallTyped(c) /\ c.result = "none" /\ Where(c) = Parse(c.path)
      /\ c = [f \in Fields |-> c[f]]
  BY <1>1, <1>2, Caller
<1>4. c.op # "rm"
  BY <1>2, <1>3, Reads DEF Reading, LookupSteps
<1>5. PICK p : p = Where(c)
  OBVIOUS
<1>6. CASE p.kind = "root" \/ p.schema \in catalog.schemas
  <2>1. PICK X : X = IF p.kind = "root" THEN { SchemaInfo(s) : s \in catalog.schemas } ELSE {}
    OBVIOUS
  <2>2. PICK d : d = [c EXCEPT !.entries = X, !.todo = Tail(@)]
    OBVIOUS
  <2>3. d = [[c EXCEPT !.entries = X] EXCEPT !.todo = Tail(@)]
    BY <2>2
  <2>4. call' = Continue(d)
    BY <1>1, <1>3, <1>5, <1>6, <2>1, <2>3 DEF ListSchemas, Advance
  <2>5. Sound(Continue(d))
    BY <1>2, <1>3, <1>5, <1>6, <2>1, <2>2, ListSchemasSound
  <2>6. d = [f \in Fields |-> d[f]] /\ d.op = c.op /\ d.path = c.path
    BY <1>3, <2>2 DEF Fields
  <2> QED
    BY <1>1, <1>2, <1>3, <1>4, <2>4, <2>5, <2>6, AdvanceKeeps
<1>7. CASE ~ (p.kind = "root" \/ p.schema \in catalog.schemas)
  <2>1. call' = Failed(c, "not found")
    BY <1>1, <1>3, <1>5, <1>7 DEF ListSchemas, Fail
  <2>2. Sound(Failed(c, "not found"))
    BY <1>2, <1>3, <1>5, <1>7, ListSchemasSound
  <2>3. "not found" \in Results \ {"none"}
    BY DEF Results
  <2> QED
    BY <1>1, <1>2, <2>1, <2>2, <2>3, FailKeeps
<1> QED
  BY <1>6, <1>7

\* list_relations.
LEMMA ListRelationsKeeps == TreeInv /\ ListRelations => TreeInv'
<1> SUFFICES ASSUME TreeInv, ListRelations PROVE TreeInv'
  OBVIOUS
<1>1. PICK c : c = call
  OBVIOUS
<1>2. ~Done /\ Head(c.todo) = "relations" /\ OnlyReads
  BY <1>1 DEF ListRelations, Doing
<1>3. /\ Catalogued /\ Sound(c) /\ CallTyped(c) /\ c.result = "none" /\ Target = Subject(c)
      /\ c = [f \in Fields |-> c[f]]
  BY <1>1, <1>2, Caller
<1>4. c.op # "rm"
  BY <1>2, <1>3, Reads DEF Reading, LookupSteps
<1>5. Target[1] = Where(c).schema
  BY <1>3 DEF Subject
<1>6. PICK X : X = { RelationInfo(r, catalog.relations[r].kind) :
                       r \in { x \in DOMAIN catalog.relations : x[1] = Where(c).schema } }
  OBVIOUS
<1>7. PICK d : d = [c EXCEPT !.entries = X, !.todo = Tail(@)]
  OBVIOUS
<1>8. d = [[c EXCEPT !.entries = X] EXCEPT !.todo = Tail(@)]
  BY <1>7
<1>9. call' = Continue(d)
  BY <1>1, <1>5, <1>6, <1>8 DEF ListRelations, Advance
<1>10. Sound(Continue(d))
  BY <1>2, <1>3, <1>6, <1>7, ListRelationsSound
<1>11. d = [f \in Fields |-> d[f]] /\ d.op = c.op /\ d.path = c.path
  BY <1>3, <1>7 DEF Fields
<1> QED
  BY <1>1, <1>2, <1>3, <1>4, <1>9, <1>10, <1>11, AdvanceKeeps

\* relation_info, which a removal makes too.
LEMMA FindRelationKeeps == TreeInv /\ FindRelation => TreeInv'
<1> SUFFICES ASSUME TreeInv, FindRelation PROVE TreeInv'
  OBVIOUS
<1>1. PICK c : c = call
  OBVIOUS
<1>2. PICK s : s = Head(c.todo)
  OBVIOUS
<1>3. ~Done /\ s \in {"relation", "view", "if view"} /\ OnlyReads
  BY <1>1, <1>2 DEF FindRelation
<1>4. /\ Catalogued /\ Sound(c) /\ CallTyped(c) /\ c.result = "none" /\ Target = Subject(c)
      /\ Owns(c) /\ Where(c) = Parse(c.path)
      /\ c = [f \in Fields |-> c[f]]
  BY <1>1, <1>3, Caller
<1>5. PICK r : r = Subject(c)
  OBVIOUS
<1>6. ASSUME NEW error \in Results \ {"none"}, call' = Failed(c, error), Sound(Failed(c, error))
      PROVE  TreeInv'
  BY <1>1, <1>3, <1>6, FailKeeps
<1>7. CASE ~Exists(catalog, r)
  <2>1. call' = Failed(c, "not found")
    BY <1>1, <1>4, <1>5, <1>7 DEF FindRelation, Fail
  <2>2. Sound(Failed(c, "not found"))
    <3>1. PICK error : error = "not found"
      OBVIOUS
    <3>2. error \in Results \ {"none", "ok"}
      BY <3>1 DEF Results
    <3>3. Sound(Failed(c, error))
      BY <1>2, <1>3, <1>4, <1>5, <1>7, <3>2, LookupFails
    <3> QED
      BY <3>1, <3>3
  <2>3. "not found" \in Results \ {"none"}
    BY DEF Results
  <2> QED
    BY <1>6, <2>1, <2>2, <2>3
<1>8. CASE Exists(catalog, r)
  <2>1. PICK kind : kind = catalog.relations[r].kind
    OBVIOUS
  <2>2. kind \in {"table", "view"}
    BY <1>4, <1>8, <2>1, RelationTyped DEF Catalogued
  <2>3. PICK found : found = [c EXCEPT !.kind = IF c.kind = "" THEN kind ELSE c.kind, !.latest = kind]
    OBVIOUS
  <2>4. CASE kind = "view" \/ s = "relation"
    <3>1. PICK d : d = [found EXCEPT !.todo = Tail(@)]
      OBVIOUS
    <3>2. call' = Continue(d)
      BY <1>1, <1>2, <1>4, <1>5, <1>8, <2>1, <2>3, <2>4, <3>1 DEF FindRelation, Advance
    <3>3. Follows(d, c) /\ d.kind = (IF c.kind = "" THEN kind ELSE c.kind) /\ d.latest = kind
          /\ d.entries = c.entries /\ d.data = c.data
      BY <1>4, <2>3, <3>1 DEF Follows, Fields
    <3>4. Sound(Continue(d))
      BY <1>2, <1>3, <1>4, <1>5, <1>8, <2>1, <2>4, <3>3, FoundSound
    <3>5. d = [f \in Fields |-> d[f]] /\ d.op = c.op /\ d.path = c.path /\ d.todo = Tail(c.todo)
      BY <3>3 DEF Follows
    <3>6. ASSUME c.op = "rm"
          PROVE  d.todo # << >> /\ Owns(d)
      <4>1. Removing(c)
        BY <1>4, <3>6 DEF Sound
      <4>2. c.path \in DdlPaths /\ NamesRelation(c.path) /\ c.todo # << >> /\ Last(c.todo) = "drop"
        BY <4>1 DEF Removing
      <4>3. c.todo \in Seq(Steps)
        BY <1>4 DEF CallTyped
      <4>4. d.todo # << >>
        BY <1>2, <1>3, <3>5, <4>2, <4>3, TailOf
      <4>5. DdlTarget(c.path) = r
        BY <1>4, <1>5, <4>2, DdlSubject DEF Subject
      <4>6. Owns(d)
        BY <1>4, <2>1, <2>2, <3>3, <3>5, <4>5, <3>6 DEF Owns
      <4> QED
        BY <4>4, <4>6
    <3> QED
      BY <1>1, <1>3, <1>4, <3>2, <3>4, <3>5, <3>6, AdvanceKeeps
  <2>5. CASE kind = "table" /\ s = "view"
    <3>1. PICK error \in {"invalid", "other"} : call' = Failed(c, error)
      BY <1>1, <1>2, <1>4, <1>5, <1>8, <2>1, <2>5 DEF FindRelation, Fail
    <3>2. error \in Results \ {"none", "ok"}
      BY <3>1 DEF Results
    <3>3. Head(c.todo) \in ViewSteps /\ catalog.relations[r].kind # "view"
      BY <1>2, <2>1, <2>5 DEF ViewSteps
    <3>4. Sound(Failed(c, error))
      BY <1>4, <1>5, <3>2, <3>3, NotAViewFails
    <3> QED
      BY <1>6, <3>1, <3>2, <3>4
  <2>6. CASE kind = "table" /\ s = "if view"
    <3>1. PICK d, todo : /\ todo = IF sqlite THEN <<"count">> ELSE << >>
                         /\ d = [found EXCEPT !.todo = todo]
      OBVIOUS
    <3>2. call' = Continue(d)
      BY <1>1, <1>2, <1>4, <1>5, <1>8, <2>1, <2>3, <2>6, <3>1 DEF FindRelation
    <3>3. /\ d = [f \in Fields |-> d[f]] /\ d.op = c.op /\ d.path = c.path /\ d.result = "none"
          /\ d.kind = (IF c.kind = "" THEN kind ELSE c.kind) /\ d.latest = kind
          /\ d.todo = todo /\ d.entries = c.entries /\ d.data = c.data
      BY <1>4, <2>3, <3>1 DEF Fields
    <3>4. c.op \in Reading
      BY <1>2, <1>4, <2>6, Reads DEF LookupSteps
    <3>5. c.kind # ""
      <4>1. c.todo # << >> /\ Underway(c)
        BY <1>4, <3>4, Reader
      <4>2. KindSeen(c)
        BY <1>2, <1>4, <2>6, <3>4, <4>1, ViewsOnly DEF ViewSteps
      <4> QED
        BY <1>2, <2>6, <4>2 DEF KindSeen
    <3>6. d.kind = c.kind /\ CallTyped(d)
      <4>1. << >> \in Seq(Steps) /\ <<"count">> \in Seq(Steps)
        BY EmptySeq DEF Steps
      <4>2. todo \in Seq(Steps)
        BY <3>1, <4>1
      <4> QED
        BY <1>4, <2>2, <3>3, <3>5, <4>2 DEF CallTyped
    <3>7. Sound(Continue(d))
      <4>1. Head(c.todo) = "if view" /\ catalog.relations[r].kind # "view"
        BY <1>2, <2>1, <2>6
      <4>2. d.latest = catalog.relations[r].kind /\ d.todo = IF sqlite THEN <<"count">> ELSE << >>
        BY <2>1, <3>1, <3>3
      <4> QED
        BY <1>4, <1>5, <1>8, <3>3, <3>6, <4>1, <4>2, NotIfViewSound
    <3>8. c.op # "rm"
      BY <3>4 DEF Reading
    <3> QED
      BY <1>1, <1>3, <1>4, <3>2, <3>3, <3>7, <3>8, AdvanceKeeps
  <2> QED
    BY <1>3, <2>2, <2>4, <2>5, <2>6
<1> QED
  BY <1>7, <1>8

\* The count of the rows.
LEMMA CountRowsKeeps == TreeInv /\ CountRows => TreeInv'
<1> SUFFICES ASSUME TreeInv, CountRows PROVE TreeInv'
  OBVIOUS
<1>1. PICK c : c = call
  OBVIOUS
<1>2. ~Done /\ Head(c.todo) = "count" /\ OnlyReads
  BY <1>1 DEF CountRows, Doing
<1>3. /\ Catalogued /\ Sound(c) /\ CallTyped(c) /\ c.result = "none" /\ Target = Subject(c)
      /\ Owns(c) /\ c = [f \in Fields |-> c[f]] /\ c.todo \in Seq(Steps) /\ c.todo # << >>
  BY <1>1, <1>2, Caller
<1>4. CASE c.latest = "view" \/ Works(catalog, Target)
  <2>1. PICK d : d = [c EXCEPT !.todo = Tail(@)]
    OBVIOUS
  <2>2. call' = Continue(d)
    BY <1>1, <1>4, <2>1 DEF CountRows, Advance
  <2>3. Follows(d, c) /\ d.kind = c.kind /\ d.latest = c.latest /\ d.entries = c.entries /\ d.data = c.data
    BY <1>3, <2>1 DEF Follows, Fields
  <2>4. Sound(Continue(d))
    BY <1>2, <1>3, <2>3, CountedSound
  <2>5. d = [f \in Fields |-> d[f]] /\ d.op = c.op /\ d.path = c.path /\ d.todo = Tail(c.todo)
        /\ d.result = c.result
    BY <2>3 DEF Follows
  <2>6. ASSUME c.op = "rm"
        PROVE  d.todo # << >> /\ Owns(d)
    <3>1. Last(c.todo) = "drop"
      BY <1>3, <2>6 DEF Sound, Removing
    <3>2. d.todo # << >>
      BY <1>2, <1>3, <2>5, <3>1, TailOf
    <3>3. Owns(d)
      BY <1>3, <2>3, <2>5 DEF Owns
    <3> QED
      BY <3>2, <3>3
  <2> QED
    BY <1>1, <1>2, <1>3, <2>2, <2>4, <2>5, <2>6, AdvanceKeeps
<1>5. CASE ~ (c.latest = "view" \/ Works(catalog, Target))
  <2>1. PICK error : error = "other"
    OBVIOUS
  <2>2. call' = Failed(c, error)
    BY <1>1, <1>5, <2>1 DEF CountRows, Fail
  <2>3. error \in Results \ {"none", "ok"}
    BY <2>1 DEF Results
  <2>4. Sound(Failed(c, error))
    BY <1>2, <1>3, <1>5, <2>3, CountFails
  <2> QED
    BY <1>1, <1>2, <2>2, <2>3, <2>4, FailKeeps
<1> QED
  BY <1>4, <1>5

\* The items of a facet.
LEMMA ReadFacetKeeps == TreeInv /\ ReadFacet => TreeInv'
<1> SUFFICES ASSUME TreeInv, ReadFacet PROVE TreeInv'
  OBVIOUS
<1>1. PICK c, s : c = call /\ s = Head(c.todo)
  OBVIOUS
<1>2. ~Done /\ s \in {"columns", "indexes", "keys", "references", "constraints"} /\ OnlyReads
  BY <1>1 DEF ReadFacet
<1>3. /\ Catalogued /\ Sound(c) /\ CallTyped(c) /\ c.result = "none" /\ Target = Subject(c)
      /\ c = [f \in Fields |-> c[f]]
      /\ c.data = [f \in {"columns", "mentions", "rows"} |-> c.data[f]]
  BY <1>1, <1>2, Caller
<1>4. c.op # "rm"
  BY <1>1, <1>2, <1>3, Reads DEF Reading, LookupSteps
<1>5. PICK r : r = Subject(c)
  OBVIOUS
<1>6. CASE Exists(catalog, r) /\ NeedsColumns(s) /\ ~Works(catalog, r)
  <2>1. PICK error : error = "other"
    OBVIOUS
  <2>2. call' = Failed(c, error)
    BY <1>1, <1>3, <1>5, <1>6, <2>1 DEF ReadFacet, Fail
  <2>3. error \in Results \ {"none", "ok"}
    BY <2>1 DEF Results
  <2>4. Sound(Failed(c, error))
    BY <1>1, <1>3, <1>5, <1>6, <2>3, ColumnsFail
  <2> QED
    BY <1>1, <1>2, <2>2, <2>3, <2>4, FailKeeps
<1>7. CASE ~ (Exists(catalog, r) /\ NeedsColumns(s) /\ ~Works(catalog, r))
  <2>1. PICK read : read = IF ~Exists(catalog, r) THEN c
                           ELSE [c EXCEPT !.entries = @ \cup FacetItems(r, catalog.relations[r], s),
                                          !.data.columns = catalog.relations[r].columns]
    OBVIOUS
  <2>2. PICK d : d = [read EXCEPT !.todo = Tail(@)]
    OBVIOUS
  <2>3. call' = Continue(d)
    <3>1. CASE ~Exists(catalog, r)
      BY <1>1, <1>3, <1>5, <2>1, <2>2, <3>1 DEF ReadFacet, Advance
    <3>2. CASE Exists(catalog, r)
      <4>1. LET body == catalog.relations[r] IN
            Advance([c EXCEPT !.entries = @ \cup FacetItems(r, body, s), !.data.columns = body.columns])
        BY <1>1, <1>3, <1>5, <1>7, <3>2 DEF ReadFacet
      <4> QED
        BY <2>1, <2>2, <3>2, <4>1 DEF Advance
    <3> QED
      BY <3>1, <3>2
  <2>4. /\ Follows(d, c) /\ d.kind = c.kind /\ d.latest = c.latest
        /\ d.entries = c.entries \cup FacetNodes(catalog, r, s)
        /\ d.data = IF Exists(catalog, r)
                    THEN [c.data EXCEPT !.columns = catalog.relations[r].columns] ELSE c.data
    <3>1. CASE ~Exists(catalog, r)
      <4>1. d = [c EXCEPT !.todo = Tail(@)]
        BY <2>1, <2>2, <3>1
      <4>2. Follows(d, c) /\ d.kind = c.kind /\ d.latest = c.latest /\ d.entries = c.entries /\ d.data = c.data
        BY <1>3, <4>1 DEF Follows, Fields
      <4>3. FacetNodes(catalog, r, s) = {}
        BY <3>1 DEF FacetNodes
      <4> QED
        BY <3>1, <4>2, <4>3
    <3>2. CASE Exists(catalog, r)
      <4>1. PICK items, columns : /\ items = FacetItems(r, catalog.relations[r], s)
                                  /\ columns = catalog.relations[r].columns
        OBVIOUS
      <4>2. read = [c EXCEPT !.entries = @ \cup items, !.data.columns = columns]
        BY <2>1, <3>2, <4>1
      <4>3. Follows(d, c) /\ d.kind = c.kind /\ d.latest = c.latest /\ d.entries = c.entries \cup items
            /\ d.data = [c.data EXCEPT !.columns = columns]
        BY <1>3, <2>2, <4>2 DEF Follows, Fields
      <4>4. FacetNodes(catalog, r, s) = items
        BY <1>2, <3>2, <4>1 DEF FacetNodes
      <4> QED
        BY <3>2, <4>1, <4>3, <4>4
    <3> QED
      BY <3>1, <3>2
  <2>5. Sound(Continue(d))
    BY <1>1, <1>2, <1>3, <1>5, <2>4, ReadFacetSound
  <2>6. d = [f \in Fields |-> d[f]] /\ d.op = c.op /\ d.path = c.path
    BY <2>4 DEF Follows
  <2> QED
    BY <1>1, <1>2, <1>3, <1>4, <2>3, <2>5, <2>6, AdvanceKeeps
<1> QED
  BY <1>6, <1>7

\* The definition of a view.
LEMMA ReadDefinitionKeeps == TreeInv /\ ReadDefinition => TreeInv'
<1> SUFFICES ASSUME TreeInv, ReadDefinition PROVE TreeInv'
  OBVIOUS
<1>1. PICK c : c = call
  OBVIOUS
<1>2. ~Done /\ Head(c.todo) = "definition" /\ OnlyReads
  BY <1>1 DEF ReadDefinition, Doing
<1>3. /\ Catalogued /\ Sound(c) /\ CallTyped(c) /\ c.result = "none" /\ Target = Subject(c)
      /\ c = [f \in Fields |-> c[f]]
  BY <1>1, <1>2, Caller
<1>4. c.op # "rm"
  BY <1>2, <1>3, Reads DEF Reading, LookupSteps
<1>5. PICK r : r = Subject(c)
  OBVIOUS
<1>6. CASE Exists(catalog, r) /\ catalog.relations[r].kind = "view"
  <2>1. PICK mentions, X : /\ mentions = Mentions(r, catalog.relations[r])
                           /\ X = Dependents(r, mentions)
    OBVIOUS
  <2>2. PICK read : read = [c EXCEPT !.data.mentions = mentions, !.entries = X]
    OBVIOUS
  <2>3. PICK d : d = [read EXCEPT !.todo = Tail(@)]
    OBVIOUS
  <2>4. call' = Continue(d)
    BY <1>1, <1>3, <1>5, <1>6, <2>1, <2>2, <2>3 DEF ReadDefinition, Advance, Dependents
  <2>5. /\ Follows(d, c) /\ d.kind = c.kind /\ d.latest = c.latest /\ d.entries = X
        /\ d.data = [c.data EXCEPT !.mentions = mentions]
    BY <1>3, <2>2, <2>3 DEF Follows, Fields
  <2>6. Sound(Continue(d))
    BY <1>2, <1>3, <1>5, <1>6, <2>1, <2>5, ReadDefinitionSound
  <2>7. d = [f \in Fields |-> d[f]] /\ d.op = c.op /\ d.path = c.path
    BY <2>5 DEF Follows
  <2> QED
    BY <1>1, <1>2, <1>3, <1>4, <2>4, <2>6, <2>7, AdvanceKeeps
<1>7. CASE ~ (Exists(catalog, r) /\ catalog.relations[r].kind = "view")
  <2>1. PICK error : error = "other"
    OBVIOUS
  <2>2. call' = Failed(c, error)
    BY <1>1, <1>3, <1>5, <1>7, <2>1 DEF ReadDefinition, Fail
  <2>3. error \in Results \ {"none", "ok"}
    BY <2>1 DEF Results
  <2>4. Sound(Failed(c, error))
    <3>1. Head(c.todo) \in ViewSteps /\ (~Exists(catalog, r) \/ catalog.relations[r].kind # "view")
      BY <1>2, <1>7 DEF ViewSteps
    <3> QED
      BY <1>3, <1>5, <2>3, <3>1, NotAViewFails
  <2> QED
    BY <1>1, <1>2, <2>2, <2>3, <2>4, FailKeeps
<1> QED
  BY <1>6, <1>7

\* ddl_sql, which chooses by the kind.
LEMMA DdlSqlKeeps == TreeInv /\ DdlSql => TreeInv'
<1> SUFFICES ASSUME TreeInv, DdlSql PROVE TreeInv'
  OBVIOUS
<1>1. PICK c : c = call
  OBVIOUS
<1>2. ~Done /\ Head(c.todo) = "ddl" /\ OnlyReads
  BY <1>1 DEF DdlSql, Doing
<1>3. /\ Catalogued /\ Sound(c) /\ CallTyped(c) /\ c.result = "none" /\ Target = Subject(c)
      /\ c = [f \in Fields |-> c[f]]
  BY <1>1, <1>2, Caller
<1>4. c.op \in Reading
  BY <1>2, <1>3, Reads DEF LookupSteps
<1>5. PICK todo : todo = IF c.kind = "view" THEN ViewDefinition ELSE Items("columns")
  OBVIOUS
<1>6. PICK d : d = [c EXCEPT !.todo = todo]
  OBVIOUS
<1>7. call' = d
  BY <1>1, <1>5, <1>6 DEF DdlSql
<1>8. /\ d = [f \in Fields |-> d[f]] /\ d.op = c.op /\ d.path = c.path /\ d.result = "none"
      /\ d.kind = c.kind /\ d.latest = c.latest /\ d.entries = c.entries /\ d.data = c.data
      /\ d.todo = todo
  BY <1>3, <1>6 DEF Fields
<1>9. Sound(d)
  BY <1>2, <1>3, <1>5, <1>8, DdlSqlSound
<1>10. Owns(d)
  BY <1>4, <1>8 DEF Owns, Reading
<1> QED
  BY <1>2, <1>7, <1>9, <1>10, ReadKeeps

\* The rows of a data file.
LEMMA QueryRowsKeeps == TreeInv /\ QueryRows => TreeInv'
<1> SUFFICES ASSUME TreeInv, QueryRows PROVE TreeInv'
  OBVIOUS
<1>1. PICK c : c = call
  OBVIOUS
<1>2. ~Done /\ Head(c.todo) = "query" /\ OnlyReads
  BY <1>1 DEF QueryRows, Doing
<1>3. /\ Catalogued /\ Sound(c) /\ CallTyped(c) /\ c.result = "none" /\ Target = Subject(c)
      /\ c = [f \in Fields |-> c[f]]
  BY <1>1, <1>2, Caller
<1>4. c.op # "rm"
  BY <1>2, <1>3, Reads DEF Reading, LookupSteps
<1>5. PICK r : r = Subject(c)
  OBVIOUS
<1>6. CASE Works(catalog, r)
  <2>1. PICK rows : rows = catalog.relations[r].rows
    OBVIOUS
  <2>2. PICK read : read = [c EXCEPT !.data.rows = rows]
    OBVIOUS
  <2>3. PICK d : d = [read EXCEPT !.todo = Tail(@)]
    OBVIOUS
  <2>4. call' = Continue(d)
    BY <1>1, <1>3, <1>5, <1>6, <2>1, <2>2, <2>3 DEF QueryRows, Advance
  <2>5. /\ Follows(d, c) /\ d.kind = c.kind /\ d.latest = c.latest /\ d.entries = c.entries
        /\ d.data = [c.data EXCEPT !.rows = rows]
    BY <1>3, <2>2, <2>3 DEF Follows, Fields
  <2>6. Sound(Continue(d))
    <3>1. Exists(catalog, r)
      BY <1>3, <1>6, TablesWork DEF Catalogued
    <3> QED
      BY <1>2, <1>3, <1>5, <2>1, <2>5, <3>1, QueryRowsSound
  <2>7. d = [f \in Fields |-> d[f]] /\ d.op = c.op /\ d.path = c.path
    BY <2>5 DEF Follows
  <2> QED
    BY <1>1, <1>2, <1>3, <1>4, <2>4, <2>6, <2>7, AdvanceKeeps
<1>7. CASE ~Works(catalog, r)
  <2>1. PICK error : error = "other"
    OBVIOUS
  <2>2. call' = Failed(c, error)
    BY <1>1, <1>3, <1>5, <1>7, <2>1 DEF QueryRows, Fail
  <2>3. error \in Results \ {"none", "ok"}
    BY <2>1 DEF Results
  <2>4. Sound(Failed(c, error))
    BY <1>2, <1>3, <1>5, <1>7, <2>3, QueryFails
  <2> QED
    BY <1>1, <1>2, <2>2, <2>3, <2>4, FailKeeps
<1> QED
  BY <1>6, <1>7

\* A call that begins, or is refused for its path.
LEMMA CallKeeps == \A op \in Reading, path \in Paths : TreeInv /\ Call(op, path) => TreeInv'
<1> SUFFICES ASSUME NEW op \in Reading, NEW path \in Paths, TreeInv, Call(op, path) PROVE TreeInv'
  OBVIOUS
<1>1. Catalogued /\ path \in Seq(Seq(STRING))
  BY PathsAssumption DEF TreeInv
<1>2. OnlyReads
  BY DEF Call, OnlyReads
<1>3. PICK p : p = Parse(path)
  OBVIOUS
<1>4. CASE Refusal(op, p) # "none"
  <2>1. PICK n, error : n = NewCall(op, path, << >>, "") /\ error = Refusal(op, p)
    OBVIOUS
  <2>2. call' = Failed(n, error)
    BY <1>3, <1>4, <2>1 DEF Call
  <2>3. Sound(Failed(n, error))
    BY <1>1, <1>3, <1>4, <2>1, RefusalSound
  <2>4. PICK e : e = Failed(n, error)
    OBVIOUS
  <2>5. << >> \in Seq(Steps)
    BY EmptySeq
  <2>6. IsNew(n, op, path, << >>, "")
    BY <1>1, <2>1, <2>5, KindNames, NewIs
  <2>7. n.op = op /\ CallTyped(n)
    BY <2>6 DEF IsNew
  <2>8. e.op = op
    BY <2>4, <2>7 DEF Failed, CallTyped, Fields
  <2>9. Owns(e)
    BY <2>8 DEF Owns, Reading
  <2> QED
    BY <1>2, <2>2, <2>3, <2>4, <2>9, ReadKeeps
<1>5. CASE Refusal(op, p) = "none"
  <2>1. PICK n, plan : plan = Plan(op, p) /\ n = NewCall(op, path, plan, "")
    OBVIOUS
  <2>2. PICK e : e = Continue(n)
    OBVIOUS
  <2>3. call' = e
    BY <1>3, <1>5, <2>1, <2>2 DEF Call
  <2>4. Sound(e)
    BY <1>1, <1>3, <1>5, <2>1, <2>2, CallSound
  <2>5. PICK c : c = NewCall(op, path, << >>, "")
    OBVIOUS
  <2>6. << >> \in Seq(Steps)
    BY EmptySeq
  <2>7. IsNew(c, op, path, << >>, "")
    BY <1>1, <2>5, <2>6, KindNames, NewIs
  <2>8. c.op = op /\ c.path = path /\ CallTyped(c)
    BY <2>7 DEF IsNew
  <2>9. Refusal(op, Where(c)) = "none"
    BY <1>3, <1>5, <2>8, PathOf
  <2>10. n = [f \in Fields |-> n[f]] /\ n.op = op /\ n.path = path
    BY <2>1 DEF NewCall, Fields
  <2>11. e.op = op
    BY <2>2, <2>8, <2>9, <2>10, ContinueOp
  <2>12. Owns(e)
    BY <2>11 DEF Owns, Reading
  <2> QED
    BY <1>2, <2>3, <2>4, <2>12, ReadKeeps
<1> QED
  BY <1>4, <1>5

\* The end of a call.
LEMMA ReturnKeeps == TreeInv /\ Return => TreeInv'
<1> SUFFICES ASSUME TreeInv, Return PROVE TreeInv'
  OBVIOUS
<1>1. PICK e : e = NoCall
  OBVIOUS
<1>2. Ends(e, "none", RootPath, "ok")
  BY <1>1, NoCallEnds
<1>3. e.op = "none" /\ e.result = "ok" /\ Sound(e)'
  BY <1>2, DoneSound DEF Ends, Results
<1>4. call' = e /\ span' = {catalog} /\ UNCHANGED <<sqlite, catalog, past, foreign, changes>>
  BY <1>1 DEF Return
<1>5. Sound(call)'
  BY <1>3, <1>4
<1>6. Catalogued'
  BY <1>4 DEF TreeInv, Catalogued
<1>7. OwnOnly'
  BY <1>3, <1>4 DEF TreeInv, OwnOnly, Done
<1> QED
  BY <1>4, <1>5, <1>6, <1>7 DEF TreeInv

\* The relation that is created, removed or renamed.
LEMMA DdlPathTyped ==
    ASSUME NEW path \in DdlPaths, DdlPath(path).relation # NoName
    PROVE  path \in Seq(Seq(STRING)) /\ DdlTarget(path)[2] \in Names
           /\ DdlTarget(path) = <<DdlTarget(path)[1], DdlTarget(path)[2]>>
  BY PathsAssumption, DdlPathsAssumption DEF DdlTarget

\* mkdir.
LEMMA MkDirKeeps == \A path \in DdlPaths, body \in Bodies : TreeInv /\ MkDir(path, body) => TreeInv'
<1> SUFFICES ASSUME NEW path \in DdlPaths, NEW body \in Bodies, TreeInv, MkDir(path, body) PROVE TreeInv'
  OBVIOUS
<1>1. PICK r : r = DdlTarget(path)
  OBVIOUS
<1>2. NamesRelation(path) /\ Fits(r, body) /\ changes < MaxChanges
  BY <1>1 DEF MkDir
<1>3. path \in Seq(Seq(STRING)) /\ r[2] \in Names /\ r = <<r[1], r[2]>>
  BY <1>1, <1>2, DdlPathTyped DEF NamesRelation
<1>4. IsCatalog(catalog) /\ changes <= MaxChanges
  BY <1>2, BoundAssumption DEF TreeInv, Catalogued
<1>5. CASE r[1] \in catalog.schemas /\ ~Exists(catalog, r)
  <2>1. PICK new : new = Put(catalog, r, body)
    OBVIOUS
  <2>2. r \in catalog.schemas \X Names
    BY <1>3, <1>5
  <2>3. IsCatalog(new)
    BY <1>2, <1>4, <2>1, <2>2, BodyIsBody, PutIsCatalog
  <2>4. Statement("mkdir", path, new)
    BY <1>1, <1>5, <2>1 DEF MkDir
  <2> QED
    BY <1>3, <1>4, <2>3, <2>4, StatementKeeps
<1>6. CASE ~ (r[1] \in catalog.schemas /\ ~Exists(catalog, r))
  <2>1. Refused("mkdir", path)
    BY <1>1, <1>6 DEF MkDir
  <2> QED
    BY <1>3, <2>1, RefusedKeeps
<1> QED
  BY <1>5, <1>6

\* mv.
LEMMA MvKeeps == \A path1, path2 \in DdlPaths : TreeInv /\ Mv(path1, path2) => TreeInv'
<1> SUFFICES ASSUME NEW path1 \in DdlPaths, NEW path2 \in DdlPaths, TreeInv, Mv(path1, path2) PROVE TreeInv'
  OBVIOUS
<1>1. PICK r1, r2 : r1 = DdlTarget(path1) /\ r2 = DdlTarget(path2)
  OBVIOUS
<1>2. /\ NamesRelation(path1) /\ NamesRelation(path2) /\ changes < MaxChanges /\ r1[1] = r2[1]
      /\ Exists(catalog, r1) => Fits(r2, catalog.relations[r1])
  BY <1>1 DEF Mv
<1>3. path1 \in Seq(Seq(STRING)) /\ r2[2] \in Names /\ r2 = <<r2[1], r2[2]>>
  BY <1>1, <1>2, DdlPathTyped DEF NamesRelation
<1>4. IsCatalog(catalog) /\ changes <= MaxChanges
  BY <1>2, BoundAssumption DEF TreeInv, Catalogued
<1>5. PICK moves : moves = (/\ Exists(catalog, r1) /\ ~Exists(catalog, r2)
                            /\ sqlite => catalog.relations[r1].kind = "table")
  OBVIOUS
<1>6. CASE moves
  <2>1. PICK put, new : put = Put(catalog, r2, catalog.relations[r1]) /\ new = Without(put, {r1})
    OBVIOUS
  <2>2. Exists(catalog, r1)
    BY <1>5, <1>6
  <2>3. r2 \in catalog.schemas \X Names
    <3>1. r1[1] \in catalog.schemas
      BY <1>4, <2>2, RelationTyped
    <3> QED
      BY <1>2, <1>3, <3>1
  <2>4. IsBody(catalog.relations[r1])
    BY <1>4, <2>2, CatalogHas DEF Exists
  <2>5. IsCatalog(put)
    BY <1>2, <1>4, <2>1, <2>2, <2>3, <2>4, PutIsCatalog
  <2>6. IsCatalog(new)
    BY <2>1, <2>5, WithoutIsCatalog
  <2>7. Statement("mv", path1, new)
    BY <1>1, <1>5, <1>6, <2>1 DEF Mv
  <2> QED
    BY <1>3, <1>4, <2>6, <2>7, StatementKeeps
<1>7. CASE ~moves
  <2>1. Refused("mv", path1)
    BY <1>1, <1>5, <1>7 DEF Mv
  <2> QED
    BY <1>3, <2>1, RefusedKeeps
<1> QED
  BY <1>6, <1>7

\* rm_file of the rows of a relation.
LEMMA RmRowsKeeps == \A path \in DdlPaths : TreeInv /\ RmRows(path) => TreeInv'
<1> SUFFICES ASSUME NEW path \in DdlPaths, TreeInv, RmRows(path) PROVE TreeInv'
  OBVIOUS
<1>1. PICK r : r = DdlTarget(path)
  OBVIOUS
<1>2. DdlPath(path).relation # NoName /\ changes < MaxChanges
  BY DEF RmRows
<1>3. path \in Seq(Seq(STRING)) /\ r[2] \in Names /\ r = <<r[1], r[2]>>
  BY <1>1, <1>2, DdlPathTyped
<1>4. IsCatalog(catalog) /\ changes <= MaxChanges
  BY <1>2, BoundAssumption DEF TreeInv, Catalogued
<1>5. CASE Exists(catalog, r) /\ catalog.relations[r].kind = "table"
  <2>1. PICK body, new : body = [catalog.relations[r] EXCEPT !.rows = FALSE] /\ new = Put(catalog, r, body)
    OBVIOUS
  <2>2. IsBody(body) /\ Fits(r, body)
    BY <1>4, <1>5, <2>1, EmptiedBody
  <2>3. r \in catalog.schemas \X Names
    BY <1>3, <1>4, <1>5, RelationTyped
  <2>4. IsCatalog(new)
    BY <1>4, <2>1, <2>2, <2>3, PutIsCatalog
  <2>5. Statement("rm", path, new)
    BY <1>1, <1>5, <2>1 DEF RmRows
  <2> QED
    BY <1>3, <1>4, <2>4, <2>5, StatementKeeps
<1>6. CASE ~ (Exists(catalog, r) /\ catalog.relations[r].kind = "table")
  <2>1. Refused("rm", path)
    BY <1>1, <1>6 DEF RmRows
  <2> QED
    BY <1>3, <2>1, RefusedKeeps
<1> QED
  BY <1>5, <1>6

\* A removal begins well, whether it knows the kind or not.
Drops(plan) ==
    /\ plan \in Seq(Steps) /\ plan # << >> /\ Last(plan) = "drop"
    /\ \A i \in 1 .. Len(plan) - 1 : plan[i] \in LookupSteps

Begins(e, path, kind) == Sound(e) /\ e.kind = kind /\ e.op = "rm" /\ e.path = path

\* It is sound from the start.
LEMMA RemovalBegins ==
    ASSUME NEW path \in DdlPaths, NamesRelation(path), changes <= MaxChanges,
           NEW plan, Drops(plan),
           NEW kind \in {"", "table", "view"}, kind # "" \/ Head(plan) = "relation"
    PROVE  Begins(NewCall("rm", path, plan, kind), path, kind)
<1>e. PICK e : e = NewCall("rm", path, plan, kind)
  OBVIOUS
<1>p. plan \in Seq(Steps)
  BY DEF Drops
<1>1. path \in Seq(Seq(STRING))
  BY DdlSubject
<1>2. IsNew(e, "rm", path, plan, kind)
  BY <1>1, <1>e, <1>p, NewIs
<1>3. /\ e.op = "rm" /\ e.path = path /\ e.todo = plan /\ e.kind = kind /\ e.result = "none"
      /\ CallTyped(e)
  BY <1>2 DEF IsNew
<1>4. Removing(e)
  BY <1>3 DEF Removing, Drops
<1>5. "rm" \notin Reading /\ "none" \in Results
  BY DEF Reading, Results
<1>6. plan # << >>
  BY DEF Drops
<1>7. Sound(e)
  BY <1>3, <1>4, <1>5, <1>6 DEF Sound
<1> QED
  BY <1>e, <1>3, <1>7 DEF Begins

\* rm_file of a relation, with its kind known or not.
LEMMA RmFileKeeps == \A path \in DdlPaths : TreeInv /\ RmFile(path) => TreeInv'
<1> SUFFICES ASSUME NEW path \in DdlPaths, TreeInv, RmFile(path) PROVE TreeInv'
  OBVIOUS
<1>1. NamesRelation(path) /\ changes <= MaxChanges /\ OnlyReads
  <2>1. changes <= MaxChanges
    <3>1. changes < MaxChanges
      BY DEF RmFile
    <3>2. changes \in 0 .. MaxChanges + 1
      BY DEF TreeInv
    <3> QED
      BY <3>1, <3>2, BoundAssumption
  <2> QED
    BY <2>1 DEF RmFile, OnlyReads
<1>2. CASE call' = NewCall("rm", path, InfoPlan(Parse(path)) \o <<"drop">>, "")
  <2>1. InfoPlan(Parse(path)) = Lookup
    BY <1>1, DdlSubject DEF InfoPlan
  <2>2. PICK plan : plan = Lookup \o <<"drop">>
    OBVIOUS
  <2>3. PICK e : e = NewCall("rm", path, plan, "")
    OBVIOUS
  <2>4. call' = e
    BY <1>2, <2>1, <2>2, <2>3
  <2>5. Drops(plan) /\ Head(plan) = "relation"
    BY <2>2, ShortPlans, Zenon DEF Drops
  <2>6. Sound(e) /\ e.kind = ""
    <3>1. Begins(e, path, "")
      BY <1>1, <2>3, <2>5, KindNames, RemovalBegins
    <3> QED
      BY <3>1 DEF Begins
  <2>7. Owns(e)
    BY <2>6 DEF Owns
  <2> QED
    BY <1>1, <2>4, <2>6, <2>7, ReadKeeps
<1>3. ASSUME NEW k \in past, Exists(k, DdlTarget(path)),
             call' = NewCall("rm", path, <<"drop">>, k.relations[DdlTarget(path)].kind)
      PROVE  TreeInv'
  <2>1. PICK plan, kind : plan = <<"drop">> /\ kind = k.relations[DdlTarget(path)].kind
    OBVIOUS
  <2>2. PICK e : e = NewCall("rm", path, plan, kind)
    OBVIOUS
  <2>3. call' = e
    BY <1>3, <2>1, <2>2
  <2>4. kind \in {"table", "view"}
    BY <1>3, <2>1, RelationTyped DEF TreeInv, Catalogued
  <2>5. "drop" \in Steps
    BY DEF Steps
  <2>6. /\ plan \in Seq(Steps) /\ plan # << >> /\ Len(plan) = 1 /\ plan[1] = "drop"
    BY <2>1, <2>5, OneStep, Zenon
  <2>7. Drops(plan)
    BY <2>6 DEF Last, Drops
  <2>8. Sound(e) /\ e.kind = kind /\ e.op = "rm" /\ e.path = path
    <3>1. Begins(e, path, kind)
      BY <1>1, <2>2, <2>4, <2>7, RemovalBegins
    <3> QED
      BY <3>1 DEF Begins
  <2>9. Owns(e)
    <3>1. ~foreign => k = catalog
      BY <1>3 DEF TreeInv, OwnOnly
    <3> QED
      BY <2>1, <2>8, <3>1 DEF Owns
  <2> QED
    BY <1>1, <2>3, <2>8, <2>9, ReadKeeps
<1> QED
  BY <1>2, <1>3 DEF RmFile

\* What drops a relation is a removal of it.
LEMMA Dropping ==
    ASSUME TreeInv, Doing("drop"), NEW c, c = call
    PROVE  /\ c.op = "rm" /\ c.path \in DdlPaths /\ NamesRelation(c.path)
           /\ changes <= MaxChanges /\ c.kind # "" /\ Owns(c) /\ c.result = "none"
           /\ c.kind \in {"table", "view"}
<1>1. ~Done /\ Head(c.todo) = "drop"
  BY DEF Doing
<1>2. Sound(c) /\ CallTyped(c) /\ c.result = "none" /\ Owns(c) /\ c.kind \in {"", "table", "view"}
  BY <1>1, Caller
<1>3. c.op \notin Reading
  <2> SUFFICES ASSUME c.op \in Reading PROVE FALSE
    OBVIOUS
  <2>1. c.todo # << >> /\ Underway(c) /\ Refusal(c.op, Where(c)) = "none"
    BY <1>2, Reader
  <2>2. OfRelation(c) /\ (IsLookup(c) \/ IsFacet(c) \/ IsContent(c))
    BY <1>1, <1>2, <2>1, HeadOf, Groups
  <2>3. CASE IsLookup(c)
    BY <1>1, <1>2, <2>1, <2>3, HeadOf DEF LookupSteps
  <2>4. CASE IsFacet(c)
    <3>1. Where(c).part \in Facets
      BY <1>2, <2>1, <2>4, Groups
    <3>2. "drop" \in LookupSteps \cup Needed(Where(c).part) \cup ViewSteps
      BY <1>1, <1>2, <2>1, <2>4, HeadOf
    <3> QED
      BY <3>1, <3>2 DEF LookupSteps, Needed, ViewSteps, Facets
  <2>5. CASE IsContent(c)
    <3>1. "drop" \in Before(c) \cup Final(c)
      BY <1>1, <1>2, <2>1, <2>5, HeadOf
    <3> QED
      BY <3>1 DEF Before, Final, LookupSteps
  <2> QED
    BY <2>2, <2>3, <2>4, <2>5
<1>4. c.op = "rm" /\ Removing(c)
  BY <1>2, <1>3 DEF Sound
<1>5. c.kind # ""
  BY <1>1, <1>4 DEF Removing
<1> QED
  BY <1>2, <1>4, <1>5 DEF Removing

\* The statement that drops.
LEMMA DropKeeps == TreeInv /\ Drop => TreeInv'
<1> SUFFICES ASSUME TreeInv, Drop PROVE TreeInv'
  OBVIOUS
<1>1. PICK c : c = call
  OBVIOUS
<1>2. c.path \in DdlPaths /\ NamesRelation(c.path) /\ changes <= MaxChanges
  BY <1>1, Dropping DEF Drop
<1>3. c.path \in Seq(Seq(STRING)) /\ IsCatalog(catalog)
  BY <1>2, DdlSubject DEF TreeInv, Catalogued
<1>4. CASE Statement("rm", c.path, Without(catalog, {DdlTarget(c.path)}))
  <2>1. PICK new : new = Without(catalog, {DdlTarget(c.path)})
    OBVIOUS
  <2>2. IsCatalog(new)
    BY <1>3, <2>1, WithoutIsCatalog
  <2> QED
    BY <1>2, <1>3, <1>4, <2>1, <2>2, StatementKeeps
<1>5. CASE Refused("rm", c.path)
  BY <1>3, <1>5, RefusedKeeps
<1> QED
  BY <1>1, <1>4, <1>5 DEF Drop

\* Another connection: the call goes on, with one catalog more in its span.
LEMMA ChangeKeeps == TreeInv /\ Change => TreeInv'
<1> SUFFICES ASSUME TreeInv, Change PROVE TreeInv'
  OBVIOUS
<1>1. PICK c : c = call
  OBVIOUS
<1>2. Catalogued /\ Sound(c)
  BY <1>1 DEF TreeInv
<1>3. /\ IsCatalog(catalog') /\ catalog' \in span' /\ catalog' \in past'
      /\ span' \subseteq span \cup {catalog'} /\ past' = past \cup {catalog'}
      /\ changes' = changes + 1 /\ changes < MaxChanges
      /\ span' = (IF Idle THEN {catalog'} ELSE span \cup {catalog'})
      /\ foreign' = TRUE /\ sqlite' = sqlite /\ call' = call /\ (Idle \/ ~Done)
  BY <1>2, ChangedIsCatalog
<1>4. Catalogued'
  BY <1>2, <1>3 DEF Catalogued
<1>5. changes' \in 0 .. MaxChanges + 1 /\ changes' <= MaxChanges
  BY <1>3, BoundAssumption DEF TreeInv
<1>6. Sound(c)'
  <2>1. CASE Idle
    BY <1>1, <1>2, <2>1, DoneSound DEF Sound, Idle
  <2>2. CASE ~Idle
    BY <1>1, <1>2, <1>3, <1>5, <2>2, SoundKept DEF Done
  <2> QED
    BY <2>1, <2>2
<1>7. Sound(call)'
  BY <1>1, <1>3, <1>6
<1>8. OwnOnly'
  BY <1>3 DEF OwnOnly
<1> QED
  BY <1>3, <1>4, <1>5, <1>7, <1>8 DEF TreeInv

\* Nothing happens.
LEMMA StutterKeeps == TreeInv /\ UNCHANGED vars => TreeInv'
<1> SUFFICES ASSUME TreeInv, UNCHANGED vars PROVE TreeInv'
  OBVIOUS
<1>1. PICK c : c = call
  OBVIOUS
<1>2. OnlyReads /\ Sound(c) /\ call' = c
  BY <1>1 DEF vars, OnlyReads, TreeInv
<1>3. Owns(c)
  BY <1>1 DEF TreeInv, OwnOnly, Owns, Done
<1> QED
  BY <1>2, <1>3, ReadKeeps

\* Every step keeps the invariant.
LEMMA Inductive == TreeInv /\ [Next]_vars => TreeInv'
<1> SUFFICES ASSUME TreeInv, [Next]_vars PROVE TreeInv'
  OBVIOUS
<1>1. CASE Next
  <2>1. ASSUME NEW op \in {"ls", "info", "open", "write"}, NEW path \in Paths, Call(op, path)
        PROVE  TreeInv'
    <3>1. op \in Reading
      BY DEF Reading
    <3> QED
      BY <2>1, <3>1, CallKeeps
  <2>2. CASE Return
    BY <2>2, ReturnKeeps
  <2>3. CASE ListSchemas \/ ListRelations \/ FindRelation \/ CountRows \/ ReadFacet
    BY <2>3, ListSchemasKeeps, ListRelationsKeeps, FindRelationKeeps, CountRowsKeeps, ReadFacetKeeps
  <2>4. CASE ReadDefinition \/ DdlSql \/ QueryRows
    BY <2>4, ReadDefinitionKeeps, DdlSqlKeeps, QueryRowsKeeps
  <2>5. ASSUME NEW path \in DdlPaths, NEW body \in Bodies, MkDir(path, body)
        PROVE  TreeInv'
    BY <2>5, MkDirKeeps
  <2>6. ASSUME NEW path1 \in DdlPaths, NEW path2 \in DdlPaths, Mv(path1, path2)
        PROVE  TreeInv'
    BY <2>6, MvKeeps
  <2>7. ASSUME NEW path \in DdlPaths, RmRows(path) \/ RmFile(path)
        PROVE  TreeInv'
    BY <2>7, RmRowsKeeps, RmFileKeeps
  <2>8. CASE Drop
    BY <2>8, DropKeeps
  <2>9. CASE Change
    BY <2>9, ChangeKeeps
  <2> QED
    BY <1>1, <2>1, <2>2, <2>3, <2>4, <2>5, <2>6, <2>7, <2>8, <2>9 DEF Next
<1>2. CASE UNCHANGED vars
  BY <1>2, StutterKeeps
<1> QED
  BY <1>1, <1>2

\* The invariant holds of every reachable state.
LEMMA Invariant == Spec => []TreeInv
BY InitInv, Inductive, PTL DEF Spec

-----------------------------------------------------------------------------
(***************************************************************************)
(* Theorems                                                                *)
(***************************************************************************)

\* TypeOK, in every reachable state: the catalogs there have been hold
\* relations of existing schemas only, and a call is open exactly while it has
\* a statement to make.
THEOREM TypeCorrect == Spec => []TypeOK
<1>1. TreeInv => TypeOK
  <2> SUFFICES ASSUME TreeInv PROVE TypeOK
    OBVIOUS
  <2>1. /\ catalog \in span \cap past /\ \A k \in span \cup past : IsCatalog(k)
    BY DEF TreeInv, Catalogued
  <2>2. /\ {call.kind, call.latest} \subseteq {"", "table", "view"}
        /\ call.result \in Results /\ (call.result = "none" <=> call.todo # << >>)
    BY DEF TreeInv, Sound, CallTyped
  <2> QED
    BY <2>1, <2>2 DEF TypeOK, TreeInv, Results, Done
<1> QED
  BY <1>1, Invariant, PTL

\* ls_db: a list has what was there all through the call, and nothing that
\* was there at no moment of it.
THEOREM RegularListing == Spec => []ListingIsRegular
<1>1. TreeInv => ListingIsRegular
  <2> SUFFICES ASSUME TreeInv, call.op = "ls", call.result = "ok" PROVE ListingIsRegular
    BY DEF ListingIsRegular
  <2>1. call.op \in Reading /\ call.result # "none"
    BY DEF Reading
  <2>2. Listing(call)
    BY <2>1 DEF TreeInv, Sound
  <2> QED
    BY <2>2 DEF Listing, ListingIsRegular
<1> QED
  BY <1>1, Invariant, PTL

\* info_db, open_db and open_write_db: an answer describes, under the path
\* that was asked for, what was there at a moment of the call.
THEOREM RegularAnswers == Spec => []AnswersAreRegular
<1>1. TreeInv => AnswersAreRegular
  <2> SUFFICES ASSUME TreeInv, call.result = "ok" PROVE AnswersAreRegular
    BY DEF AnswersAreRegular
  <2>1. CASE call.op \in Reading
    <3>1. Answered(call)
      BY <2>1 DEF TreeInv, Sound
    <3> QED
      BY <3>1 DEF Answered, AnswersAreRegular
  <2>2. CASE call.op \notin Reading
    BY <2>2 DEF Reading, AnswersAreRegular
  <2> QED
    BY <2>1, <2>2
<1> QED
  BY <1>1, Invariant, PTL

\* A call fails only if what it asks for was, at some moment of it, not there.
THEOREM FailsForMissing == Spec => []FailsOnlyIfMissing
<1>1. TreeInv => FailsOnlyIfMissing
  <2> SUFFICES ASSUME TreeInv, call.op \in {"ls", "info", "open", "write"}, Done, call.result # "ok"
               PROVE  FailsOnlyIfMissing
    BY DEF FailsOnlyIfMissing
  <2>1. call.op \in Reading /\ call.result # "none"
    BY DEF Reading, Done
  <2>2. Unserved(call)
    BY <2>1 DEF TreeInv, Sound
  <2> QED
    BY <2>2 DEF Unserved, FailsOnlyIfMissing
<1> QED
  BY <1>1, Invariant, PTL

\* rm_file of a relation that nothing reads is not refused because of a kind
\* that mkdir, mv or rm_file of the same filesystem made stale.
THEOREM OwnChangesAreSeen == Spec => RemovalUsesOwnChanges
<1>1. TreeInv /\ [Next]_vars =>
        [ Drop /\ call'.result = "refused" /\ Exists(catalog, DdlTarget(call.path))
            => foreign \/ Read(DdlTarget(call.path)) ]_vars
  <2> SUFFICES ASSUME TreeInv, Drop, call'.result = "refused", Exists(catalog, DdlTarget(call.path))
               PROVE  foreign \/ Read(DdlTarget(call.path))
    OBVIOUS
  <2>1. PICK c, r : c = call /\ r = DdlTarget(call.path)
    OBVIOUS
  <2>2. c.op = "rm" /\ c.kind # "" /\ Owns(c) /\ c.result = "none" /\ c.path \in DdlPaths
        /\ NamesRelation(c.path)
    BY <2>1, Dropping DEF Drop
  <2>3. c.path \in Seq(Seq(STRING))
    BY <2>2, DdlSubject
  <2>4. ~Statement("rm", c.path, Without(catalog, {r}))
    <3>1. PICK e : e = Ok(NewCall("rm", c.path, << >>, ""), {})
      OBVIOUS
    <3>2. e.result = "ok"
      BY <2>3, <3>1, CallEnds DEF Ends
    <3> QED
      BY <3>1, <3>2 DEF Statement
  <2>5. ~HasKind(r, c.kind) \/ Read(r)
    BY <2>1, <2>4 DEF Drop
  <2>6. ~foreign => HasKind(r, c.kind)
    BY <2>1, <2>2 DEF Owns, HasKind
  <2> QED
    BY <2>1, <2>5, <2>6
<1> QED
  BY <1>1, Invariant, PTL DEF Spec, RemovalUsesOwnChanges

\* A step that changes the catalog and the call.
LEMMA ChangesBoth ==
    ASSUME Next, catalog' # catalog, call' # call
    PROVE  \/ \E path \in DdlPaths, body \in Bodies : MkDir(path, body)
           \/ \E path1, path2 \in DdlPaths : Mv(path1, path2)
           \/ \E path \in DdlPaths : RmRows(path)
           \/ Drop
<1>1. \A op, path : ~Call(op, path)
  BY DEF Call
<1>2. ~Return
  BY DEF Return
<1>3. ~OnlyReads
  BY DEF OnlyReads
<1>4. ~ListSchemas /\ ~ListRelations /\ ~FindRelation /\ ~CountRows /\ ~ReadFacet
  BY <1>3 DEF ListSchemas, ListRelations, FindRelation, CountRows, ReadFacet
<1>5. ~ReadDefinition /\ ~DdlSql /\ ~QueryRows
  BY <1>3 DEF ReadDefinition, DdlSql, QueryRows
<1>6. \A path : ~RmFile(path)
  BY DEF RmFile
<1>7. ~Change
  BY DEF Change
<1> QED
  BY <1>1, <1>2, <1>4, <1>5, <1>6, <1>7 DEF Next

\* rm_file removes the relation that the path names, and of a data path the
\* rows of that relation; nothing else changes.  Only if what follows the last
\* dot of the path is a format: the code asks for none.
THEOREM RemovalsAreNamed ==
    (\A path \in DdlPaths : Len(path) = 2 /\ Len(path[2]) > 1 => LastWord(path[2]) \in Formats)
      => (Spec => RemovesWhatItNames)
<1> SUFFICES ASSUME \A path \in DdlPaths :
                       Len(path) = 2 /\ Len(path[2]) > 1 => LastWord(path[2]) \in Formats
             PROVE  Spec => RemovesWhatItNames
  OBVIOUS
<1> DEFINE Removes ==
      call'.op = "rm" /\ catalog' # catalog /\ call' # call =>
        \E r \in DOMAIN catalog.relations :
           \/ /\ call'.path = RelationPath(r[1], r[2])
              /\ catalog' = Without(catalog, {r})
           \/ /\ \E f \in Formats : call'.path = RelationDataPath(r[1], r[2], f)
              /\ catalog' = Put(catalog, r, [catalog.relations[r] EXCEPT !.rows = FALSE])
<1>1. ASSUME TreeInv, Next, call'.op = "rm", catalog' # catalog, call' # call
      PROVE  Removes
  <2>1. ASSUME NEW op, NEW path \in Seq(Seq(STRING)), NEW new, Statement(op, path, new)
        PROVE  call'.op = op /\ call'.path = path /\ catalog' = new
    <3>1. PICK e : e = Ok(NewCall(op, path, << >>, ""), {})
      OBVIOUS
    <3>2. e.op = op /\ e.path = path
      <4>1. Ends(e, op, path, "ok")
        BY <3>1, CallEnds
      <4> QED
        BY <4>1 DEF Ends
    <3> QED
      BY <2>1, <3>1, <3>2 DEF Statement, Becomes
  <2>2. ASSUME NEW op, NEW path, Refused(op, path)
        PROVE  FALSE
    BY <1>1, <2>2 DEF Refused
  <2>3. ASSUME NEW path \in DdlPaths, NEW body \in Bodies, MkDir(path, body)
        PROVE  FALSE
    <3>1. PICK new : Statement("mkdir", path, new)
      BY <2>2, <2>3 DEF MkDir
    <3>2. path \in Seq(Seq(STRING))
      BY PathsAssumption
    <3> QED
      BY <1>1, <2>1, <3>1, <3>2
  <2>4. ASSUME NEW path1 \in DdlPaths, NEW path2 \in DdlPaths, Mv(path1, path2)
        PROVE  FALSE
    <3>1. PICK new : Statement("mv", path1, new)
      BY <2>2, <2>4 DEF Mv
    <3>2. path1 \in Seq(Seq(STRING))
      BY PathsAssumption
    <3> QED
      BY <1>1, <2>1, <3>1, <3>2
  <2>5. ASSUME NEW path \in DdlPaths, RmRows(path)
        PROVE  Removes
    <3>1. PICK r : r = DdlTarget(path)
      OBVIOUS
    <3>2. DdlPath(path).relation # NoName /\ DdlPath(path).extension # NoPart
      BY <2>5 DEF RmRows
    <3>3. path \in Seq(Seq(STRING)) /\ Len(path) \in {1, 2}
      BY PathsAssumption, DdlPathsAssumption
    <3>4. /\ Exists(catalog, r)
          /\ Statement("rm", path, Put(catalog, r, [catalog.relations[r] EXCEPT !.rows = FALSE]))
      BY <2>2, <2>5, <3>1 DEF RmRows
    <3>5. /\ call'.path = path
          /\ catalog' = Put(catalog, r, [catalog.relations[r] EXCEPT !.rows = FALSE])
      BY <2>1, <3>3, <3>4
    <3>6. Len(path) = 2 /\ path = <<path[1], path[2]>> /\ path[2] \in Seq(STRING)
      BY <3>2, <3>3, OfLength DEF DdlPath
    <3>7. Len(path[2]) > 1
      BY <3>2, <3>6 DEF DdlPath
    <3>8. DdlPath(path).schema = path[1] /\ DdlPath(path).relation = WithoutLast(path[2])
      BY <3>6, <3>7 DEF DdlPath
    <3>9. r[1] = path[1] /\ r[2] = WithoutLast(path[2])
      BY <3>1, <3>8 DEF DdlTarget
    <3>10. PICK f \in Formats : f = LastWord(path[2])
      BY <3>6, <3>7
    <3>11. path[2] = Append(r[2], f)
      <4>1. path[2] # << >>
        BY <3>6, <3>7
      <4> QED
        BY <3>6, <3>9, <3>10, <4>1, LastAppended DEF LastWord
    <3>12. path = RelationDataPath(r[1], r[2], f)
      BY <3>6, <3>9, <3>11 DEF RelationDataPath
    <3> QED
      BY <3>4, <3>5, <3>10, <3>12 DEF Exists
  <2>6. CASE Drop
    <3>1. PICK c, r : c = call /\ r = DdlTarget(call.path)
      OBVIOUS
    <3>2. c.path \in DdlPaths /\ NamesRelation(c.path)
      BY <1>1, <2>6, <3>1, Dropping DEF Drop
    <3>3. HasKind(r, c.kind) /\ Statement("rm", c.path, Without(catalog, {r}))
      BY <2>2, <2>6, <3>1 DEF Drop
    <3>4. c.path \in Seq(Seq(STRING)) /\ c.path = RelationPath(r[1], r[2])
      BY <3>1, <3>2, DdlSubject
    <3>5. call'.path = c.path /\ catalog' = Without(catalog, {r})
      BY <2>1, <3>3, <3>4
    <3>6. r \in DOMAIN catalog.relations
      BY <3>3 DEF HasKind, Exists
    <3> QED
      BY <3>4, <3>5, <3>6
  <2> QED
    BY <1>1, <2>3, <2>4, <2>5, <2>6, ChangesBoth
<1>2. TreeInv /\ [Next]_vars => [Removes]_vars
  BY <1>1
<1> QED
  BY <1>2, Invariant, PTL DEF Spec, RemovesWhatItNames

=============================================================================
