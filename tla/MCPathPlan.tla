----------------------------- MODULE MCPathPlan -----------------------------
(***************************************************************************)
(* Trees of a README, a guide in two spellings, a picture and a directory  *)
(* with a guide and a picture of its own; two components.                  *)
(***************************************************************************)
EXTENDS PathPlan

CONSTANTS readme, guide, Guide, pic, docs, doc, log

MCOrder == <<Guide, readme, docs, guide, pic>>
MCLower == [n \in Names |-> IF n = Guide THEN guide ELSE n]

Rel(up, down) == [rooted |-> FALSE, up |-> up, down |-> down]
Home == [rooted |-> TRUE, up |-> 0, down |-> <<>>]
ToGuide == Rel(0, <<guide>>)
ToPic == Rel(0, <<pic>>)
ToInner == Rel(0, <<docs, guide>>)
ToReadme == [rooted |-> TRUE, up |-> 0, down |-> <<readme>>]
UpPic == Rel(1, <<pic>>)
Out == Rel(2, <<pic>>)
Below == Rel(0, <<guide, pic>>)

Text == File({})

Tree(a, b, up, x, d, db, dx) ==
  (<<readme>> :> a) @@ (<<guide>> :> b) @@ (<<Guide>> :> up) @@ (<<pic>> :> x) @@ (<<docs>> :> d)
    @@ (<<docs, guide>> :> db) @@ (<<docs, pic>> :> dx)

\* Documents that refer to each other.
Documents1 == {File(r) : r \in SUBSET {ToGuide, ToPic, ToInner}}
Documents2 == {File(r) : r \in SUBSET {ToReadme, ToPic, ToInner}}
Documents3 == {File(r) : r \in {{}, {ToPic}, {UpPic}, {ToReadme, UpPic}}}
Linked == {Tree(a, b, Absent, x, Directory, db, Text) :
             a \in Documents1, b \in Documents2 \cup {Absent}, x \in {Text, Absent},
             db \in Documents3}

\* Links, and what refers to them.
Wired == {Tree(File(r), b, up, x, Directory, Text, dx) :
            r \in {{}, {ToPic}, {ToGuide, ToPic}, {Home}, {Out}, {Below}},
            b \in {Text, Absent, Link(<<readme>>)}, up \in {Absent, Text},
            x \in {Special, Absent, Link(<<docs>>), Link(<<>>), Link(<<pic>>), Link(<<docs, pic>>)},
            dx \in {Absent, Text, Link(<<docs>>), Link(<<pic>>)}}

MCTrees == Linked \cup Wired

MCEditedTrees ==
  {Tree(File({ToGuide, ToPic}), Text, Absent, x, Directory, File({UpPic}), Text) :
     x \in {Text, Link(<<docs, pic>>), Link(<<docs>>)}}
MCObjects ==
  {Absent, Special, Text, File({ToPic, ToInner}), Directory, Link(<<docs>>), Link(<<readme>>)}

None == [c \in Components |-> <<>>]
Rules(i, j, ignored, strict, e) ==
  [included |-> (doc :> i) @@ (log :> j), ignored |-> ignored, strict |-> strict,
   entry |-> [None EXCEPT ![doc] = e], locales |-> None]

\* Locales: one with assets among its rules, one with an entrypoint of its own, one that
\* may be empty.
Locale(paths, e, default) == [paths |-> paths, entry |-> e, default |-> default]
Both == <<Locale({<<guide>>, <<pic>>}, <<>>, FALSE),
          Locale({<<readme>>, <<docs, guide>>}, <<docs, guide>>, TRUE)>>
Second == <<Locale({<<guide>>, <<docs, guide>>, <<docs, pic>>}, <<>>, FALSE),
            Locale({<<readme>>}, <<>>, FALSE)>>
Localised(given, i, j) == [given EXCEPT !.locales = (doc :> i) @@ (log :> j)]

Others == {{}, {<<guide>>}, {<<docs, guide>>, <<Guide>>}}
MCConfigs ==
  {Rules({<<readme>>}, j, {}, strict, <<>>) : j \in Others, strict \in BOOLEAN}
  \cup {Localised(Rules({<<readme>>}, j, {<<pic>>}, FALSE, <<>>), Second, Second) : j \in Others}
  \cup {Rules({<<readme>>}, {<<guide>>, <<readme>>}, {<<readme>>}, FALSE, <<guide>>),
        Rules({<<readme>>, <<guide>>}, {<<guide>>}, {}, FALSE, <<guide>>)}
  \cup {Localised(Rules({<<readme>>}, {}, {<<docs, pic>>}, FALSE, <<>>), Both, <<>>),
        Localised(Rules({<<readme>>}, {<<guide>>}, {}, TRUE, <<>>), Second, <<>>)}

MCPreferred == (doc :> <<<<readme>>, <<guide>>>>) @@ (log :> <<<<guide>>>>)
==============================================================================
