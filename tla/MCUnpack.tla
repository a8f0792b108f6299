------------------------------ MODULE MCUnpack ------------------------------
(***************************************************************************)
(* Bundles of up to two components that hold up to three files, among four *)
(* paths of which two differ by case and one is a directory of another.    *)
(***************************************************************************)
EXTENDS Unpack

CONSTANTS a, A, d, doc, log, gone, u, v, w

MCLower == [n \in Names |-> IF n = A THEN a ELSE n]
MCPlaces == {<<>>, <<a>>, <<A>>, <<d>>, <<d, a>>}
MCDefault == [files |-> 2, size |-> 2, total |-> 3]

Of(path, size, data) == [path |-> path, size |-> size, data |-> data, regular |-> TRUE]
Device == [path |-> <<a>>, size |-> 0, data |-> u, regular |-> FALSE]
Whole(entries) == Tar(entries, "eof", 0)

\* Sound contents, and contents that break each rule.
One == Whole(<<Of(<<a>>, 1, u)>>)
Two == Whole(<<Of(<<d, a>>, 1, v), Of(<<A>>, 1, w)>>)
Changed == Whole(<<Of(<<a>>, 1, v)>>)
Upper == Whole(<<Of(<<A>>, 2, v)>>)
Inner == Whole(<<Of(<<d, a>>, 1, v)>>)
Outer == Whole(<<Of(<<d>>, 1, w)>>)
Tailed == Tar(<<Of(<<a>>, 1, u), Of(<<d, a>>, 1, w)>>, "eof", 1)
LongTail == Tar(<<Of(<<a>>, 1, u)>>, "eof", 3)
Full == Whole(<<Of(<<a>>, 2, u), Of(<<d, a>>, 2, w)>>)
Large == Whole(<<Of(<<a>>, 3, u)>>)
Many == Whole(<<Of(<<a>>, 1, u), Of(<<d, a>>, 0, v), Of(<<A>>, 0, w)>>)
Twice == Whole(<<Of(<<a>>, 1, u), Of(<<a>>, 1, v)>>)
Odd == Whole(<<Of(<<d, a>>, 1, v), Device>>)
Unsafe == Whole(<<Of(<<a>>, 1, u), Of(<<>>, 1, v)>>)
Broken == Tar(<<Of(<<a>>, 1, u)>>, "broken", 0)
CutOff == Tar(<<Of(<<d, a>>, 1, v), Of(<<a>>, 1, u)>>, "cut", 0)

Bad == {LongTail, Full, Large, Many, Twice, Odd, Unsafe, Broken, CutOff, Undecodable}
MCContents == {Missing, Undecodable, Whole(<<Of(<<A>>, 1, w)>>), CutOff, Broken, Odd, Full}

Layer(type, content) == [side |-> "a", type |-> type, content |-> content]
After(type, content) == [side |-> "b", type |-> type, content |-> content]
Bundles ==
  {<<>>} \cup {<<Layer(doc, c)>> : c \in {One, Two, Tailed, Whole(<<>>)} \cup Bad}
  \cup {<<Layer(doc, One), Layer(log, c)>> : c \in {Inner, Upper, One, Outer, Odd}}
  \cup {<<Layer(doc, Inner), Layer(log, c)>> : c \in {One, Outer}}
  \cup {<<Layer(doc, One), Layer(doc, Inner)>>}

Free == [p \in Places |-> IF p = <<>> THEN Directory ELSE Absent]
None == [p \in Places |-> Absent]
Old == File(w, TRUE)
Destinations ==
  {None, Free, [None EXCEPT ![<<>>] = Link], [None EXCEPT ![<<>>] = Old]}
  \cup {[Free EXCEPT ![<<a>>] = o] : o \in {Old, Link, Special, Directory}}
  \cup {[Free EXCEPT ![<<d>>] = o] : o \in {Old, Link, Directory}}

Unset == [files |-> 0, size |-> 0, total |-> 0]
Limits == {Unset, [Unset EXCEPT !.files = 1], [Unset EXCEPT !.total = 2], [files |-> 3, size |-> 3, total |-> 4]}

Plain == [entry |-> <<>>, locale |-> {}, localeEntry |-> <<>>]
ConfigFor(layers, side) ==
  [c \in {layers[i].type : i \in {k \in DOMAIN layers : layers[k].side = side}} |-> Plain]
Configs(layers) ==
  {ConfigFor(layers, "a")}
  \cup {(doc :> r) @@ ConfigFor(layers, "a") :
          r \in {[Plain EXCEPT !.entry = <<a>>], [Plain EXCEPT !.locale = {<<a>>}],
                 [Plain EXCEPT !.locale = {<<d, a>>}, !.localeEntry = <<a>>]}}
  \cup {(log :> Plain) @@ ConfigFor(layers, "a")}

Job(op, only, limits, layers) ==
  [op |-> op, only |-> only, overwrite |-> FALSE, folds |-> FALSE, limits |-> limits,
   layers |-> layers, config |-> [side \in {"a", "b"} |-> ConfigFor(layers, side)],
   before |-> None, metadataOnly |-> FALSE,
   metadata |-> [side \in {"a", "b"} |-> [subject |-> gone, annotations |-> u]]]

Lists == {Job("list", only, limits, layers) :
            only \in {All, log}, limits \in Limits, layers \in Bundles}
Extracts ==
  {Job("extract", only, limits, layers) :
     only \in {All, doc, gone}, limits \in Limits, layers \in Bundles}
  \cup {[Job("extract", All, Unset, layers) EXCEPT !.overwrite = over, !.folds = folds,
                                                    !.before = before] :
          over \in BOOLEAN, folds \in BOOLEAN, before \in Destinations, layers \in Bundles}
Verifies ==
  UNION {{[Job("verify", only, Unset, layers) EXCEPT !.config["a"] = config] :
            only \in {All, log}, config \in Configs(layers)} : layers \in Bundles}
  \cup {[Job("verify", only, Unset, layers) EXCEPT !.metadataOnly = TRUE, !.config["a"] = config] :
          only \in {All, gone}, config \in {ConfigFor(<<>>, "a"), doc :> Plain},
          layers \in {<<>>, <<Layer(doc, One)>>, <<Layer(doc, Odd)>>, <<Layer(doc, One), Layer(doc, Inner)>>}}

\* Two artifacts: documents that differ, or do not, or on one side only; and a second
\* component likewise.
Documented ==
  {<<Layer(doc, x), After(doc, y)>> :
     x \in {One, Two, Twice, Odd}, y \in {One, Changed, Tailed}}
  \cup {<<Layer(doc, One)>>, <<After(doc, Two)>>}
Seconds == {<<>>, <<Layer(log, Inner), After(log, Inner)>>, <<After(log, Outer)>>, <<Layer(log, Outer)>>}
Pairs == {p \o q : p \in Documented, q \in Seconds}
         \cup {<<Layer(doc, One), Layer(doc, Inner), After(doc, One)>>}
Diffs ==
  {[Job("diff", only, Unset, layers) EXCEPT !.metadataOnly = meta] :
     only \in {All, log}, meta \in BOOLEAN, layers \in Pairs}
  \cup {[Job("diff", All, Unset, <<Layer(doc, One), After(doc, c)>>) EXCEPT
            !.config["b"][doc] = r, !.metadata["b"].annotations = data] :
          c \in {One, Changed}, data \in {u, v},
          r \in {Plain, [Plain EXCEPT !.entry = <<a>>], [Plain EXCEPT !.locale = {<<a>>}]}}

MCJobs == Lists \cup Extracts \cup Verifies \cup Diffs
===============================================================================
