----------------------------- MODULE Expansion -----------------------------
(***************************************************************************)
(* What #include means, stated without process_file's stack.  A place in a *)
(* project is a line of its entry file; or a line of a file reached from   *)
(* there through an #include.  The merged text holds the text lines of all *)
(* the places, in the order of their line numbers, outermost file first.   *)
(***************************************************************************)
EXTENDS Include, FiniteSets

\* A place: the files open there, outermost first, and a line of each.
Places(lines, open) == {[at |-> Append(lines, l), open |-> open] : l \in DOMAIN LinesOf(open[Len(open)])}

LastOf(s) == s[Len(s)]
LineAt(s) == LinesOf(LastOf(s.open))[LastOf(s.at)]
Included(s) == Child(LastOf(s.open), LineAt(s).path)

\* What is wrong with the line at a place, if anything.
Wrong(s) ==
  LET closes == \E k \in DOMAIN s.open : Canonical(s.open[k]) = Canonical(Included(s))
  IN CASE LineAt(s).kind = "text" -> "none"
       [] LineAt(s).kind = "malformed" -> "malformed"
       [] OTHER -> IF closes THEN "cycle"
                   ELSE IF ~CanRead(Included(s)) THEN "cannot open"
                   ELSE IF Len(s.open) = MaxNesting THEN "too deep"
                   ELSE "none"

\* The places with n files open.
PlacesAt[n \in 1..MaxNesting] ==
  IF n = 1 THEN IF CanRead(Entry) THEN Places(<<>>, <<Entry>>) ELSE {}
  ELSE UNION {Places(s.at, Append(s.open, Included(s))) :
                s \in {t \in PlacesAt[n - 1] : LineAt(t).kind = "include" /\ Wrong(t) = "none"}}
AllPlaces == UNION {PlacesAt[n] : n \in 1..MaxNesting}

Before(s, t) ==
  \E k \in DOMAIN s.at \cap DOMAIN t.at :
    /\ s.at[k] < t.at[k]
    /\ \A j \in 1..k - 1 : s.at[j] = t.at[j]

\* out lists what What(s) says of each place s, in the order of the places.
Lists(out, places, What(_)) ==
  /\ Len(out) = Cardinality(places)
  /\ \A s \in places : out[1 + Cardinality({t \in places : Before(t, s)})] = What(s)

Copied(s) == [text |-> LineAt(s), file |-> LastOf(s.open), line |-> LastOf(s.at)]

\* What is said of a place that is wrong: a malformed line is reported where it
\* stands, a refused #include by its path and the reason.  Where the latter is
\* reported is left open: at the including line, says the README (src/README.md:145-146);
\* process_file gives the missing path, and line 0.
Reported(s) ==
  IF Wrong(s) = "malformed" THEN Diag(LastOf(s.open), LastOf(s.at), "malformed")
  ELSE [path |-> Included(s), why |-> Wrong(s)]
About(d) == IF d.why = "malformed" THEN d ELSE [path |-> d.file, why |-> d.why]
Abouts(ds) == [k \in DOMAIN ds |-> About(ds[k])]

\* The merged text is every text line of the project, once for each chain of
\* #includes that leads to it, and each line that was not copied or followed has
\* been reported.
InNames(m, fs) == [n \in DOMAIN m |-> [m[n] EXCEPT !.file = fs[@]]]
Expanded ==
  /\ Lists(InNames(merged, files), {s \in AllPlaces : LineAt(s).kind = "text"}, Copied)
  /\ IF CanRead(Entry) THEN Lists(Abouts(diags), {s \in AllPlaces : Wrong(s) # "none"}, Reported)
     ELSE Abouts(diags) = <<[path |-> Entry, why |-> "cannot open"]>>
=============================================================================
