--------------------------- MODULE MCHerdrContract ---------------------------
(* HerdrContract with the documents of MCHerdrDocuments, a few releases, and *)
(* every way a small session can show what is focused.                       *)
EXTENDS MCHerdrDocuments, SchemaPromises

Release(major, minor, patch, protocol) ==
    [version |-> <<major, minor, patch>>, protocol |-> protocol]
Current == Release(0, 8, 0, 19)
MCReleases ==
    {Current, Release(0, 8, 2, 20), Release(0, 7, 9, 19), Release(0, 9, 0, 18),
     Release(0, 9, None, 19), [version |-> <<1, 0>>, protocol |-> 19]}
MCMinimumVersion == <<0, 8, 0>>

(* ValidateSchema of every document and protocol, evaluated once.            *)
MCAccepts == [n \in DOMAIN MCDocuments |->
                [p \in {r.protocol : r \in MCReleases} |-> ValidateSchema(MCDocuments[n], p)]]

(* What a session shows: two tabs or one, panes of both or of the second,    *)
(* which of them are flagged as focused, and which ids are named as focused. *)
Tabs(listed, flagged) == [i \in DOMAIN listed |-> [id |-> listed[i], focused |-> listed[i] \in flagged]]
Panes(listed, flagged) ==
    LET of == [p1 |-> [tab |-> "t1", fg |-> "", cwd |-> "/c"], p2 |-> [tab |-> "t1", fg |-> "/f", cwd |-> "/c"],
               p3 |-> [tab |-> "t2", fg |-> None, cwd |-> None]]
    IN  [i \in DOMAIN listed |->
           [id |-> listed[i], tab |-> of[listed[i]].tab, focused |-> listed[i] \in flagged,
            foregroundCwd |-> of[listed[i]].fg, cwd |-> of[listed[i]].cwd]]
Shown(tabs, panes, tab, pane) ==
    [tabs |-> tabs, panes |-> panes, focusedTab |-> tab, focusedPane |-> pane]
MCSessions ==
    {Shown(Tabs(ts, tf), Panes(ps, pf), tab, pane) :
       ts \in {<<"t1", "t2">>, <<"t2">>}, tf \in {{}, {"t1"}, {"t2"}, {"t1", "t2"}},
       ps \in {<<"p1", "p2", "p3">>, <<"p3">>}, pf \in {{}, {"p2"}, {"p3"}, {"p2", "p3"}},
       tab \in {None, "t1", "t2"}, pane \in {None, "p1", "p3", "gone"}}
Plain == Shown(Tabs(<<"t1", "t2">>, {"t1"}), Panes(<<"p1", "p2", "p3">>, {"p2"}), "t1", "p2")

MCUpgraded == {Same, Newer}

(* Every document with one session; every session, executable, release and   *)
(* socket with the document that did not drift.                              *)
Herdr(path, document, release, socket, exact, shown) ==
    /\ binary = [path |-> path, document |-> document]
    /\ server = [running |-> TRUE, release |-> release, socket |-> socket, exact |-> exact]
    /\ session = shown
Init ==
    /\ \/ \E n \in DOMAIN MCDocuments : Herdr("absolute", n, Current, "selected", TRUE, Plain)
       \/ \E shown \in MCSessions : Herdr("absolute", Same, Current, "selected", TRUE, shown)
       \/ \E path \in Paths, n \in {Same, Newer}, r \in MCReleases,
             socket \in {"selected", "other"}, exact \in BOOLEAN :
            Herdr(path, n, r, socket, exact, Plain)
    /\ ContractInit
Spec == Init /\ [][ContractNext]_contractVars
==============================================================================
