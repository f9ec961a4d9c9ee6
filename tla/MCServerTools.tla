--------------------------- MODULE MCServerTools ---------------------------
(* What a client of the server sees, explored part by part: the parts share  *)
(* no variable, so a behaviour is about one of them and the others rest.     *)
EXTENDS StdioAdapter, ToolCalls, ToolPages, CrateGraph, DependencyAdvice, ApiHistory

\* Two symbols with all kinds of rows in either version, a third in the new one.
TwoSymbolsAndANew ==
    LET row(source, sig, vis) == [source |-> source, sig |-> sig, vis |-> vis]
        rustdoc == row("rustdoc_json", 1, "public")
        scanned(sig, vis) == row("source", sig, vis)
        lists == {<<>>, <<rustdoc>>, <<scanned(0, "none")>>, <<scanned(2, "public")>>,
                  <<scanned(1, "none")>>, <<scanned(1, "private")>>,
                  <<scanned(2, "public"), rustdoc>>, <<scanned(0, "none"), scanned(2, "none")>>}
    IN  {<<<<a1, a2, <<>>>>, <<b1, b2, b3>>>> : a1, a2, b1, b2 \in lists, b3 \in {<<>>, <<rustdoc>>}}
ThirdForFirst == {<<1, 3>>}

\* Three crates of two versions, the higher of which may be the older; crate 1
\* may not be indexed, crate 2 may lack a version, crate 3 may be known by its
\* name alone.
ThreeCrates ==
    LET orders == {<<2, 1>>, <<1, 2>>}
    IN  {<<a, b, c>> : a, b \in orders, c \in orders \cup {<<>>}}
            \cup {<<a, <<2>>, c>> : a, c \in orders}
            \cup {[n \in {2, 3} |-> IF n = 2 THEN b ELSE c] : b, c \in orders}
OneOrTwoVersions == {<<1>>, <<1, 2>>}

\* One or two edges of crates 1 and 2, each matched by one version, and the same
\* edge twice.
OneOrTwoEdges ==
    LET edge == {e \in [from : {1, 2} \X (1..2), to : 1..3, kind : {"normal"}, req : {{1}, {2}}] : e.to # e.from[1]}
    IN  {{e, f} : e, f \in edge} \cup {{e, [e EXCEPT !.kind = "build"]} : e \in edge}

\* Crates 1 and 2, and crate 1 once more.
TwoOrThreeEntries ==
    LET entry(name, req, source) == [name |-> name, req |-> req, source |-> source]
    IN  {<<entry(1, r1, "explicit"), entry(2, r2, "cargo_toml")>> \o more :
            r1 \in {{}, {{1}}}, r2 \in {{}, {{1}}, {{1, 2}}},
            more \in {<<>>} \cup {<<entry(1, r, s)>> : r \in {{}, {{2}}}, s \in {"cargo_toml", "addition"}}}

\* One dependency or two, the first with a requirement that may match nothing.
OneOrTwoDependencies ==
    {[n \in deps |-> IF n = 1 THEN req ELSE {}] :
        deps \in {{1}, {1, 3}}, req \in {{}, {{1}}, {{1, 2}}, {{}}}}

\* Anything may be known of the versions of crate 1.
FactsOfTheFirst ==
    {[cv \in (1..3) \X (1..2) |-> IF cv[1] = 1 THEN facts[cv[2]] ELSE {}] :
        facts \in [1..2 -> SUBSET {"yanked", "advisory", "unknown advisory", "msrv"}]}

SomeSides == [signals : {20, 60, 70, 120}, affected : 0..1, unknown : 0..2, yanked : BOOLEAN]

VARIABLE part

\* Not called in this behaviour.
Resting == [tool |-> "none", pc |-> "none", done |-> FALSE, more |-> TRUE]

ToolsInit ==
    /\ part \in {"adapter", "calls", "pages", "graph", "advice", "diff"}
    /\ SessionInit /\ ProxyInit
    /\ CallInit /\ (index.known => part = "calls")
    /\ IF part = "pages" THEN PageInit ELSE listing = Resting
    /\ IF part = "graph" THEN GraphInit ELSE trav = Resting
    /\ IF part = "advice" THEN AdviceInit ELSE advice = Resting
    /\ IF part = "diff" THEN DiffInit ELSE diff = Resting

\* A step of this part: the others rest.
Only(p) ==
    /\ part = p
    /\ UNCHANGED part
    /\ p # "adapter" => UNCHANGED <<sessionVars, proxyVars>>
    /\ p # "calls" => UNCHANGED callVars
    /\ p # "pages" => UNCHANGED pageVars
    /\ p # "graph" => UNCHANGED travVars
    /\ p # "advice" => UNCHANGED adviceVars
    /\ p # "diff" => UNCHANGED diffVars

ToolsNext ==
    \/ Only("adapter") /\ ProxyNext
    \/ Only("calls") /\ CallNext
    \/ Only("pages") /\ PageNext
    \/ Only("graph") /\ GraphNext
    \/ Only("advice") /\ AdviceNext
    \/ Only("diff") /\ DiffNext

ToolsSpec ==
    ToolsInit /\ [][ToolsNext]_<<sessionVars, proxyVars, callVars, pageVars, travVars,
                                adviceVars, diffVars, part>>
=============================================================================
