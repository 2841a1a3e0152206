----------------------------- MODULE MCPipeline -----------------------------
(* Instances of Pipeline for TLC: all small trees over texts of each kind. *)
EXTENDS Pipeline

MCMatches ==
    ("" :> {}) @@ ("plain" :> {}) @@ ("name" :> {}) @@ ("bad" :> {}) @@
    ("mail" :> {"regex_email"}) @@ ("card" :> {"regex_payment_card",
                                              "regex_long_numeric_identifier"})

MCTexts == DOMAIN MCMatches

MCRegexPII == {"mail", "card"}

(* The recogniser would find something in a text that a pattern caught, and *)
(* would fail on another one.                                               *)
MCNEREntities == {"name", "mail"}
MCNERErrors == {"bad", "card"}

MCTrimSpace == [p \in {"settings", "bank", "other"} |-> p] @@ (" settings " :> "settings")
               @@ (" " :> "")

Shot(ref, status) == [ref |-> ref, status |-> status, boxes |-> "client"]
MCScreenshots == {Shot("", ""), Shot("shot", ""), Shot("shot", "blurred"), Shot("broken", "")}
MCVisionErrors == {shot \in MCScreenshots : shot.ref = "broken"}
MCBoxes == [shot \in MCScreenshots |-> "planned"]

Tree(text, description, children) ==
    [text |-> text, description |-> description, hash |-> "claimed",
     children |-> children]

Leaf(text) == Tree(text, "", <<>>)

(* One node; a node above one child or two; three levels; a row of twelve. *)
MCRoots ==
    {Tree(t, d, <<>>) : t \in MCTexts, d \in MCTexts} \cup
    {Tree(t, "", <<Leaf(u), Leaf(v)>>) : t, u, v \in MCTexts} \cup
    {Tree("", "", <<Leaf("plain"), Tree(t, u, <<Leaf(v)>>)>>) : t, u, v \in MCTexts} \cup
    {Tree("", "", [i \in 1 .. 12 |-> Leaf(IF i = at THEN t ELSE "plain")]) :
        at \in {1, 2, 10, 11, 12}, t \in MCTexts}

Frame(package, root, shot, raw) ==
    [id |-> "id", package |-> package, root |-> root, screenshot |-> shot,
     preStorageRaw |-> raw]

MCRawFrames ==
    {Frame("settings", root, shot, FALSE) : root \in MCRoots, shot \in MCScreenshots} \cup
    {Frame(package, Leaf(t), shot, TRUE) :
        package \in DOMAIN MCTrimSpace, t \in MCTexts, shot \in MCScreenshots}


=============================================================================
