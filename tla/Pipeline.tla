------------------------------- MODULE Pipeline -------------------------------
(***************************************************************************)
(* sanitize.Pipeline.Process in detail: the walk over the UI tree with its *)
(* redactor (server/internal/sanitize/sanitize.go:100-356) and the report  *)
(* that goes with the frame.  Sanitize states what the walk decides as a   *)
(* property of the set of texts; the runs of this module show that the     *)
(* code's recursion comes to the same.                                     *)
(*                                                                         *)
(* A raw node is a record [text, description, hash, children]; text and    *)
(* description are "" when absent, hash is the text hash the client claims *)
(* to have computed.  The other fields of nodes and frames are copied and  *)
(* stand in the field id of the frame.  The report's lists leave Process   *)
(* through unique, sorted and without duplicates: they are sets here.      *)
(***************************************************************************)
EXTENDS Sanitize, Integers, SequencesExt

CONSTANTS
    Matches,     \* text |-> the names of the patterns that match it
    Boxes,       \* screenshot |-> the boxes that PlanRedactions answers
    RawFrames    \* [id, package, root, preStorageRaw, screenshot]

VARIABLES
    input,       \* the frame Process was called with, or NoFrame
    result       \* what it returns

vars == <<input, result>>

ASSUME MatchesAssumption == RegexPII = {t \in DOMAIN Matches : Matches[t] # {}}

(* A node, a frame, a result that is not there; no report. *)
NoNode == [hash |-> "", status |-> "none"]
NoFrame == [id |-> "none"]
NoReport == [rules |-> {}, fields |-> {}, reasons |-> {}]
NoResult == [decision |-> "none", frame |-> NoFrame]

-----------------------------------------------------------------------------
(* The redactor: what the walk has collected so far, and its error. *)
NewTextRedactor == [ruleSet |-> {}, fields |-> {}, reasons |-> {}, err |-> FALSE]

AddRule(r, rule) == [r EXCEPT !.ruleSet = @ \cup {rule}]

(* Leaves the loop over the patterns at the first match. *)
HasRegexPIIFirst(r, raw, field) ==
    [r EXCEPT !.ruleSet = @ \cup {CHOOSE p \in Matches[raw] : TRUE},
              !.reasons = @ \cup Matches[raw] \cup {"redacted_sensitive_text"},
              !.fields  = @ \cup {field}]

(* hasRegexPII on a text that some pattern matches: every matching pattern *)
(* is a rule and a reason.                                                 *)
HasRegexPII(r, raw, field) ==
    [r EXCEPT !.ruleSet = @ \cup Matches[raw],
              !.reasons = @ \cup Matches[raw] \cup {"redacted_sensitive_text"},
              !.fields  = @ \cup {field}]

EntityDetected(r, field) ==
    [AddRule(r, "local_ner_redaction") EXCEPT
        !.reasons = @ \cup {"local_ner_entity_detected"},
        !.fields  = @ \cup {field}]

(* A failure of the recogniser counts as "no entities". *)
SanitizeTextLenient(r, raw, field) ==
    [redactor |-> AddRule(r, "structural_attrition"),
     hash     |-> IF Redacted(raw) THEN "" ELSE raw,
     status   |-> IF Redacted(raw) THEN "redacted" ELSE "hashed"]

(* sanitizeText: the redactor afterwards, the hash and the status. *)
SanitizeText(r, raw, field) ==
    LET seen == AddRule(r, "structural_attrition")
        Out(redactor, hash, status) ==
            [redactor |-> redactor, hash |-> hash, status |-> status]
    IN  CASE raw = "" -> Out(r, "", "not_present")
          [] raw # "" /\ raw \in RegexPII ->
                Out(HasRegexPII(seen, raw, field), "", "redacted")
          [] raw # "" /\ raw \notin RegexPII /\ raw \in NERErrors ->
                Out([seen EXCEPT !.err = TRUE], "", "")
          [] OTHER ->
                IF raw \in NEREntities
                THEN Out(EntityDetected(seen, field), "", "redacted")
                ELSE Out(seen, raw, "hashed")

(* Ten children and more get the last digit of their index. *)
LastDigit(i) == <<i % 10>>

(* strconvI: the decimal digits of i. *)
StrconvI(i) ==
    LET digits[n \in 0 .. i] ==
            IF n = 0 THEN <<>> ELSE Append(digits[n \div 10], n % 10)
    IN  IF i = 0 THEN <<0>> ELSE digits[i]

(* The two texts of a node, the description only if the text went well. *)
NodeTexts(r, in, path) ==
    LET text == SanitizeText(r, in.text, <<path, "text">>)
        description == SanitizeText(text.redactor, in.description,
                                    <<path, "description">>)
    IN  IF text.redactor.err
        THEN [redactor |-> text.redactor, text |-> text, description |-> text]
        ELSE [redactor |-> description.redactor, text |-> text,
              description |-> description]

(* The sanitized node; the hash that came with the raw one is ignored. *)
SanitizedNode(texts, children) ==
    [hash |-> texts.text.hash, status |-> texts.text.status,
     descriptionHash |-> texts.description.hash,
     descriptionStatus |-> texts.description.status,
     children |-> children]

(* node: the redactor afterwards and the sanitized node.  Any error ends   *)
(* the whole walk.                                                         *)
RECURSIVE Node(_, _, _)
Node(r, in, path) ==
    LET texts == NodeTexts(r, in, path)
        Child(walk, i) ==
            LET out == Node(walk.redactor, in.children[i],
                            Append(path, StrconvI(i - 1)))
            IN  IF walk.redactor.err THEN walk
                ELSE [redactor |-> out.redactor,
                      children |-> Append(walk.children, out.node)]
        walked == FoldLeft(Child, [redactor |-> texts.redactor, children |-> <<>>],
                           [i \in DOMAIN in.children |-> i])
    IN  IF texts.redactor.err
        THEN [redactor |-> texts.redactor, node |-> NoNode]
        ELSE [redactor |-> walked.redactor,
              node |-> SanitizedNode(texts, walked.children)]

-----------------------------------------------------------------------------
(* drop and quarantine: a result without a frame. *)
Refuse(decision, report, reason, killSwitch, err) ==
    [decision |-> decision, frame |-> NoFrame,
     report |-> [report EXCEPT !.reasons = @ \cup {reason}],
     killSwitch |-> killSwitch, err |-> err]

(* The redactor's findings, completed. *)
ReportOf(raw, r) ==
    [rules   |-> r.ruleSet \cup {"structural_attrition"},
     fields  |-> r.fields \cup IF raw.preStorageRaw
                               THEN {<<"pre_storage_raw_fields">>} ELSE {},
     reasons |-> r.reasons]

(* The planner's boxes replace the client's; a status is filled in. *)
SanitizedScreenshot(shot) ==
    [shot EXCEPT !.boxes = Boxes[shot],
                 !.status = IF shot.ref # "" /\ @ = ""
                            THEN "metadata_only_no_raw_bytes" ELSE @]

Accept(raw, root, report) ==
    [decision |-> "accept",
     frame |-> [id |-> raw.id, package |-> raw.package, root |-> root,
                screenshot |-> SanitizedScreenshot(raw.screenshot)],
     report |-> [report EXCEPT !.reasons = @ \cup {"sanitized"}],
     killSwitch |-> FALSE, err |-> FALSE]

(* What follows once the package is found to be allowed. *)
ProcessAllowed(raw) ==
    LET walk == Node(NewTextRedactor, raw.root, <<>>)
        report == ReportOf(raw, walk.redactor)
    IN  CASE walk.redactor.err ->
                Refuse("drop", NoReport, "sanitizer_error", FALSE, TRUE)
          [] ~walk.redactor.err /\ raw.screenshot \in VisionErrors ->
                Refuse("drop", report, "vision_redaction_error", FALSE, TRUE)
          [] OTHER -> Accept(raw, walk.node, report)

Process(raw) ==
    CASE Package(raw) = "" ->
            Refuse("drop", NoReport, "missing_foreground_package", FALSE, FALSE)
      [] Package(raw) # "" /\ Package(raw) \in SensitivePackages ->
            Refuse("quarantine", NoReport, "sensitive_package", TRUE, FALSE)
      [] OTHER ->
            IF Package(raw) \notin AllowedPackages
            THEN Refuse("drop", NoReport, "package_not_allowlisted", FALSE, FALSE)
            ELSE ProcessAllowed(raw)

Init == input = NoFrame /\ result = NoResult

(* A call of Process ... *)
Call ==
    /\ input = NoFrame
    /\ \E raw \in RawFrames :
          /\ input' = raw
          /\ result' = Process(raw)

(* ... and its return, after which nothing of the frame is left. *)
Return ==
    /\ input # NoFrame
    /\ input' = NoFrame
    /\ result' = NoResult

Next == Call \/ Return

Spec == Init /\ [][Next]_vars

-----------------------------------------------------------------------------
(* The reference: the tree as the set of its places.  A place is the path  *)
(* of child indexes from the root to a node, and that node.                *)
RECURSIVE Places(_, _)
Places(node, path) ==
    {<<path, node>>} \cup
        UNION {Places(node.children[i], Append(path, i - 1)) :
               i \in DOMAIN node.children}

(* The texts of the input with their fields. *)
Fields(root) ==
    UNION {{<<place[1], "text", place[2].text>>,
            <<place[1], "description", place[2].description>>} :
           place \in Places(root, <<>>)}

Texts(root) == {field[3] : field \in Fields(root)} \ {""}

(* The hashes that the sanitized tree holds. *)
Hashes(root) ==
    UNION {{place[2].hash, place[2].descriptionHash} :
           place \in Places(root, <<>>)} \ {""}

Flat(raw) ==
    [package |-> raw.package, texts |-> Texts(raw.root),
     screenshot |-> raw.screenshot]

(* The number that digits stand for, and the path a field name stands for. *)
Value(digits) == FoldLeft(LAMBDA n, d : 10 * n + d, 0, digits)
Decoded(path) == [i \in DOMAIN path |-> Value(path[i])]

(* What Process decides, and which texts leave a digest in the frame, is   *)
(* what Sanitize says of the set of the frame's texts, at whatever depth   *)
(* of the tree and in whatever order the walk meets them; one text that    *)
(* the recogniser fails on anywhere refuses the whole frame.               *)
WalkDecides ==
    /\ input # NoFrame => result.decision = Decision(Flat(input))
    /\ result.decision = "accept" =>
          Hashes(result.frame.root) =
              {t \in Texts(input.root) : ~Redacted(t)}
    /\ result.decision # "accept" => result.frame = NoFrame

(* The sanitized tree has the nodes of the raw tree, each text in it       *)
(* absent, hashed or redacted as that very text demands, a hash being the  *)
(* server's own; and the fields reported as dropped name exactly the       *)
(* places whose text was redacted (node's paths, written by strconvI).     *)
DroppedFieldsAreThePlaces ==
    result.decision = "accept" =>
        LET out == Places(result.frame.root, <<>>)
            Status(t) == CASE t = "" -> "not_present"
                           [] t # "" /\ Redacted(t) -> "redacted"
                           [] OTHER -> "hashed"
            Hash(t) == IF Redacted(t) THEN "" ELSE t
        IN  /\ {place[1] : place \in out} =
                   {place[1] : place \in Places(input.root, <<>>)}
            /\ \A from \in Places(input.root, <<>>), to \in out :
                  from[1] = to[1] =>
                     /\ to[2].status = Status(from[2].text)
                     /\ to[2].hash = Hash(from[2].text)
                     /\ to[2].descriptionStatus = Status(from[2].description)
                     /\ to[2].descriptionHash = Hash(from[2].description)
            /\ {<<Decoded(field[1]), field[2]>> :
                   field \in result.report.fields \ {<<"pre_storage_raw_fields">>}}
               = {<<field[1], field[2]>> :
                     field \in {f \in Fields(input.root) : Redacted(f[3])}}

(* An accepted frame's report lists a pattern exactly when a text of the   *)
(* tree matches it, and the recogniser exactly when it found something in  *)
(* a text that no pattern had caught.                                      *)
RulesExplainTheTree ==
    result.decision = "accept" =>
        LET matched == UNION {Matches[t] : t \in Texts(input.root)}
            entities == Texts(input.root) \cap (NEREntities \ RegexPII)
        IN  /\ result.report.rules =
                   matched \cup {"structural_attrition"} \cup
                   {rule \in {"local_ner_redaction"} : entities # {}}
            /\ result.report.reasons =
                   matched \cup {"sanitized"} \cup
                   {reason \in {"redacted_sensitive_text"} : matched # {}} \cup
                   {reason \in {"local_ner_entity_detected"} : entities # {}}

=============================================================================
