------------------------------- MODULE Sanitize -------------------------------
(***************************************************************************)
(* sanitize.Pipeline.Process (server/internal/sanitize/sanitize.go): what  *)
(* becomes of a raw frame.  A raw frame is a record                        *)
(*   [protocol, device, trajectory, frame, sequence, package, texts,       *)
(*    screenshot]                                                          *)
(* whose texts are the non-empty RawText and RawContentDescription values  *)
(* of the UI tree.  The sanitized frame keeps the digests of the texts     *)
(* that neither a pattern nor the entity recogniser objects to, and no     *)
(* text.  The pattern matchers, the recogniser and the screenshot planner  *)
(* are parameters.                                                         *)
(***************************************************************************)
CONSTANTS
    AllowedPackages,     \* p.AllowedPackages, without the empty name
    SensitivePackages,   \* built-in and configured p.SensitivePackages
    TrimSpace,           \* package name |-> the name without outer blanks
    RegexPII,            \* texts that some pattern of hasRegexPII matches
    NEREntities,         \* texts in which FindEntities finds something
    NERErrors,           \* texts on which FindEntities fails
    VisionErrors         \* screenshots on which PlanRedactions fails

Package(raw) == TrimSpace[raw.package]

(* A text that goes to the recogniser and makes it fail stops the walk.    *)
WalkFails(raw) == \E t \in raw.texts : t \notin RegexPII /\ t \in NERErrors

Redacted(t) == t \in RegexPII \/ t \in NEREntities

SanitizedFrame(raw) ==
    [protocol |-> raw.protocol, device |-> raw.device,
     trajectory |-> raw.trajectory, frame |-> raw.frame,
     sequence |-> raw.sequence, package |-> raw.package,
     hashes |-> {t \in raw.texts : ~Redacted(t)}]

(* The sensitive list overrides the allow list; any failure drops. *)
Decision(raw) ==
    CASE Package(raw) = "" -> "drop"
      [] Package(raw) # "" /\ Package(raw) \in SensitivePackages ->
            "quarantine"
      [] OTHER ->
            IF \/ Package(raw) \notin AllowedPackages
               \/ WalkFails(raw)
               \/ raw.screenshot \in VisionErrors
            THEN "drop" ELSE "accept"

=============================================================================
