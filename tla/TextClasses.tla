------------------------------ MODULE TextClasses ------------------------------
(***************************************************************************)
(* A text, as far as the typed contracts (models.py, regulation.py) and the *)
(* JSON schemas tell texts apart.  "" is the empty text.                    *)
(***************************************************************************)

CONSTANTS
    Null,         \* JSON null, Python None
    Texts,        \* not blank and without anything that looks like a credential
    BlankTexts,   \* white space only, but not empty
    TaintedTexts, \* texts with a recognizable secret; in a decision, or a NUL byte
    Paths,        \* relative, traversal-free, on one line, not blank and not tainted
    BrokenPaths,  \* such paths with a line break inside, or after a final ".."
    BlankPaths,   \* one component of white space only, on one line
    LoosePaths    \* relative paths without any component, or tainted

UnsafeTexts == BlankTexts \cup TaintedTexts

TextAssumption ==
    /\ Null \notin Texts /\ Null \notin UnsafeTexts
    /\ Texts \cap UnsafeTexts = {} /\ BlankTexts \cap TaintedTexts = {}
    /\ Paths \cap BrokenPaths = {} /\ BlankPaths \cap LoosePaths = {}
    /\ (BlankPaths \cup LoosePaths) \cap (Paths \cup BrokenPaths) = {}
ASSUME TextAssumption

OptionalText(t) == t = Null \/ t \in Texts

\* _require_nonempty: not only white space.
NotBlank(t) == t \in Texts \cup TaintedTexts

\* "minLength": 1 of a schema, and the same for a nullable field.
MinLength1(t) == t \in Texts \cup UnsafeTexts
NullOrMinLength1(t) == t = Null \/ MinLength1(t)

\* The pattern of a path excludes a leading "/" and ".." components, and its ".+$" does
\* not run over a line break.
SchemaPath(p) == p \in Paths \cup BlankPaths \cup LoosePaths
=============================================================================
