------------------------------ MODULE Content -------------------------------
(***************************************************************************)
(* What the admin panel edits: the catalog, the spec form, the showcase,   *)
(* the landing page and its blocks, and the media library. They share no   *)
(* state with each other here, so a behaviour is about one of them, its    *)
(* subject; the others stay in an initial state.                           *)
(***************************************************************************)
EXTENDS Integers, Catalog

CONSTANTS
    \* the spec form
    FileSpecs, Respelt, NumberTexts, FormGroupsOfEditor, MaxTyped, MaxPages,
    \* the showcase
    Processes, Items, MaxSeedEdits,
    \* the landing page and its blocks
    BlockAdmins, NBlocks, Slots, MaxOps, PageAdmins, Texts, MaxPageEdits,
    \* the media library
    MediaAdmins, Readers, MaxName, LongNames, MaxImages, MaxMediaEdits,
    Void

VARIABLE subject

VARIABLES spec, formCopy, page, who, specForm, touched, typed, pages
S == INSTANCE SpecForm WITH
       EditorGroups <- FormGroupsOfEditor,
       copy <- formCopy, form <- specForm
formVars == <<spec, formCopy, page, who, specForm, touched, typed, pages>>

VARIABLES item, marker, proc, late, ever, showcaseEdits
W == INSTANCE Showcase WITH
       MaxEdits <- MaxSeedEdits, edits <- showcaseEdits
showcaseVars == <<item, marker, proc, late, ever, showcaseEdits>>

VARIABLES store, blocks, version, tx, blockCopy, loose
B == INSTANCE LandingBlocks WITH
       Admins <- BlockAdmins, None <- Void, row <- blocks, copy <- blockCopy
blocksVars == <<store, blocks, version, tx, blockCopy, loose>>

VARIABLES landing, landingForm, fresh, resetting, landingEdits
P == INSTANCE LandingPage WITH
       Admins <- PageAdmins, MaxEdits <- MaxPageEdits, None <- Void,
       row <- landing, form <- landingForm, edits <- landingEdits
landingVars == <<landing, landingForm, fresh, resetting, landingEdits>>

VARIABLES images, uploaded, ref, mediaTask, digest, request, raced, mediaEdits
M == INSTANCE MediaLibrary WITH
       Admins <- MediaAdmins, Requests <- Readers, MaxEdits <- MaxMediaEdits, None <- Void,
       task <- mediaTask, edits <- mediaEdits
mediaVars == <<images, uploaded, ref, mediaTask, digest, request, raced, mediaEdits>>

(* The file's specs are typed as Rust has them; one that says it was saved by *)
(* a form can run. An input holds at most one number.                        *)
ASSUME FormAssumption ==
    /\ \A s \in FileSpecs : S!WellTyped(s) /\ ("updated" \in s.props => S!CanRun(s))
    /\ \A t \in NumberTexts : S!Option(t, Int)
(* The blocks, the names and the images are numbered, and what is none of a  *)
(* block, a text, a size, a name or an image is none.                        *)
ASSUME BlockAssumption ==
    NBlocks \in Nat /\ Void \notin [slot : Slots, pos : Nat, born : Nat]
ASSUME PageAssumption ==
    /\ Void \notin BOOLEAN /\ Void \notin 12..64
    /\ Void \notin {"header", "sidebar", "footer", "light", "dark", "sepia"}
ASSUME MediaAssumption ==
    /\ MaxName \in Nat \ {0} /\ MaxImages \in Nat \ {0}
    /\ LongNames \subseteq (1..MaxName) \X Nat
    /\ Void \notin Nat \X Nat /\ Void \notin 1..MaxImages

-----------------------------------------------------------------------------
(* The catalog is this module's own: Catalog is extended.                    *)

contentVars == <<subject, vars, formVars, showcaseVars, blocksVars, landingVars, mediaVars>>

ContentInit ==
    /\ subject \in {"catalog", "form", "showcase", "blocks", "landing", "media"}
    /\ Init /\ S!Init /\ W!Init /\ B!Init /\ P!Init /\ M!Init
    \* which initial state the others are in does not matter
    /\ subject # "catalog" => row = (CHOOSE b \in Boot : TRUE).row
    /\ subject # "form" => spec = CHOOSE s \in FileSpecs : TRUE
    /\ subject # "showcase" => \A i \in Items : item[i] = "absent"
    /\ subject # "blocks" => /\ store = "sqlite" /\ blocks[NBlocks] # Void
                             /\ blocks[1].slot = CHOOSE s \in Slots : TRUE
    /\ subject # "media" => \A s \in M!Spots : ref[s] = Void

ContentNext ==
    \/ subject = "catalog" /\ Next
       /\ UNCHANGED <<subject, formVars, showcaseVars, blocksVars, landingVars, mediaVars>>
    \/ subject = "form" /\ S!Next
       /\ UNCHANGED <<subject, vars, showcaseVars, blocksVars, landingVars, mediaVars>>
    \/ subject = "showcase" /\ W!Next
       /\ UNCHANGED <<subject, vars, formVars, blocksVars, landingVars, mediaVars>>
    \/ subject = "blocks" /\ B!Next
       /\ UNCHANGED <<subject, vars, formVars, showcaseVars, landingVars, mediaVars>>
    \/ subject = "landing" /\ P!Next
       /\ UNCHANGED <<subject, vars, formVars, showcaseVars, blocksVars, mediaVars>>
    \/ subject = "media" /\ M!Next
       /\ UNCHANGED <<subject, vars, formVars, showcaseVars, blocksVars, landingVars>>

ContentSpec == ContentInit /\ [][ContentNext]_contentVars

-----------------------------------------------------------------------------
\* The history has every version, and a cached list that counts as fresh is
\* the table's, outside the named ways (Catalog).
CatalogConsistent == HistoryMatches /\ CacheFresh

\* EditsNotLost, about the edit form and the editors' scope, is Catalog's own.

\* A spec the form accepts can run, and a save writes what the page stood for
\* (SpecForm).
SpecsSurviveForm == []S!FormSpecsCanRun /\ S!SavesFaithful

\* The samples are seeded whole and only once (Showcase).
SeededOnce == W!SeededOnce

\* The landing page keeps the order and the look its edits asked for
\* (LandingBlocks, LandingPage).
LandingFaithful == B!OrderFollowsEdits /\ P!LookStable

\* A renamed or deleted image leaves no slot dangling, outside the named ways
\* (MediaLibrary).
RefsFollow == M!RefsFollow

\* A remembered digest is that of the bytes served, outside the named races
\* (MediaLibrary).
DigestsExplained == M!DigestsExplained
=============================================================================
