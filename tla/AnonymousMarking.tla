--------------------------- MODULE AnonymousMarking ---------------------------
(***************************************************************************)
(* Anonymous marking of one script: api/marks/anonymous-marking.service.ts *)
(* looks for the script's AnonymousMarking rows and later creates one with *)
(* a random id, drawn again when the unique key refuses it.  Rows are      *)
(* never deleted.  The justification of a reveal is left out.              *)
(***************************************************************************)
EXTENDS Integers, FiniteSets

CONSTANTS
    Labels,              \* anonymous ids
    OtherLabels,         \* those that other scripts have
    LabelTries,          \* ANONYMOUS_ID_MAX_RETRIES
    LabelCalls           \* calls of anonymise that may be in flight at once

ASSUME LabelAssumption == LabelTries \in Nat \ {0}

VARIABLES
    label,       \* the AnonymousMarking rows, by anonymousId
    labelling,   \* what each call holds
    relabelled   \* history: a row was created by force or by an outdated look

labelVars == <<label, labelling, relabelled>>

NoLabelling == [op |-> "idle"]

LabelTypeOK ==
    /\ label \in [Labels -> {"free", "hidden", "revealed"}]
    /\ labelling \in [LabelCalls ->
          {NoLabelling} \cup [op : {"drawing"}, left : 1..LabelTries, late : BOOLEAN]]
    /\ relabelled \in BOOLEAN

LabelInit ==
    /\ label = [l \in Labels |-> "free"]
    /\ labelling = [c \in LabelCalls |-> NoLabelling]
    /\ relabelled = FALSE
-----------------------------------------------------------------------------
Used == {l \in Labels : label[l] # "free"}

Draws(c, late) ==
    labelling' = [labelling EXCEPT ![c] = [op |-> "drawing", left |-> LabelTries, late |-> late]]

\* regression: a label that was revealed does not count any more
BeginAnonymiseHidden(c, force) ==
    /\ labelling[c] = NoLabelling
    /\ (\A l \in Used : label[l] = "revealed") \/ force
    /\ Draws(c, force /\ Used # {})
    /\ UNCHANGED <<label, relabelled>>

\* anonymise, its lookup; what force lets through counts as late
BeginAnonymise(c, force) ==
    /\ labelling[c] = NoLabelling
    /\ Used = {} \/ force
    /\ Draws(c, force /\ Used # {})
    /\ UNCHANGED <<label, relabelled>>

\* the other calls have looked too early
CreateLabel(c, l) ==
    /\ labelling[c] # NoLabelling
    /\ l \notin Used \cup OtherLabels
    /\ label' = [label EXCEPT ![l] = "hidden"]
    /\ relabelled' = (relabelled \/ labelling[c].late)
    /\ labelling' = [d \in LabelCalls |->
          IF d = c \/ labelling[d] = NoLabelling THEN NoLabelling
                                                 ELSE [labelling[d] EXCEPT !.late = TRUE]]

\* the unique key refuses an id that some script has
DrawAgain(c) ==
    /\ labelling[c] # NoLabelling
    /\ Used \cup OtherLabels # {}
    /\ labelling' = [labelling EXCEPT ![c] =
          IF @.left > 1 THEN [@ EXCEPT !.left = labelling[c].left - 1] ELSE NoLabelling]
    /\ UNCHANGED <<label, relabelled>>

\* the row could not be written, or the call dies before
AbandonLabelling(c) ==
    /\ labelling[c] # NoLabelling
    /\ labelling' = [labelling EXCEPT ![c] = NoLabelling]
    /\ UNCHANGED <<label, relabelled>>

\* reveal, in one step: a second one in flight would write the same again
Reveal(l) ==
    /\ label[l] = "hidden"
    /\ label' = [label EXCEPT ![l] = "revealed"]
    /\ UNCHANGED <<labelling, relabelled>>

LabelNext ==
    \/ \E c \in LabelCalls :
          \/ \E force \in BOOLEAN : BeginAnonymise(c, force)
          \/ \E l \in Labels : CreateLabel(c, l)
          \/ DrawAgain(c) \/ AbandonLabelling(c)
    \/ \E l \in Labels : Reveal(l)

LabelSpec == LabelInit /\ [][LabelNext]_labelVars
-----------------------------------------------------------------------------
\* "The marker-facing identifier stays stable across the lifecycle of a submission":
\* whatever was revealed, refused or abandoned before, a script has one, unless
\* force or a look before another creation made more.
OneLabel == ~relabelled => Cardinality(Used) <= 1
=============================================================================
