----------------------------- MODULE ConfirmButtons -----------------------------
(*************************************************************************)
(* The role check: check-roles stores one request per author and answers *)
(* with a message that carries a button to confirm and one to delete it. *)
(* The buttons name the author, not the request.                         *)
(*************************************************************************)
EXTENDS Naturals, Sequences, Functions

CONSTANTS
    Authors, Requests,  \* users; calls of check-roles
    Author,             \* who makes a request
    Nothing             \* no request

ASSUME ButtonsAssumption == /\ Author \in [Requests -> Authors]
                            /\ Nothing \notin Requests

VARIABLES
    confirmButtons,     \* _confirmButtons
    made,               \* the requests that were answered with buttons, in order
    messages,           \* those whose message is still there
    executed            \* how often the roles of a request were removed

buttonVars == <<confirmButtons, made, messages, executed>>

ButtonsTypeOK == /\ confirmButtons \in [Authors -> Requests \cup {Nothing}]
                 /\ made \in Seq(Requests)
                 /\ messages \subseteq Requests
                 /\ executed \in [Requests -> Nat]

ButtonsInit == /\ confirmButtons = [a \in Authors |-> Nothing]
               /\ made = <<>>
               /\ messages = {}
               /\ executed = [r \in Requests |-> 0]

\* Variant of AddConfirmButton: emplace does not replace what is there.
EmplaceConfirmButton(r) ==
    IF confirmButtons[Author[r]] # Nothing THEN confirmButtons
    ELSE [confirmButtons EXCEPT ![Author[r]] = r]

\* AddConfirmButton: an older request of the author is overwritten.
AddConfirmButton(r) == [confirmButtons EXCEPT ![Author[r]] = r]

\* CheckRolesHandler that finds both roles and members having both. Otherwise it replies
\* with an error, and nothing is stored.
CheckRoles(r) == /\ r \notin Range(made)
                 /\ confirmButtons' = AddConfirmButton(r)
                 /\ made' = Append(made, r)
                 /\ messages' = messages \cup {r}
                 /\ UNCHANGED executed

\* on_button_click of the author on "{author}_Confirm" of some message: whatever request
\* is stored is executed and erased; without one the answer is an error. A click of
\* somebody else is refused and changes nothing.
Confirm(r) == LET a == Author[r] stored == confirmButtons[Author[r]] IN
    /\ r \in messages
    /\ stored # Nothing
    /\ executed' = [executed EXCEPT ![stored] = @ + 1]
    /\ confirmButtons' = [confirmButtons EXCEPT ![a] = Nothing]
    /\ UNCHANGED <<made, messages>>

\* on_button_click of the author on "{author}_Delete": the message is deleted, if Discord
\* lets the bot do that; the stored request stays.
Delete(r) == /\ r \in messages
             /\ messages' = messages \ {r}
             /\ UNCHANGED <<confirmButtons, made, executed>>

ButtonsNext == \E r \in Requests : CheckRoles(r) \/ Confirm(r) \/ Delete(r)

ButtonsSpec == ButtonsInit /\ [][ButtonsNext]_buttonVars

-------------------------------------------------------------------------------
\* r is the request its author sees last: none of the later ones is the author's.
Newest(r) == \E i \in DOMAIN made : /\ made[i] = r
                                    /\ \A j \in DOMAIN made : j > i => Author[made[j]] # Author[r]

\* Whichever of the messages it is pressed on, and however often, the button removes the
\* roles of the author's newest request and of no other, once.
ExecutesNewest ==
    [][\A r \in Requests : executed'[r] # executed[r] =>
           executed[r] = 0 /\ Newest(r)]_buttonVars
===============================================================================
