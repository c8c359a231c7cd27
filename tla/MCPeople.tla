-------------------------------- MODULE MCPeople -------------------------------
(* The stores of the coordinator's people share no state, so one run explores   *)
(* them one after the other instead of their product: `part` says whose turn it *)
(* is, for ever.                                                                *)
EXTENDS Accounts, Social, Chat, Presence, Ratings

VARIABLE part

peopleVars == <<accountsVars, socialVars, chatVars, presenceVars, ratingsVars, part>>

PeopleInit ==
    /\ AccountsInit /\ SocialInit /\ ChatInit /\ PresenceInit /\ RatingsInit
    /\ part \in {"accounts", "social", "chat", "presence", "ratings"}
    /\ part # "accounts" => ~ accounts[HeadAdmin].weak

PeopleNext ==
    /\ UNCHANGED part
    /\ \/ /\ part = "accounts" /\ AccountsNext
          /\ UNCHANGED <<socialVars, chatVars, presenceVars, ratingsVars>>
       \/ /\ part = "social" /\ SocialNext
          /\ UNCHANGED <<accountsVars, chatVars, presenceVars, ratingsVars>>
       \/ /\ part = "chat" /\ ChatNext
          /\ UNCHANGED <<accountsVars, socialVars, presenceVars, ratingsVars>>
       \/ /\ part = "presence" /\ PresenceNext
          /\ UNCHANGED <<accountsVars, socialVars, chatVars, ratingsVars>>
       \/ /\ part = "ratings" /\ RatingsNext
          /\ UNCHANGED <<accountsVars, socialVars, chatVars, presenceVars>>

PeopleSpec == PeopleInit /\ [][PeopleNext]_peopleVars

\* The tables and maps of all five are of their types, and rows refer to rows.
PeopleTypeOK == AccountsTypeOK /\ SocialTypeOK /\ ChatTypeOK /\ PresenceTypeOK /\ RatingsTypeOK

\* One pair of interchangeable values stands for two tokens, two of three friends
\* and two players, so that one permutation serves every part.
Symmetry == Permutations(Players)
=================================================================================
