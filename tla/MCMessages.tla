----------------------------- MODULE MCMessages -----------------------------
(***************************************************************************)
(* The collection of messages and the way of a message, which share        *)
(* nothing: a behaviour is one of MessagePack or one of Conversation.      *)
(* Messages of three times, two of each, and every text of up to three     *)
(* characters that the formats give a meaning to.                          *)
(***************************************************************************)
EXTENDS MessagePack, Conversation

MCInit == Init /\ TalkInit

MCNext ==
  \/ Next /\ said = Nothing /\ UNCHANGED talkVars
  \/ TalkNext /\ Total(given) = 0 /\ UNCHANGED vars

MCSpec == MCInit /\ [][MCNext]_<<vars, talkVars>>

Letter == 97

MCMessages == [time : 1..3, text : {1, 2}]

MCTexts(chars) == UNION {[1..n -> chars] : n \in 0..3}
MCNames == {<<>>, <<Letter>>, <<Colon, Dash>>, <<Letter, US>>}
MCPasswords == MCTexts({Letter, Colon, US})
MCBodies == MCTexts({Letter, Colon, Space, LF})

=============================================================================
