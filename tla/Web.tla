--------------------------------- MODULE Web ---------------------------------
(***************************************************************************)
(* The browser: its transport (api/ws.ts) and the chat page on top of it.  *)
(* The page takes the transport by what it promises, a call that settles,  *)
(* a subscription that ends with its socket and one that is yielded, and   *)
(* shares no variable with it.  So a behaviour here is a behaviour of the  *)
(* one part `part` names, while the other rests.                           *)
(***************************************************************************)
EXTENDS WsClient, ChatView

VARIABLE part   \* the part that moves

webVars == <<vars, chatVars, part>>

WebInit ==
  /\ part \in {"transport", "page"}
  /\ Init
  /\ ChatInit

TransportMoves ==
  /\ part = "transport" /\ Next
  /\ UNCHANGED <<chatVars, part>>

PageMoves ==
  /\ part = "page" /\ ChatNext
  /\ UNCHANGED <<vars, part>>

WebNext == TransportMoves \/ PageMoves

WebSpec == WebInit /\ [][WebNext]_webVars
=============================================================================
