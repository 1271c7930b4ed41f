------------------------------- MODULE Discord -------------------------------
(***************************************************************************)
(* The Discord service of one user (discord/src/service.ts): its bridge,   *)
(* what is said over an embodiment, its gateways and the row they are      *)
(* configured by.  In the models they share no state: an embodiment may be *)
(* given up at any time, a bridge lives on when its gateway is replaced,   *)
(* and what a gateway hears reaches it as a command or a wake at any time; *)
(* the manager does not read the code and the owner, and the transport     *)
(* carries any request.  So a behaviour is a behaviour of the one part     *)
(* `part` names, while the others rest.                                    *)
(***************************************************************************)
EXTENDS DiscordBridge, DiscordRelay, GatewayManager, WireTransport

VARIABLE part   \* the part that moves

discordVars == <<vars, relayVars, gatewayVars, wireVars, part>>

DiscordInit ==
  /\ part \in {"bridge", "relay", "wire", "link", "gateways"}
  /\ Init
  /\ RelayInit
  /\ GatewayInit
  /\ WireInit /\ (part # "wire" => cap = MaxInFlight)

BridgeMoves ==
  /\ part = "bridge" /\ Next
  /\ UNCHANGED <<relayVars, gatewayVars, wireVars, part>>

RelayMoves ==
  /\ part = "relay" /\ RelayNext
  /\ UNCHANGED <<vars, gatewayVars, wireVars, part>>

LinkMoves ==
  /\ part = "link" /\ DiscordConfigNext
  /\ UNCHANGED <<vars, relayVars, managerVars, wireVars, part>>

GatewayMoves ==
  /\ part = "gateways" /\ GatewayNext
  /\ UNCHANGED <<vars, relayVars, wireVars, part>>

WireMoves ==
  /\ part = "wire" /\ WireNext
  /\ UNCHANGED <<vars, relayVars, gatewayVars, part>>

DiscordNext == BridgeMoves \/ RelayMoves \/ WireMoves \/ LinkMoves \/ GatewayMoves

DiscordSpec == DiscordInit /\ [][DiscordNext]_discordVars
=============================================================================
