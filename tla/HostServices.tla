---------------------------- MODULE HostServices -----------------------------
(***************************************************************************)
(* The parts of the host that share no state: the router's mappings, the   *)
(* account of the stream's health, the start with its files, the covers of *)
(* the game library, what a link's messages settle, the bytes of the input *)
(* and the names the listener answers to.  One of them runs in each        *)
(* behaviour and the others rest, so their states add up and do not        *)
(* multiply.                                                               *)
(***************************************************************************)
EXTENDS PortMap, StreamHealth, Startup, CoverArt, Negotiation, InputWire, HostNames

VARIABLE running

Services == {"ports", "health", "files", "covers", "offers", "wire", "names"}

servicesVars ==
  <<running, portVars, healthVars, bootVars, artVars, offerVars, wireVars, nameVars>>

ServicesInit ==
  /\ running \in Services
  /\ PortMapInit /\ (running # "ports" => ~enabled /\ router = "silent")
  /\ HealthInit
  /\ StartupInit /\ (running # "files" => disk.identity = NoSecret /\ disk.format = "v2"
                                          /\ address = CHOOSE a \in Addresses : TRUE)
  /\ CoverArtInit
  /\ NegotiationInit
  /\ InputWireInit /\ (running # "wire" => carrier = "stream")
  /\ HostNamesInit /\ (running # "names" => prefix = NoPrefix /\ playName = "local" /\ remote)

(* A step of one service leaves what the others own alone.                  *)
Ports(A) ==
  /\ running = "ports" /\ A
  /\ UNCHANGED <<running, healthVars, bootVars, artVars, offerVars, wireVars, nameVars>>
Health(A) ==
  /\ running = "health" /\ A
  /\ UNCHANGED <<running, portVars, bootVars, artVars, offerVars, wireVars, nameVars>>
FilesOf(A) ==
  /\ running = "files" /\ A
  /\ UNCHANGED <<running, portVars, healthVars, artVars, offerVars, wireVars, nameVars>>
Covers(A) ==
  /\ running = "covers" /\ A
  /\ UNCHANGED <<running, portVars, healthVars, bootVars, offerVars, wireVars, nameVars>>
Offers(A) ==
  /\ running = "offers" /\ A
  /\ UNCHANGED <<running, portVars, healthVars, bootVars, artVars, wireVars, nameVars>>
Wire(A) ==
  /\ running = "wire" /\ A
  /\ UNCHANGED <<running, portVars, healthVars, bootVars, artVars, offerVars, nameVars>>
NamesOf(A) ==
  /\ running = "names" /\ A
  /\ UNCHANGED <<running, portVars, healthVars, bootVars, artVars, offerVars, wireVars>>

ServicesNext ==
  \/ Ports(PortMapNext) \/ Health(HealthNext) \/ FilesOf(StartupNext) \/ Covers(CoverArtNext)
  \/ Offers(NegotiationNext) \/ Wire(InputWireNext) \/ NamesOf(HostNamesNext)

ServicesFairness ==
  /\ WF_portVars(Ports(Idle)) /\ WF_portVars(Ports(MapUdp \/ NoUdp))
  /\ WF_portVars(Ports(MapTcp \/ NoTcp)) /\ WF_portVars(Ports(Tick))
  /\ WF_healthVars(Health(EncodeFrame)) /\ WF_healthVars(Health(Look))
  /\ WF_healthVars(Health(LastLook)) /\ WF_healthVars(Health(Second))
  /\ WF_healthVars(Health(Watchdog))
  /\ WF_bootVars(FilesOf(Renew \/ RenewCut))

ServicesSpec == ServicesInit /\ [][ServicesNext]_servicesVars /\ ServicesFairness
==============================================================================
