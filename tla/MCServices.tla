----------------------------- MODULE MCServices -----------------------------
(***************************************************************************)
(* The services of which only safety is checked, one at a time: a          *)
(* behaviour is that of one of them, and the others keep one state.        *)
(***************************************************************************)
EXTENDS HostDestinations, ControllerRecords, ConfigurationStore, Connectivity, Canopen,
        SdCard, MachineRecords, Media, FrameDecoder

VARIABLE part

serviceVars == <<part, destinationVars, recVars, storeVars, blufiVars, stationVars, apVars,
                 canVars, pdoVars, dictionaryVars, sdoVars, discoveryVars, sdVars,
                 counterVars, identityVars, videoVars, liveVars, previewVars, decoderVars>>

MCInit ==
    /\ part \in {"destinations", "records", "store", "blufi", "station", "accesspoint",
                "node", "pdo", "dictionary", "sdo", "discovery", "card", "counters", "identity",
                "videos", "live", "preview", "decoder"}
    /\ RecInit /\ (part # "records" => exchange = "factory" /\ ~present)
    /\ StoreInit /\ (part # "store" => ~active.exists /\ ~saved.exists)
    /\ StationInit /\ (part # "station" => credentials = NoPair)
    /\ ApInit /\ (part # "accesspoint" => \A k \in ApKeys : apStored[k] = "missing")
    /\ SdoInit /\ (part # "sdo" => input = CHOOSE v \in Inputs : TRUE)
    /\ SdInit /\ (part # "card" => card = NoCard)
    /\ DecoderInit /\ (part # "decoder" => policy = "tcp")
    /\ BlufiInit /\ (part # "blufi" => wiring = CHOOSE w \in Wirings : TRUE)
    /\ DestinationsInit /\ CanInit /\ PdoInit /\ DictionaryInit
    /\ DiscoveryInit /\ CountersInit /\ IdentityInit /\ VideoInit /\ LiveInit /\ PreviewInit

Only(p) ==
    /\ part = p /\ UNCHANGED part
    /\ p # "destinations" => UNCHANGED destinationVars
    /\ p # "records" => UNCHANGED recVars
    /\ p # "store" => UNCHANGED storeVars
    /\ p # "blufi" => UNCHANGED blufiVars
    /\ p # "station" => UNCHANGED stationVars
    /\ p # "accesspoint" => UNCHANGED apVars
    /\ p # "node" => UNCHANGED canVars
    /\ p # "pdo" => UNCHANGED pdoVars
    /\ p # "dictionary" => UNCHANGED dictionaryVars
    /\ p # "sdo" => UNCHANGED sdoVars
    /\ p # "discovery" => UNCHANGED discoveryVars
    /\ p # "card" => UNCHANGED sdVars
    /\ p # "counters" => UNCHANGED counterVars
    /\ p # "identity" => UNCHANGED identityVars
    /\ p # "videos" => UNCHANGED videoVars
    /\ p # "live" => UNCHANGED liveVars
    /\ p # "preview" => UNCHANGED previewVars
    /\ p # "decoder" => UNCHANGED decoderVars

MCNext ==
    \/ Only("destinations") /\ DestinationsNext
    \/ Only("records") /\ RecNext
    \/ Only("store") /\ StoreNext
    \/ Only("blufi") /\ BlufiNext
    \/ Only("station") /\ StationNext
    \/ Only("accesspoint") /\ ApNext
    \/ Only("node") /\ CanNext
    \/ Only("pdo") /\ PdoNext
    \/ Only("dictionary") /\ DictionaryNext
    \/ Only("sdo") /\ SdoNext
    \/ Only("discovery") /\ DiscoveryNext
    \/ Only("card") /\ SdNext
    \/ Only("counters") /\ CountersNext
    \/ Only("identity") /\ IdentityNext
    \/ Only("videos") /\ VideoNext
    \/ Only("live") /\ LiveNext
    \/ Only("preview") /\ PreviewNext
    \/ Only("decoder") /\ DecoderNext

MCSpec == MCInit /\ [][MCNext]_serviceVars

(* The variables of the service that runs keep their types and bounds; the  *)
(* others do not change.                                                    *)
ServiceTypesOK ==
    CASE part = "destinations" -> DestinationsTypeOK
      [] part = "records" -> RecTypeOK
      [] part = "store" -> StoreTypeOK
      [] part = "blufi" -> BlufiTypeOK
      [] part = "station" -> StationTypeOK
      [] part = "accesspoint" -> ApTypeOK
      [] part = "node" -> CanTypeOK
      [] part = "pdo" -> PdoTypeOK
      [] part = "dictionary" -> DictionaryTypeOK
      [] part = "sdo" -> SdoTypeOK
      [] part = "discovery" -> DiscoveryTypeOK
      [] part = "card" -> SdTypeOK
      [] part = "counters" -> CountersTypeOK
      [] part = "identity" -> IdentityTypeOK
      [] part = "videos" -> VideoTypeOK
      [] part = "live" -> LiveTypeOK
      [] part = "preview" -> PreviewTypeOK
      [] part = "decoder" -> DecoderTypeOK
=============================================================================
