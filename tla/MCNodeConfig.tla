----------------------------- MODULE MCNodeConfig -----------------------------
(* NodeConfig with the requests of a behaviour limited to one namespace.   *)
(* The namespaces share the writes, the power and setup, and no keys.      *)
EXTENDS NodeConfig

VARIABLE focus   \* the namespace the requests are about

mcvars == <<vars, focus>>

MCNetworks == {<<"home", "right">>, <<"cafe", "">>}

MCAddresses ==
    {[region |-> "20", community |-> "2", node |-> "3"],
     [region |-> "30", community |-> "4", node |-> "1"]}

Gateway(type, ip, port, endpoint, user, pass) ==
    [gateway_type |-> type, gateway_ip |-> ip, gateway_port |-> port,
     gateway_endpoint |-> endpoint, gateway_user |-> user, gw_pass |-> pass]

MCGateways ==
    {Gateway("core", "10.0.0.1", "22555", "", "shibe", "wow"),
     Gateway("core", "10.0.0.2", "44555", "", "doge", "much"),
     Gateway("dogebox", "10.0.0.1", "8080", "/send", "", ""),
     Gateway("custom", "relay.example.org", "8080", "/tx", "", "such")}

MCInit == Init /\ focus \in Namespaces

Request ==
    CASE focus = "wifi_config" -> WiFiRequest
      [] focus = "lora_config" -> LoRaRequest
      [] focus = "ap_config" -> ApRequest
      [] focus = "gateway_config" -> GatewayRequest

MCNext == (Request \/ Node \/ PowerLoss) /\ UNCHANGED focus

MCSpec == MCInit /\ [][MCNext]_mcvars
=============================================================================
