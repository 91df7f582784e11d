CONSTANTS
    Ssids = {"home", "cafe"}
    WiFiPasswords = {"right", "wrong"}
    Networks <- MCNetworks
    Addresses <- MCAddresses
    ApPasswords = {"shibainu1", "shibainu2"}
    Gateways <- MCGateways
    LongNames = {"relay.example.org"}
    Absent = absent
SPECIFICATION MCSpec
INVARIANTS
    SettingsSurviveRestart
    PasswordGoesToItsGateway
    StoredWiFiWorked
    ControlPacketCarriesAddress
