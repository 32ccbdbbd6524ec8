SPECIFICATION RetrySpec
CONSTANTS
    Models = {e4b, e2b}
    Zip = zip
    Server = server
    Libs = {llama, ggml}
    CoreLib = llama
    Size = 2
    None = none
    MaxDisturbances = 3
INVARIANTS
    ConfiguredIsInstalled
PROPERTIES
    InstallsAtomically
    RetriesInstall
