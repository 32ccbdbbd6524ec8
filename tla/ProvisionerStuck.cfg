SPECIFICATION RetrySpec
CONSTANTS
    Models = {e4b}
    Zip = zip
    Server = server
    Libs = {llama, ggml}
    CoreLib = llama
    Size = 2
    None = none
    MaxDisturbances = 1
PROPERTIES
    PartialsAreResumed
