\* Every command line of MCArgv, every content of the five .env files, the
\* process environment with or without STORAGE_BACKEND and the setting,
\* python-dotenv installed or not.
CONSTANTS
    Backends <- MCBackends
    ArgvChoices <- MCArgv
    FileContents <- MCFileContents
    Unset = Unset
SPECIFICATION Spec
\* The process builds its client and goes on; the model stops there.
CHECK_DEADLOCK FALSE
INVARIANT
    SettingsByPrecedence
