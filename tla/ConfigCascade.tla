---------------------------- MODULE ConfigCascade ----------------------------
(***************************************************************************)
(* Configuration loading of                                                 *)
(* 001.mock_bkop_business_traffic.py: the .env cascade run at import, the   *)
(* configuration classes that read os.environ right after it, and the       *)
(* --backend option main() parses later.                                     *)
(*                                                                          *)
(* At import the script picks a backend from sys.argv (the first token      *)
(* "--backend" that has a token after it), else from STORAGE_BACKEND, else  *)
(* "native", and loads .env with override=False, then .env.<backend> and    *)
(* .env.<backend>.local with override=True.  SurrealDBConfig and            *)
(* BKBaseConfig then read their settings from os.environ.  main() parses    *)
(* --backend with argparse, whose default is os.getenv('STORAGE_BACKEND',   *)
(* 'native') read at that point, and builds the client of that backend.     *)
(*                                                                          *)
(* Two keys stand for the environment: STORAGE_BACKEND, and Setting, any    *)
(* one connection setting the client reads (SURREAL_URL, BKBASE_API_URL,   *)
(* ...).  A value of Setting is the name of the source it came from.        *)
(***************************************************************************)
EXTENDS Integers, Sequences, FiniteSets

CONSTANTS Backends,     \* the choices of --backend
          ArgvChoices,  \* the command lines sys.argv[1:] may be
          FileContents, \* what a .env file may set: [setting, backend]
          Unset         \* a key absent from os.environ

(* The .env files the cascade may load, by their role.                      *)
BaseFile == ".env"
BackendFile(b) == ".env." \o b
LocalFile(b) == ".env." \o b \o ".local"
EnvFiles == {BaseFile} \cup {BackendFile(b) : b \in Backends}
                       \cup {LocalFile(b) : b \in Backends}

(* The value Setting has when the process environment sets it.            *)
Explicit == "environment"

Keys == {"STORAGE_BACKEND", "Setting"}

VARIABLES argv,        \* sys.argv[1:]
          files,       \* file -> what it sets (an absent file sets nothing)
          dotenv,      \* python-dotenv is installed
          explicit,    \* os.environ when the process started
          env,         \* os.environ
          setting,     \* the setting the configuration classes read
          backend,     \* args.backend, the backend main() runs with
          pc           \* "import", "main", "client"

vars == <<argv, files, dotenv, explicit, env, setting, backend, pc>>

(* The loop over sys.argv at import: the token after the first "--backend" *)
(* that is not the last token.                                              *)
ScannedBackend(args) ==
    LET I == {n \in 1..Len(args) - 1 : args[n] = "--backend"}
    IN  IF I = {} THEN Unset
        ELSE args[(CHOOSE n \in I : \A m \in I : n <= m) + 1]

(* The backend the cascade loads files for: argv, else STORAGE_BACKEND,     *)
(* else 'native'.                                                           *)
CascadeBackend(args, e) ==
    IF ScannedBackend(args) # Unset THEN ScannedBackend(args)
    ELSE IF e["STORAGE_BACKEND"] # Unset THEN e["STORAGE_BACKEND"]
    ELSE "native"

(* load_dotenv(path, override): every key the file sets is written, unless *)
(* override is FALSE and os.environ already has it.                         *)
LoadDotenv(e, path, override) ==
    LET c == files[path]
        set(k) == IF k = "Setting" THEN c.setting ELSE c.backend # Unset
        val(k) == IF k = "Setting" THEN path ELSE c.backend
    IN  [k \in Keys |-> IF set(k) /\ (override \/ e[k] = Unset)
                        THEN val(k) ELSE e[k]]

(* argparse: the last "--backend X" or "--backend=X" on the command line,  *)
(* else the default os.getenv('STORAGE_BACKEND', 'native').                 *)
ParsedBackend(args, e) ==
    LET opt(n) == IF args[n] = "--backend" /\ n < Len(args) THEN args[n + 1]
                  ELSE IF \E b \in Backends : args[n] = "--backend=" \o b
                       THEN CHOOSE b \in Backends : args[n] = "--backend=" \o b
                       ELSE Unset
        I == {n \in 1..Len(args) : opt(n) # Unset}
    IN  IF I # {} THEN opt(CHOOSE n \in I : \A m \in I : m <= n)
        ELSE IF e["STORAGE_BACKEND"] # Unset THEN e["STORAGE_BACKEND"]
        ELSE "native"

Init ==
    /\ argv \in ArgvChoices
    /\ files \in [EnvFiles -> FileContents]
    /\ dotenv \in BOOLEAN
    /\ explicit \in {[STORAGE_BACKEND |-> sb, Setting |-> st] :
                        sb \in Backends \cup {Unset}, st \in {Explicit, Unset}}
    /\ env = explicit
    /\ setting = Unset
    /\ backend = Unset
    /\ pc = "import"

(* Module import: the try block of the cascade (ImportError when           *)
(* python-dotenv is missing skips it), then the class bodies of            *)
(* SurrealDBConfig and BKBaseConfig read os.environ.                        *)
Import ==
    /\ pc = "import"
    /\ LET b  == CascadeBackend(argv, env)
           e1 == LoadDotenv(env, BaseFile, FALSE)
           e2 == LoadDotenv(e1, BackendFile(b), TRUE)
           e3 == LoadDotenv(e2, LocalFile(b), TRUE)
       IN  env' = IF dotenv THEN e3 ELSE env
    /\ setting' = env'["Setting"]
    /\ pc' = "main"
    /\ UNCHANGED <<argv, files, dotenv, explicit, backend>>

(* main(): parser.parse_args() and StorageBackend(args.backend); the       *)
(* client of that backend is built with the settings read at import.       *)
ParseArgs ==
    /\ pc = "main"
    /\ backend' = ParsedBackend(argv, env)
    /\ pc' = "client"
    /\ UNCHANGED <<argv, files, dotenv, explicit, env, setting>>

Next == Import \/ ParseArgs

Spec == Init /\ [][Next]_vars

-----------------------------------------------------------------------------
(* The value the documented precedence gives a setting for backend b:      *)
(* the environment, then .env.<b>.local, .env.<b>, .env.                   *)
Precedence(b) ==
    IF explicit["Setting"] # Unset THEN Explicit
    ELSE IF files[LocalFile(b)].setting THEN LocalFile(b)
    ELSE IF files[BackendFile(b)].setting THEN BackendFile(b)
    ELSE IF files[BaseFile].setting THEN BaseFile
    ELSE Unset

(* The client runs with each setting resolved by the documented            *)
(* precedence for the backend it talks to: environment variables over      *)
(* .env.<backend>.local over .env.<backend> over .env (the comment of the  *)
(* cascade and spec section 6), whenever python-dotenv is installed.        *)
SettingsByPrecedence ==
    (pc = "client" /\ dotenv) => setting = Precedence(backend)

=============================================================================
