-------------------------- MODULE MCConfigCascade --------------------------
(* Model-checking instance of ConfigCascade.                                *)
EXTENDS ConfigCascade

MCBackends == {"native", "bkbase"}

(* No --backend, each backend as two tokens, and the "=" form argparse     *)
(* also accepts.                                                            *)
MCArgv == {<<>>, <<"--backend", "native">>, <<"--backend", "bkbase">>,
           <<"--backend=bkbase">>}

(* A file sets the connection setting or not, and STORAGE_BACKEND to       *)
(* either backend or not; a file that does not exist sets nothing.          *)
MCFileContents == [setting : BOOLEAN, backend : MCBackends \cup {Unset}]

=============================================================================
