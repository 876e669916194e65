------------------------------- MODULE MCServer -------------------------------
(***************************************************************************)
(* Five parts of the program on the notebook that do not read each other's *)
(* state as far as they are modelled: resumable uploads, uploads in one    *)
(* request, the files of the library, the start of the database, and the   *)
(* tokens of the ChatGPT account.                                          *)
(* part says which one a behaviour is about; the others keep one value.    *)
(***************************************************************************)
EXTENDS ResumableUpload, SingleUpload, MediaLibrary, SchemaStart, TokenStore

VARIABLE part

serverVars == <<part, vars, uploadVars, libraryVars, schemaVars, tokenVars>>

ServerInit ==
    /\ part \in {"resumable", "single", "library", "schema", "tokens"}
    /\ Init /\ SingleInit /\ LibraryInit /\ SchemaInit /\ TokensInit
    /\ part # "schema" => empty

ServerNext ==
    /\ UNCHANGED part
    /\ \/ /\ part = "resumable" /\ Next
          /\ UNCHANGED <<uploadVars, libraryVars, schemaVars, tokenVars>>
       \/ /\ part = "single" /\ SingleNext
          /\ UNCHANGED <<vars, libraryVars, schemaVars, tokenVars>>
       \/ /\ part = "library" /\ LibraryNext
          /\ UNCHANGED <<vars, uploadVars, schemaVars, tokenVars>>
       \/ /\ part = "schema" /\ SchemaNext
          /\ UNCHANGED <<vars, uploadVars, libraryVars, tokenVars>>
       \/ /\ part = "tokens" /\ TokensNext
          /\ UNCHANGED <<vars, uploadVars, libraryVars, schemaVars>>

ServerSpec == ServerInit /\ [][ServerNext]_serverVars
=============================================================================
