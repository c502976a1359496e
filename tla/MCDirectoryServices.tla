----------------------- MODULE MCDirectoryServices -----------------------
(***************************************************************************)
(* Instance of DirectoryServices: two scripts, the two search paths.       *)
(***************************************************************************)
EXTENDS DirectoryServices

MCPaths == {"/Search", "/Search/Contacts"}

=============================================================================
