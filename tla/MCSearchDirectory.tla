--------------------------- MODULE MCSearchDirectory ---------------------------
(* An instance of SearchDirectory for TLC: a folder with a subfolder, in     *)
(* which there is a link back to the folder and another to itself.           *)
EXTENDS SearchDirectory, TLC

MCDirectories == {"top", "sub"}
MCFiles == {"sub", "back", "self", "saved"}
MCContent == "top" :> << "sub" >> @@ "sub" :> << "back", "saved", "self" >>
MCLeads == "sub" :> "sub" @@ "back" :> "top" @@ "self" :> "sub" @@ "saved" :> NoDirectory
\* The second query finds nothing but a saved search.
MCMatches == "some" :> {"sub", "saved", "self"} @@ "none" :> {"saved"}
=============================================================================
