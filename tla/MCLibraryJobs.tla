--------------------------- MODULE MCLibraryJobs ---------------------------
(* A Library with two Jobs and two folders that webhooks name.     *)
EXTENDS LibraryJobs, TLC

\* Safety is checked up to renaming the folders.
FolderSymmetry == Permutations(Folders)

=============================================================================
