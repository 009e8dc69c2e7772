------------------------- MODULE MongooseDocument -------------------------
(***************************************************************************)
(* What a mongoose document does when a handler loads it, changes it in    *)
(* memory and calls save(): the update holds only the paths the handler    *)
(* modified, and it is applied to whatever the collection holds by then.   *)
(* No schema of the code uses optimistic concurrency, so a save() never    *)
(* fails because another handler wrote in between.                         *)
(***************************************************************************)

(* The value one path has after save(): the handler's value when the       *)
(* handler changed the path it had loaded, the stored value otherwise.     *)
SavedPath(stored, loaded, changed) ==
    IF changed # loaded THEN changed ELSE stored
============================================================================
