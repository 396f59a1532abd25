----------------------------- MODULE MCUploads -----------------------------
(* Small instances of Uploads.                                             *)
EXTENDS Uploads, TLC

Budget(f) == f @@ [k \in Kinds |-> 0]

(* Uploads of one file against every operation that shares its documents:  *)
(* each workload adds to the uploads a few of the things that can happen.  *)
MCConfigs ==
    {Budget("make" :> 3),
     Budget("make" :> 2 @@ "crash" :> 1 @@ "blob" :> 1),
     Budget("make" :> 2 @@ "process" :> 1 @@ "crash" :> 1),
     Budget("make" :> 2 @@ "stop" :> 1 @@ "disk" :> 1),
     Budget("make" :> 2 @@ "stop" :> 1 @@ "crash" :> 1),
     Budget("make" :> 2 @@ "delete" :> 1 @@ "expire" :> 1 @@ "sweep" :> 1),
     Budget("make" :> 2 @@ "delete" :> 1 @@ "purge" :> 1),
     Budget("make" :> 2 @@ "delete" :> 1 @@ "restore" :> 1),
     Budget("make" :> 1 @@ "delete" :> 2 @@ "purge" :> 1 @@ "restore" :> 2
              @@ "expire" :> 1 @@ "sweep" :> 1 @@ "crash" :> 1),
     Budget("make" :> 2 @@ "publish" :> 2 @@ "withdraw" :> 1),
     Budget("make" :> 2 @@ "acquire" :> 1 @@ "clock" :> 1)}

=============================================================================
