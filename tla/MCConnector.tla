----------------------------- MODULE MCConnector ----------------------------
(* Small instances of Connector.                                           *)
EXTENDS Connector, TLC

Budget(f) == f @@ [k \in Kinds |-> 0]

(* One subscription and a changing file, against everything else that can  *)
(* happen to its documents.                                                *)
MCConfigs ==
    {Budget("subscribe" :> 1 @@ "file" :> 3),
     Budget("subscribe" :> 1 @@ "file" :> 2 @@ "stop" :> 1),
     Budget("subscribe" :> 1 @@ "file" :> 2 @@ "crash" :> 1),
     Budget("subscribe" :> 1 @@ "file" :> 1 @@ "crash" :> 1 @@ "stop" :> 1),
     Budget("subscribe" :> 1 @@ "file" :> 2 @@ "remove" :> 1),
     Budget("subscribe" :> 2 @@ "file" :> 1 @@ "unsubscribe" :> 1),
     Budget("subscribe" :> 1 @@ "file" :> 1 @@ "scan" :> 1 @@ "process" :> 1),
     Budget("subscribe" :> 2 @@ "file" :> 2 @@ "acquire" :> 1),
     Budget("subscribe" :> 1 @@ "file" :> 1 @@ "remove" :> 1 @@ "acquire" :> 1),
     Budget("subscribe" :> 2 @@ "file" :> 1 @@ "watch" :> 1 @@ "blob" :> 1),
     Budget("subscribe" :> 1 @@ "file" :> 1 @@ "delete" :> 1 @@ "restore" :> 1)}

=============================================================================
