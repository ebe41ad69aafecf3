--------------------------- MODULE MCFileTransfer ---------------------------
(* Instances of FileTransfer for TLC. *)
EXTENDS FileTransfer, TLC

(* The stores of datainfo_server_send_file seen as one. *)
MCAtomicStore == << Fields >>

(* The stores one by one, in the order of the source. *)
MCSourceOrder == << {"status"}, {"recv_num"}, {"random_seq"}, {"type"},
                    {"id_num"}, {"id_list"}, {"start_time"} >>

(* No action treats one device differently from another. *)
MCSymmetry == Permutations(Devices)
=============================================================================
