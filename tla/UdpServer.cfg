\* Two senders, three datagrams of up to three bytes, of which two fit.
SPECIFICATION Spec
CONSTANTS Peers = {p1, p2}  Nobody = Nobody  Bad = Bad  Stranger = Stranger
          Timeouts = {10}  Buffer = 2  MaxSize = 3  MaxDatagrams = 3
INVARIANTS TypeOK ReadOnce LatestKept ReplyToSender NumberKept
SYMMETRY AnyPeer
CHECK_DEADLOCK FALSE
