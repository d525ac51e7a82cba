------------------------------- MODULE MCApp -------------------------------
EXTENDS App

MCSessions == <<[uid |-> 1, kind |-> 5, track |-> 3],
                [uid |-> 2, kind |-> 10, track |-> 3],
                [uid |-> 3, kind |-> 10, track |-> 3]>>

MCLoads ==
    {[listeners |-> {"epoll"}, types |-> {"Session", "Motion", "Event"},
      cars |-> {1}, sent |-> 4, intervals |-> {16}, clicks |-> 0],
     [listeners |-> {"select"}, types |-> {"Session", "TyreSets"},
      cars |-> {0, 1}, sent |-> 3, intervals |-> {16}, clicks |-> 0],
     [listeners |-> {"epoll"},
      types |-> DOMAIN Layout!StructSize \cup {"Unknown"},
      cars |-> {0}, sent |-> 1, intervals |-> {16}, clicks |-> 0],
     [listeners |-> {"epoll", "failed"}, types |-> {}, cars |-> {}, sent |-> 0,
      intervals |-> {6, 16, 70000}, clicks |-> 3]}
============================================================================
