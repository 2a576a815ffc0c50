------------------------------- MODULE MCWire --------------------------------
EXTENDS Wire

\* One message of every kind with everything in it.
Fill(S) == [x \in S |-> IF x \in Texts THEN Text(3, 8)
                        ELSE IF x = "WORKLOAD_KIND" THEN 2 ELSE 1]
Item(i, S) == [Fill(S) EXCEPT !["SERVICE_ID"] = Text(i, 1)]
Two(S) == <<Item(1, S), Item(2, S)>>

MCSamples ==
  {[kind |-> k, fields |-> Fill(Attributes(k)),
    items |-> IF ItemAttributes(k) = {} THEN <<>>
              ELSE Two(IF k = "EVALUATE_RESPONSE"
                       THEN ItemAttributes(k) \ {"RESERVATION_ID"}
                       ELSE ItemAttributes(k))] :
     k \in MessageType}
=============================================================================
