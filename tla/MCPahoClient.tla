---------------------------- MODULE MCPahoClient ----------------------------
(* Instances of PahoClient: the options the pages use (a clean session, the *)
(* version left to the client), and sessions that are resumed, with two     *)
(* hosts to try or a version that was asked for.                            *)
EXTENDS PahoClient

Choice(version, clean, hosts, ports, out, in) ==
  [mqttVersion |-> version, cleanSession |-> clean, hosts |-> hosts, ports |-> ports,
   outQos |-> out, inQos |-> in]

MCOptions == {Choice(0, "undefined", 0, 0, 0, 2), Choice(0, "false", 2, 2, 0, 2),
              Choice(4, "false", 0, 0, 2, 2),     Choice(3, "false", 0, 0, 1, 1),
              Choice(4, "true", 0, 0, 0, 0),      Choice(5, "true", 0, 0, 0, 0),
              Choice(0, "true", 2, 1, 0, 0)}

\* Texts around the borders of one to four bytes, and sizes around those of
\* one and two bytes of remaining length.
Texts == {<<>>, <<127>>, <<128>>, <<2047>>, <<2048>>, <<55295>>, <<57344>>, <<65535>>,
          <<55296, 56320>>, <<65, 56319, 57343, 66>>}
Will(text) == [has |-> TRUE, destinationName |-> text, qos |-> 1, retained |-> TRUE,
               payload |-> <<1, 2>>]
Text(text) == [has |-> TRUE, text |-> text]

MCSamples ==
  {Publish(513, qos, TRUE, TRUE, text, <<7>>) : qos \in 1 .. 2, text \in Texts}
  \cup {Publish(65535, 1, FALSE, FALSE, <<65>>, [k \in 1 .. size |-> k]) : size \in 121 .. 124}
  \cup {Connect(version, TRUE, text, Will(text), Text(text), NoOption) :
           version \in 3 .. 4, text \in Texts}
  \cup {Subscribe(300, text, 2) : text \in Texts} \cup {Unsubscribe(7, text) : text \in Texts}
  \cup {Bare("PINGREQ"), WithId("PUBREL", 256)}

\* Two messages that the broker sends under one identifier, one after the
\* other; the page's handler throws on one of them.
MCOneId == 11 :> 1 @@ 12 :> 1
=============================================================================
