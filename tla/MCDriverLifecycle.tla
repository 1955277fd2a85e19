------------------------- MODULE MCDriverLifecycle -------------------------
EXTENDS DriverLifecycle

MCDrivers == {"axidmaout", "cnccontroller", "testadder", "dmalooptest",
              "dynclk", "digilentencoder"}

AllFailures ==
  UNION {{<<d, Code(d).init[i].call>> : i \in DOMAIN Code(d).init}
           \cup {<<d, Code(d).probe[i].call>> : i \in DOMAIN Code(d).probe}
         : d \in MCDrivers}
    \cup {<<"digilentencoder", EncoderBind[i].call>> : i \in DOMAIN EncoderBind}

\* The failures the code does not handle: see the README.
MCMishandled ==
  {<<d, "driver">> : d \in {"axidmaout", "cnccontroller", "testadder"}}
    \cup {<<"cnccontroller", "device">>, <<"testadder", "device">>,
          <<"testadder", "irq">>, <<"testadder", "irq number">>,
          <<"digilentencoder", "component">>}
=============================================================================
