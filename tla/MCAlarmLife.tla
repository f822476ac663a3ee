---------------------------- MODULE MCAlarmLife ----------------------------
\* One alarm of one device: a1 is a model value.  The sensor has an upper limit
\* on the temperature and a lower one on the humidity, or nothing.
EXTENDS AlarmLife

CONSTANT a1

Limited(low, high) == [enable_alarm |-> TRUE, low |-> low, high |-> high]
Guarded ==
    {NoThresholds,
     [has |-> TRUE,
      config |-> [threshold_enabled |-> TRUE,
                  point |-> [temperature |-> Limited(NoLimit, 0), humidity |-> Limited(1, NoLimit)]]]}
=============================================================================
