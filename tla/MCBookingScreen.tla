-------------------------- MODULE MCBookingScreen --------------------------
EXTENDS BookingScreen
=============================================================================
